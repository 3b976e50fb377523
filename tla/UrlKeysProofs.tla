--------------------------- MODULE UrlKeysProofs ---------------------------
(***************************************************************************)
(* The keys that normalize_url makes: what stripping slashes and sorting   *)
(* a query return, and that all spellings of a page have one key.          *)
(***************************************************************************)
EXTENDS UrlKeys, FiniteSetTheorems, WellFoundedInduction, TLAPS

\* A set of naturals has a least element.
LEMMA LeastNumber ==
  ASSUME NEW T, T \subseteq Nat, T # {}
  PROVE  \E x \in T : \A y \in T : x <= y
<1>1. PICK x \in T : \A y \in T : <<y, x>> \notin OpToRel(<, Nat)
  BY NatLessThanWellFounded, WFMin, Zenon
<1>2. \A y \in T : ~(y < x)
  BY <1>1 DEF OpToRel
<1> QED
  BY <1>2
-----------------------------------------------------------------------------
\* Where the slashes at the end of a path begin.
EndsAt(path, n) == /\ n > 0 => path[n] # Slash
                   /\ \A i \in n + 1..Len(path) : path[i] = Slash

LEMMA EndExists ==
  ASSUME NEW T, NEW path \in Seq(T)
  PROVE  \E n \in 0..Len(path) : EndsAt(path, n)
<1> DEFINE Back == {k \in 0..Len(path) : Len(path) - k > 0 => path[Len(path) - k] # Slash}
<1>1. Len(path) \in Back /\ Back \subseteq Nat
  OBVIOUS
<1>2. PICK k \in Back : \A l \in Back : k <= l
  BY <1>1, LeastNumber
<1>3. ASSUME NEW i \in Len(path) - k + 1..Len(path)
      PROVE  path[i] = Slash
  <2>1. Len(path) - i \in 0..Len(path) /\ Len(path) - i < k /\ Len(path) - (Len(path) - i) = i /\ i > 0
    BY <1>2
  <2>2. Len(path) - i \notin Back
    BY <1>2, <2>1
  <2> QED
    BY <2>1, <2>2
<1>4. Len(path) - k \in 0..Len(path) /\ EndsAt(path, Len(path) - k)
  BY <1>2, <1>3 DEF EndsAt
<1> QED
  BY <1>4

LEMMA EndUnique ==
  ASSUME NEW T, NEW path \in Seq(T), NEW m \in 0..Len(path), NEW n \in 0..Len(path),
         EndsAt(path, m), EndsAt(path, n)
  PROVE  m = n
<1>1. ~(m < n) /\ ~(n < m)
  BY DEF EndsAt
<1> QED
  BY <1>1

\* What StripSlashes returns.
LEMMA Stripped ==
  ASSUME NEW T, NEW path \in Seq(T), path # <<Slash>>, NEW n \in 0..Len(path), EndsAt(path, n)
  PROVE  StripSlashes(path) = SubSeq(path, 1, n)
<1>1. PICK m : m = CHOOSE k \in 0..Len(path) : EndsAt(path, k)
  OBVIOUS
<1>2. m \in 0..Len(path) /\ EndsAt(path, m)
  BY <1>1
<1>3. m = n
  BY <1>2, EndUnique
<1> QED
  BY <1>1, <1>3 DEF StripSlashes, EndsAt

-----------------------------------------------------------------------------
\* A rearrangement puts a query in order.
Sorts(query, p) == \A i, k \in DOMAIN query : i < k => query[p[i]] <= query[p[k]]
Sorted(query) == \A i, k \in DOMAIN query : i < k => query[i] <= query[k]

\* The longer interval has the more numbers.
LEMMA Fewer ==
  ASSUME NEW a \in Int, NEW b \in Int, NEW c \in Int, NEW d \in Int, a <= b, d - c < b - a
  PROVE  IsFiniteSet(a..b) /\ IsFiniteSet(c..d) /\ Cardinality(c..d) < Cardinality(a..b)
<1>1. /\ IsFiniteSet(a..b) /\ Cardinality(a..b) = IF a > b THEN 0 ELSE b - a + 1
      /\ IsFiniteSet(c..d) /\ Cardinality(c..d) = IF c > d THEN 0 ELSE d - c + 1
  BY FS_Interval
<1> QED
  BY <1>1

\* Two orders of the same numbers agree: if the second had a lesser number at
\* place m, the numbers that the first has from m on would all have to find
\* places after m in the second; and likewise for a greater one.
LEMMA OneOrder ==
  ASSUME NEW N \in Nat, NEW a \in [1..N -> Nat], NEW b \in [1..N -> Nat],
         NEW g \in [1..N -> 1..N], \A i \in 1..N : b[g[i]] = a[i],
         \A i, k \in 1..N : i # k => g[i] # g[k],
         \A i, k \in 1..N : i < k => a[i] <= a[k] /\ b[i] <= b[k],
         NEW m \in 1..N
  PROVE  b[m] = a[m]
<1>1. m \in Int /\ N \in Int /\ 1 <= m /\ m <= N /\ a[m] \in Nat /\ b[m] \in Nat
  OBVIOUS
<1>2. \A i \in 1..N : i \in Int /\ g[i] \in 1..N /\ g[i] \in Int /\ a[i] \in Nat /\ b[g[i]] \in Nat
  OBVIOUS
<1>3. ASSUME b[m] < a[m] PROVE FALSE
  <2>1. \A i \in m..N : g[i] \in m + 1..N
    <3> SUFFICES ASSUME NEW i \in m..N PROVE g[i] \in m + 1..N
      OBVIOUS
    <3>1. i \in 1..N /\ i \in Int
      BY <1>1
    <3>2. a[m] <= a[i]
      <4>1. i = m \/ m < i
        BY <1>1
      <4> QED
        BY <1>1, <3>1, <4>1
    <3>3. b[g[i]] > b[m]
      BY <1>1, <1>2, <1>3, <3>1, <3>2
    <3>4. g[i] # m
      BY <1>1, <3>3
    <3>5. ~(g[i] < m)
      BY <1>1, <1>2, <3>1, <3>3
    <3> QED
      BY <1>1, <1>2, <3>1, <3>4, <3>5
  <2> DEFINE f == [i \in m..N |-> g[i]]
  <2>2. f \in [m..N -> m + 1..N]
    BY <2>1
  <2>3. \A x, y \in m..N : x # y => f[x] # f[y]
    <3>1. \A x \in m..N : x \in 1..N /\ f[x] = g[x]
      BY <1>1
    <3> QED
      BY <3>1
  <2> HIDE DEF f
  <2>4. IsFiniteSet(m..N) /\ IsFiniteSet(m + 1..N) /\ Cardinality(m + 1..N) < Cardinality(m..N)
    <3>1. PICK c \in Int : c = m + 1 /\ N - c < N - m
      BY <1>1
    <3> QED
      BY <1>1, <3>1, Fewer
  <2>5. \E x, y \in m..N : x # y /\ f[x] = f[y]
    <3>1. PICK S, T : S = m..N /\ T = m + 1..N
      OBVIOUS
    <3>2. IsFiniteSet(S) /\ IsFiniteSet(T) /\ Cardinality(T) < Cardinality(S) /\ f \in [S -> T]
      BY <2>2, <2>4, <3>1
    <3>3. \E x, y \in S : x # y /\ f[x] = f[y]
      BY <3>2, FS_PigeonHole
    <3> QED
      BY <3>1, <3>3
  <2> QED
    BY <2>3, <2>5
<1>4. ASSUME b[m] > a[m] PROVE FALSE
  <2>1. \A i \in 1..m : g[i] \in 1..m - 1
    <3> SUFFICES ASSUME NEW i \in 1..m PROVE g[i] \in 1..m - 1
      OBVIOUS
    <3>1. i \in 1..N /\ i \in Int
      BY <1>1
    <3>2. a[i] <= a[m]
      <4>1. i = m \/ i < m
        BY <1>1
      <4> QED
        BY <1>1, <3>1, <4>1
    <3>3. b[g[i]] < b[m]
      BY <1>1, <1>2, <1>4, <3>1, <3>2
    <3>4. g[i] # m
      <4>1. \A x \in Nat : ~(x < x)
        OBVIOUS
      <4> QED
        BY <1>1, <3>3, <4>1
    <3>5. ~(m < g[i])
      BY <1>1, <1>2, <3>1, <3>3
    <3> QED
      BY <1>1, <1>2, <3>1, <3>4, <3>5
  <2> DEFINE f == [i \in 1..m |-> g[i]]
  <2>2. f \in [1..m -> 1..m - 1]
    BY <2>1
  <2>3. \A x, y \in 1..m : x # y => f[x] # f[y]
    <3>1. \A x \in 1..m : x \in 1..N /\ f[x] = g[x]
      BY <1>1
    <3> QED
      BY <3>1
  <2> HIDE DEF f
  <2>4. IsFiniteSet(1..m) /\ IsFiniteSet(1..m - 1) /\ Cardinality(1..m - 1) < Cardinality(1..m)
    <3>1. PICK d \in Int : d = m - 1 /\ d - 1 < m - 1
      BY <1>1
    <3>2. 1 \in Int
      OBVIOUS
    <3> QED
      BY <1>1, <3>1, <3>2, Fewer
  <2>5. \E x, y \in 1..m : x # y /\ f[x] = f[y]
    <3>1. PICK S, T : S = 1..m /\ T = 1..m - 1
      OBVIOUS
    <3>2. IsFiniteSet(S) /\ IsFiniteSet(T) /\ Cardinality(T) < Cardinality(S) /\ f \in [S -> T]
      BY <2>2, <2>4, <3>1
    <3>3. \E x, y \in S : x # y /\ f[x] = f[y]
      BY <3>2, FS_PigeonHole
    <3> QED
      BY <3>1, <3>3
  <2> QED
    BY <2>3, <2>5
<1> QED
  BY <1>1, <1>3, <1>4

\* A rearrangement that sorts a sorted query leaves every pair equal to the one
\* in its place.
LEMMA SortedStays ==
  ASSUME NEW q \in Seq(Nat), Sorted(q), NEW p \in Rearrangements(q), Sorts(q, p),
         NEW m \in DOMAIN q
  PROVE  q[p[m]] = q[m]
<1>0. PICK N \in Nat : DOMAIN q = 1..N /\ q \in [1..N -> Nat]
  <2>1. Len(q) \in Nat /\ DOMAIN q = 1..Len(q) /\ q \in [1..Len(q) -> Nat]
    OBVIOUS
  <2> QED
    BY <2>1
<1>1. p \in [1..N -> 1..N] /\ (\A i \in 1..N : \E k \in 1..N : p[k] = i) /\ m \in 1..N
  BY <1>0 DEF Rearrangements
<1>2. PICK g \in [1..N -> 1..N] : \A i \in 1..N : p[g[i]] = i
  <2>1. [i \in 1..N |-> CHOOSE k \in 1..N : p[k] = i] \in [1..N -> 1..N]
    BY <1>1
  <2> QED
    BY <1>1, <2>1
<1>3. PICK s \in [1..N -> Nat] : \A i \in 1..N : s[i] = q[p[i]]
  <2>1. [i \in 1..N |-> q[p[i]]] \in [1..N -> Nat]
    BY <1>0, <1>1
  <2> QED
    BY <2>1
<1>4. \A i, k \in 1..N : i < k => q[i] <= q[k] /\ s[i] <= s[k]
  <2>1. \A i, k \in 1..N : i < k => q[i] <= q[k]
    BY <1>0 DEF Sorted
  <2>2. \A i, k \in 1..N : i < k => q[p[i]] <= q[p[k]]
    BY <1>0 DEF Sorts
  <2> QED
    BY <1>3, <2>1, <2>2
<1>5. \A i, k \in 1..N : i # k => g[i] # g[k]
  BY <1>2
<1>6. \A i \in 1..N : s[g[i]] = q[i]
  BY <1>2, <1>3
<1>7. s[m] = q[m]
  <2>1. q \in [1..N -> Nat] /\ m \in 1..N
    BY <1>0, <1>1
  <2> QED
    BY <2>1, <1>4, <1>5, <1>6, OneOrder
<1> QED
  BY <1>1, <1>3, <1>7

\* Sorting a sorted query changes nothing.
LEMMA SortedIsSorted ==
  ASSUME NEW q \in Seq(Nat), Sorted(q)
  PROVE  SortedQuery(q) = q
<1>1. PICK p : p = CHOOSE r \in Rearrangements(q) : Sorts(q, r)
  OBVIOUS
<1>2. \E r \in Rearrangements(q) : Sorts(q, r)
  <2>1. [i \in DOMAIN q |-> i] \in Rearrangements(q)
    BY DEF Rearrangements
  <2> QED
    BY <2>1 DEF Sorts, Sorted
<1>3. p \in Rearrangements(q) /\ Sorts(q, p)
  BY <1>1, <1>2
<1>4. SortedQuery(q) = [i \in DOMAIN q |-> q[p[i]]]
  BY <1>1 DEF SortedQuery, Sorts
<1>5. \A i \in DOMAIN q : q[p[i]] = q[i]
  BY <1>3, SortedStays
<1> QED
  BY <1>4, <1>5

\* Nor does the order in which two pairs are written.
LEMMA ReversedIsSorted ==
  ASSUME NEW q \in Seq(Nat), Len(q) = 2, Sorted(q)
  PROVE  SortedQuery(<<q[2], q[1]>>) = q
<1> DEFINE r == <<q[2], q[1]>>
<1>0. /\ q[1] \in Nat /\ q[2] \in Nat /\ q[1] <= q[2] /\ q = <<q[1], q[2]>>
      /\ DOMAIN r = 1..2 /\ r[1] = q[2] /\ r[2] = q[1]
  <2>1. DOMAIN q = 1..2 /\ q[1] \in Nat /\ q[2] \in Nat
    OBVIOUS
  <2>2. q[1] <= q[2]
    BY <2>1 DEF Sorted
  <2>3. q = <<q[1], q[2]>>
    OBVIOUS
  <2> QED
    BY <2>1, <2>2, <2>3
<1> HIDE DEF r
<1>1. PICK p : p = CHOOSE f \in Rearrangements(r) : Sorts(r, f)
  OBVIOUS
<1>2. \E f \in Rearrangements(r) : Sorts(r, f)
  <2>1. [i \in 1..2 |-> 3 - i] \in Rearrangements(r)
    <3>1. [i \in 1..2 |-> 3 - i] \in [1..2 -> 1..2]
      OBVIOUS
    <3>2. \A i \in 1..2 : 3 - i \in 1..2 /\ [k \in 1..2 |-> 3 - k][3 - i] = i
      OBVIOUS
    <3> QED
      BY <1>0, <3>1, <3>2 DEF Rearrangements
  <2>2. Sorts(r, [i \in 1..2 |-> 3 - i])
    BY <1>0 DEF Sorts
  <2> QED
    BY <2>1, <2>2
<1>3. p \in Rearrangements(r) /\ Sorts(r, p)
  BY <1>1, <1>2
<1>4. SortedQuery(r) = [i \in 1..2 |-> r[p[i]]]
  BY <1>0, <1>1 DEF SortedQuery, Sorts
<1>5. p[1] \in 1..2 /\ p[2] \in 1..2 /\ p[1] # p[2] /\ r[p[1]] <= r[p[2]]
  <2>1. p \in [1..2 -> 1..2] /\ \A i \in 1..2 : \E k \in 1..2 : p[k] = i
    BY <1>0, <1>3 DEF Rearrangements
  <2>2. r[p[1]] <= r[p[2]]
    BY <1>0, <1>3 DEF Sorts
  <2>3. \A k \in 1..2 : k = 1 \/ k = 2
    OBVIOUS
  <2> QED
    BY <2>1, <2>2, <2>3
<1>6. r[p[1]] = q[1] /\ r[p[2]] = q[2]
  BY <1>0, <1>5
<1>7. [i \in 1..2 |-> r[p[i]]] = q
  BY <1>0, <1>6
<1> QED
  BY <1>4, <1>7 DEF r
-----------------------------------------------------------------------------
\* What urlparse leaves of a path: the last segment without its parameters.
LEMMA ParamsGo ==
  ASSUME NEW path \in Seq(Segments)
  PROVE  /\ WithoutParams(path) \in Seq(Segments)
         /\ Len(WithoutParams(path)) = Len(path)
         /\ \A i \in 1..Len(path) : /\ WithoutParams(path)[i].name = path[i].name
                                    /\ i # Len(path) => WithoutParams(path)[i] = path[i]
         /\ path # <<>> => ~WithoutParams(path)[Len(path)].params
<1>1. CASE path = <<>>
  BY <1>1 DEF WithoutParams
<1>2. CASE path # <<>>
  <2>1. Len(path) \in 1..Len(path) /\ DOMAIN path = 1..Len(path) /\ \A i \in 1..Len(path) : path[i] \in Segments
    BY <1>2
  <2>2. \A s \in Segments : [s EXCEPT !.params = FALSE] \in Segments
                            /\ [s EXCEPT !.params = FALSE].name = s.name
                            /\ ~[s EXCEPT !.params = FALSE].params
    BY DEF Segments
  <2>3. PICK last \in Segments : /\ last = [path[Len(path)] EXCEPT !.params = FALSE]
                                 /\ last.name = path[Len(path)].name /\ ~last.params
    BY <2>1, <2>2
  <2>4. WithoutParams(path) = [path EXCEPT ![Len(path)] = last]
    BY <1>2, <2>3 DEF WithoutParams
  <2>5. [path EXCEPT ![Len(path)] = last] \in Seq(Segments)
    BY <2>1
  <2> QED
    BY <1>2, <2>1, <2>3, <2>4, <2>5
<1> QED
  BY <1>1, <1>2

\* Nothing is left to take off a path that ends in a segment without parameters.
LEMMA NoParamsStay ==
  ASSUME NEW path \in Seq(Segments), path # <<>> => ~path[Len(path)].params
  PROVE  WithoutParams(path) = path
<1>1. CASE path = <<>>
  BY <1>1 DEF WithoutParams
<1>2. CASE path # <<>>
  <2>1. Len(path) \in 1..Len(path) /\ path[Len(path)] \in Segments
    BY <1>2
  <2>2. [path[Len(path)] EXCEPT !.params = FALSE] = path[Len(path)]
    <3>1. path[Len(path)].params = FALSE
      BY <1>2, <2>1 DEF Segments
    <3> QED
      BY <2>1, <3>1 DEF Segments
  <2>3. [path EXCEPT ![Len(path)] = path[Len(path)]] = path
    BY <2>1
  <2> QED
    BY <1>2, <2>2, <2>3 DEF WithoutParams
<1> QED
  BY <1>1, <1>2

\* Stripping keeps a beginning of the path, or the path "/" as it is.
LEMMA StripKeeps ==
  ASSUME NEW path \in Seq(Segments)
  PROVE  \E n \in 0..Len(path) : /\ StripSlashes(path) = SubSeq(path, 1, n)
                                 /\ path # <<Slash>> => EndsAt(path, n)
<1>1. CASE path = <<Slash>>
  <2>1. StripSlashes(path) = path /\ path = SubSeq(path, 1, Len(path))
    BY <1>1 DEF StripSlashes
  <2>2. Len(path) \in 0..Len(path)
    OBVIOUS
  <2> QED
    BY <1>1, <2>1, <2>2
<1>2. CASE path # <<Slash>>
  <2>1. PICK n \in 0..Len(path) : EndsAt(path, n)
    BY EndExists
  <2> QED
    BY <1>2, <2>1, Stripped
<1> QED
  BY <1>1, <1>2

\* A path that ends in no slash is not stripped.
LEMMA NothingToStrip ==
  ASSUME NEW path \in Seq(Segments), path # <<>> => path[Len(path)] # Slash
  PROVE  StripSlashes(path) = path
<1>1. path # <<Slash>>
  OBVIOUS
<1>2. EndsAt(path, Len(path))
  BY DEF EndsAt
<1>3. StripSlashes(path) = SubSeq(path, 1, Len(path))
  BY <1>1, <1>2, Stripped
<1> QED
  BY <1>3
-----------------------------------------------------------------------------
\* What the spellings of a page have in common: its scheme, its port unless
\* that is the scheme's own, its query but for the order of two pairs, and its
\* path but for parameters and slashes at the end.
Addresses ==
  [scheme : {"http", "https"}, bare : BOOLEAN, upper : BOOLEAN, port : {NoPort, 80, 443, 8080},
   path : Seq(Segments), query : Seq(Nat), fragment : BOOLEAN]

SamePort == url.port = page.port \/ (url.port = NoPort /\ page.port = DefaultPort[page.scheme])
SameQuery == \/ url.query = page.query
             \/ Len(page.query) = 2 /\ url.query = <<page.query[2], page.query[1]>>
SamePath == /\ Len(page.path) <= Len(url.path)
            /\ \A i \in 1..Len(url.path) :
                 url.path[i].name = IF i <= Len(page.path) THEN page.path[i] ELSE Empty
Shape == /\ page \in Pages /\ url \in Addresses
         /\ url.scheme = page.scheme /\ (url.bare => url.scheme = "http")
         /\ SamePort /\ SameQuery /\ SamePath

\* What the assumptions say of a page.
LEMMA PageParts ==
  ASSUME page \in Pages
  PROVE  /\ page.scheme \in {"http", "https"} /\ page.port \in {80, 443, 8080}
         /\ page.path \in Seq(Names) /\ \A i \in 1..Len(page.path) : page.path[i] # Empty
         /\ page.query \in Seq(Nat) /\ Sorted(page.query)
<1>1. /\ page.scheme \in {"http", "https"} /\ page.port \in {80, 443, 8080}
      /\ page.path \in Paths /\ page.query \in Queries
  BY DEF Pages
<1>2. page.path \in Seq(Names)
  BY <1>1, PathsAssumption
<1>3. \A i \in 1..Len(page.path) : page.path[i] \in Names
  BY <1>2
<1> QED
  BY <1>1, <1>2, <1>3, NamesAssumption, QueriesAssumption DEF Sorted

\* The plain spelling of a page is one of a URL with that shape.
LEMMA SpelledParts ==
  ASSUME page \in Pages
  PROVE  /\ Spelled(page) \in Addresses /\ Spelled(page).path \in Seq(Segments)
         /\ Len(Spelled(page).path) = Len(page.path)
         /\ \A i \in 1..Len(page.path) : Spelled(page).path[i] = [name |-> page.path[i], params |-> FALSE]
<1> DEFINE path == [i \in DOMAIN page.path |-> [name |-> page.path[i], params |-> FALSE]]
<1>1. /\ DOMAIN page.path = 1..Len(page.path) /\ Len(page.path) \in Nat
      /\ \A i \in 1..Len(page.path) : page.path[i] \in Names
  BY PageParts
<1>2. \A i \in 1..Len(page.path) : [name |-> page.path[i], params |-> FALSE] \in Segments
  BY <1>1 DEF Segments
<1>3. /\ path \in Seq(Segments) /\ Len(path) = Len(page.path)
      /\ \A i \in 1..Len(page.path) : path[i] = [name |-> page.path[i], params |-> FALSE]
  BY <1>1, <1>2
<1>4. Spelled(page).path = path
  BY DEF Spelled
<1>5. Spelled(page) \in Addresses
  BY <1>3, PageParts DEF Spelled, Addresses
<1> QED
  BY <1>3, <1>4, <1>5

LEMMA ShapeInit == UrlInit => Shape
<1> SUFFICES ASSUME UrlInit PROVE Shape
  OBVIOUS
<1>1. page \in Pages /\ url = Spelled(page)
  BY DEF UrlInit
<1>2. /\ url.scheme = page.scheme /\ ~url.bare /\ url.port = page.port /\ url.query = page.query
  BY <1>1 DEF Spelled
<1>3. SamePath
  <2>1. /\ Len(url.path) = Len(page.path) /\ Len(page.path) \in Nat
        /\ \A i \in 1..Len(page.path) : url.path[i] = [name |-> page.path[i], params |-> FALSE]
    BY <1>1, SpelledParts, PageParts
  <2>2. ASSUME NEW i \in 1..Len(page.path) PROVE url.path[i].name = page.path[i]
    <3>1. url.path[i] = [name |-> page.path[i], params |-> FALSE]
      BY <2>1
    <3> QED
      BY <3>1
  <2> QED
    BY <2>1, <2>2 DEF SamePath
<1> QED
  BY <1>1, <1>2, <1>3, SpelledParts DEF Shape, SamePort, SameQuery

\* The parts of a URL.
LEMMA UrlParts ==
  ASSUME NEW u \in Addresses
  PROVE  /\ u.scheme \in {"http", "https"} /\ u.bare \in BOOLEAN /\ u.upper \in BOOLEAN
         /\ u.port \in {NoPort, 80, 443, 8080} /\ u.path \in Seq(Segments)
         /\ u.query \in Seq(Nat) /\ u.fragment \in BOOLEAN
BY DEF Addresses

\* v is u with another value x in the field f.
Edited(v, u, f, x) ==
  /\ v \in Addresses
  /\ v.scheme = u.scheme
  /\ v.bare = IF f = "bare" THEN x ELSE u.bare
  /\ v.upper = IF f = "upper" THEN x ELSE u.upper
  /\ v.port = IF f = "port" THEN x ELSE u.port
  /\ v.path = IF f = "path" THEN x ELSE u.path
  /\ v.query = IF f = "query" THEN x ELSE u.query
  /\ v.fragment = IF f = "fragment" THEN x ELSE u.fragment

\* A URL with one part replaced.
LEMMA ReplaceUpper ==
  ASSUME NEW u \in Addresses
  PROVE  \A v : v = [u EXCEPT !.upper = TRUE] => Edited(v, u, "upper", TRUE)
<1>1. [u EXCEPT !.upper = TRUE] \in Addresses
  <2>1. PICK x \in BOOLEAN : x = TRUE
    OBVIOUS
  <2>2. [u EXCEPT !.upper = x] \in Addresses
    BY SMTT(60) DEF Addresses
  <2> QED
    BY <2>1, <2>2
<1>2. Edited([u EXCEPT !.upper = TRUE], u, "upper", TRUE)
  BY <1>1 DEF Addresses, Edited
<1> QED
  BY <1>2

LEMMA ReplaceFragment ==
  ASSUME NEW u \in Addresses
  PROVE  \A v : v = [u EXCEPT !.fragment = TRUE] => Edited(v, u, "fragment", TRUE)
<1>1. [u EXCEPT !.fragment = TRUE] \in Addresses
  <2>1. PICK x \in BOOLEAN : x = TRUE
    OBVIOUS
  <2>2. [u EXCEPT !.fragment = x] \in Addresses
    BY SMTT(60) DEF Addresses
  <2> QED
    BY <2>1, <2>2
<1>2. Edited([u EXCEPT !.fragment = TRUE], u, "fragment", TRUE)
  BY <1>1 DEF Addresses, Edited
<1> QED
  BY <1>2

LEMMA ReplaceBare ==
  ASSUME NEW u \in Addresses
  PROVE  \A v : v = [u EXCEPT !.bare = TRUE] => Edited(v, u, "bare", TRUE)
<1>1. [u EXCEPT !.bare = TRUE] \in Addresses
  <2>1. PICK x \in BOOLEAN : x = TRUE
    OBVIOUS
  <2>2. [u EXCEPT !.bare = x] \in Addresses
    BY SMTT(60) DEF Addresses
  <2> QED
    BY <2>1, <2>2
<1>2. Edited([u EXCEPT !.bare = TRUE], u, "bare", TRUE)
  BY <1>1 DEF Addresses, Edited
<1> QED
  BY <1>2

LEMMA ReplacePort ==
  ASSUME NEW u \in Addresses, NEW x \in {NoPort, 80, 443, 8080}
  PROVE  \A v : v = [u EXCEPT !.port = x] => Edited(v, u, "port", x)
<1>1. [u EXCEPT !.port = x] \in Addresses
  BY SMTT(60) DEF Addresses
<1>2. Edited([u EXCEPT !.port = x], u, "port", x)
  BY <1>1 DEF Addresses, Edited
<1> QED
  BY <1>2

LEMMA ReplacePath ==
  ASSUME NEW u \in Addresses, NEW x \in Seq(Segments)
  PROVE  \A v : v = [u EXCEPT !.path = x] => Edited(v, u, "path", x)
<1>1. [u EXCEPT !.path = x] \in Addresses
  BY SMTT(60) DEF Addresses
<1>2. Edited([u EXCEPT !.path = x], u, "path", x)
  BY <1>1 DEF Addresses, Edited
<1> QED
  BY <1>2

LEMMA ReplaceQuery ==
  ASSUME NEW u \in Addresses, NEW x \in Seq(Nat)
  PROVE  \A v : v = [u EXCEPT !.query = x] => Edited(v, u, "query", x)
<1>1. [u EXCEPT !.query = x] \in Addresses
  BY SMTT(60) DEF Addresses
<1>2. Edited([u EXCEPT !.query = x], u, "query", x)
  BY <1>1 DEF Addresses, Edited
<1> QED
  BY <1>2

\* Each step replaces one part.
LEMMA ShapeStep ==
  ASSUME Shape, UrlNext
  PROVE  Shape'
<1>0. /\ page \in Pages /\ url \in Addresses
      /\ url.scheme = page.scheme /\ (url.bare => url.scheme = "http")
      /\ SamePort /\ SameQuery /\ SamePath /\ page' = page
  BY DEF Shape, UrlNext, Capitals, Fragment, DropPort, DropScheme, AddSlash, ReverseQuery, AddParams, Respell
<1>1. CASE Capitals
  <2>1. url' = [url EXCEPT !.upper = TRUE] /\ TRUE \in BOOLEAN
    BY <1>1 DEF Capitals, Respell
  <2>2. Edited(url', url, "upper", TRUE)
    BY <1>0, <2>1, ReplaceUpper
  <2> QED
    BY <1>0, <2>2 DEF Shape, Edited, SamePort, SameQuery, SamePath
<1>2. CASE Fragment
  <2>1. url' = [url EXCEPT !.fragment = TRUE] /\ TRUE \in BOOLEAN
    BY <1>2 DEF Fragment, Respell
  <2>2. Edited(url', url, "fragment", TRUE)
    BY <1>0, <2>1, ReplaceFragment
  <2> QED
    BY <1>0, <2>2 DEF Shape, Edited, SamePort, SameQuery, SamePath
<1>3. CASE DropPort
  <2>1. url.port = DefaultPort[url.scheme] /\ url' = [url EXCEPT !.port = NoPort]
    BY <1>3 DEF DropPort, Respell
  <2>2. DefaultPort[url.scheme] # NoPort
    <3>1. url.scheme \in {"http", "https"}
      BY <1>0, UrlParts
    <3> QED
      BY <3>1 DEF DefaultPort, NoPort
  <2>3. Edited(url', url, "port", NoPort)
    BY <1>0, <2>1, ReplacePort
  <2>4. SamePort'
    BY <1>0, <2>1, <2>2, <2>3 DEF SamePort, Edited
  <2> QED
    BY <1>0, <2>3, <2>4 DEF Shape, Edited, SameQuery, SamePath
<1>4. CASE DropScheme
  <2>1. url' = [url EXCEPT !.bare = TRUE] /\ TRUE \in BOOLEAN /\ url.scheme = "http"
    BY <1>4 DEF DropScheme, Respell
  <2>2. Edited(url', url, "bare", TRUE)
    BY <1>0, <2>1, ReplaceBare
  <2> QED
    BY <1>0, <2>1, <2>2 DEF Shape, Edited, SamePort, SameQuery, SamePath
<1>5. CASE AddSlash
  <2>1. url' = [url EXCEPT !.path = Append(url.path, Slash)]
    BY <1>5 DEF AddSlash, Respell
  <2>2. Slash \in Segments /\ Slash.name = Empty
    BY DEF Slash, Segments
  <2>3. url.path \in Seq(Segments) /\ page.path \in Seq(Names)
    BY <1>0, UrlParts, PageParts
  <2>4. /\ Append(url.path, Slash) \in Seq(Segments)
        /\ Len(Append(url.path, Slash)) = Len(url.path) + 1
        /\ \A i \in 1..Len(url.path) : Append(url.path, Slash)[i] = url.path[i]
        /\ Append(url.path, Slash)[Len(url.path) + 1] = Slash
    BY <2>2, <2>3
  <2>5. Edited(url', url, "path", Append(url.path, Slash))
    BY <1>0, <2>1, <2>4, ReplacePath
  <2>6. url'.path = Append(url.path, Slash)
    BY <2>5 DEF Edited
  <2>7. SamePath'
    BY <1>0, <2>2, <2>3, <2>4, <2>6 DEF SamePath
  <2> QED
    BY <1>0, <2>5, <2>7 DEF Shape, Edited, SamePort, SameQuery
<1>6. CASE ReverseQuery
  <2>1. /\ url' = [url EXCEPT !.query = <<url.query[2], url.query[1]>>]
        /\ Len(url.query) = 2
    BY <1>6 DEF ReverseQuery, Respell
  <2>2. url.query \in Seq(Nat) /\ page.query \in Seq(Nat)
    BY <1>0, UrlParts, PageParts
  <2>3. <<url.query[2], url.query[1]>> \in Seq(Nat)
    <3>1. url.query[1] \in Nat /\ url.query[2] \in Nat
      BY <2>1, <2>2
    <3> QED
      BY <3>1
  <2>4. Edited(url', url, "query", <<url.query[2], url.query[1]>>)
    BY <1>0, <2>1, <2>3, ReplaceQuery
  <2>5. url'.query = <<url.query[2], url.query[1]>>
    BY <2>4 DEF Edited
  <2>6. SameQuery'
    <3>1. CASE url.query = page.query
      BY <1>0, <2>1, <2>5, <3>1 DEF SameQuery
    <3>2. CASE Len(page.query) = 2 /\ url.query = <<page.query[2], page.query[1]>>
      <4>1. page.query = <<page.query[1], page.query[2]>>
        BY <2>2, <3>2
      <4>2. url.query[1] = page.query[2] /\ url.query[2] = page.query[1]
        BY <3>2
      <4> QED
        BY <1>0, <2>5, <4>1, <4>2 DEF SameQuery
    <3> QED
      BY <1>0, <3>1, <3>2 DEF SameQuery
  <2> QED
    BY <1>0, <2>4, <2>6 DEF Shape, Edited, SamePort, SamePath
<1>7. CASE AddParams
  <2>1. /\ url' = [url EXCEPT !.path[Len(url.path)].params = TRUE]
        /\ url.path # <<>>
    BY <1>7 DEF AddParams, Respell
  <2>2. url.path \in Seq(Segments)
    BY <1>0, UrlParts
  <2>3. Len(url.path) \in 1..Len(url.path) /\ url.path[Len(url.path)] \in Segments
    BY <2>1, <2>2
  <2>4. \A s \in Segments : [s EXCEPT !.params = TRUE] \in Segments
                            /\ [s EXCEPT !.params = TRUE].name = s.name
    BY DEF Segments
  <2>5. PICK last \in Segments : /\ last = [url.path[Len(url.path)] EXCEPT !.params = TRUE]
                                 /\ last.name = url.path[Len(url.path)].name
    BY <2>3, <2>4
  <2>6. PICK path : path = [url.path EXCEPT ![Len(url.path)] = last]
    OBVIOUS
  <2>7. /\ path \in Seq(Segments) /\ Len(path) = Len(url.path)
        /\ \A i \in 1..Len(url.path) : path[i].name = url.path[i].name
    BY <2>2, <2>3, <2>5, <2>6
  <2>8. url' = [url EXCEPT !.path = path]
    BY <2>1, <2>5, <2>6
  <2>9. Edited(url', url, "path", path)
    BY <1>0, <2>7, <2>8, ReplacePath
  <2>10. url'.path = path
    BY <2>9 DEF Edited
  <2>11. SamePath'
    BY <1>0, <2>7, <2>10 DEF SamePath
  <2> QED
    BY <1>0, <2>9, <2>11 DEF Shape, Edited, SamePort, SameQuery
<1> QED
  BY <1>1, <1>2, <1>3, <1>4, <1>5, <1>6, <1>7 DEF UrlNext

\* Every spelling that the steps reach has the shape.
THEOREM UrlShape == UrlSpec => []Shape
<1>1. Shape /\ [UrlNext]_urlVars => Shape'
  <2>1. Shape /\ UNCHANGED urlVars => Shape'
    BY DEF Shape, urlVars, SamePort, SameQuery, SamePath
  <2> QED
    BY <2>1, ShapeStep
<1> QED
  BY <1>1, ShapeInit, PTL DEF UrlSpec
-----------------------------------------------------------------------------
\* The key of a spelling has the scheme, the port and the query of the page.
KeyOf(path) ==
  [scheme |-> page.scheme, bare |-> FALSE, upper |-> FALSE,
   port |-> PortKept(page.scheme, page.port), path |-> path, query |-> page.query,
   fragment |-> FALSE]

LEMMA KeyParts ==
  ASSUME Shape
  PROVE  Normalize(url) = KeyOf(StripSlashes(WithoutParams(url.path)))
<1>1. /\ page \in Pages /\ url \in Addresses
      /\ url.scheme = page.scheme /\ (url.bare => url.scheme = "http")
      /\ SamePort /\ SameQuery
  BY DEF Shape
<1>2. (IF url.bare THEN "http" ELSE url.scheme) = page.scheme
  BY <1>1
<1>3. PortKept(page.scheme, url.port) = PortKept(page.scheme, page.port)
  BY <1>1 DEF SamePort, PortKept
<1>4. SortedQuery(url.query) = page.query
  <2>1. page.query \in Seq(Nat) /\ Sorted(page.query)
    BY <1>1, PageParts
  <2>2. CASE url.query = page.query
    BY <2>1, <2>2, SortedIsSorted
  <2>3. CASE Len(page.query) = 2 /\ url.query = <<page.query[2], page.query[1]>>
    BY <2>1, <2>3, ReversedIsSorted
  <2> QED
    BY <1>1, <2>2, <2>3 DEF SameQuery
<1> QED
  BY <1>2, <1>3, <1>4 DEF Normalize, KeyOf

\* So does what normalizing the page's plain spelling, or such a key, returns.
LEMMA PlainKey ==
  ASSUME page \in Pages
  PROVE  Normalize(Spelled(page)) = KeyOf(StripSlashes(WithoutParams(Spelled(page).path)))
<1>1. /\ Spelled(page).scheme = page.scheme /\ Spelled(page).bare = FALSE
      /\ Spelled(page).port = page.port /\ Spelled(page).query = page.query
  BY DEF Spelled
<1>2. SortedQuery(page.query) = page.query
  BY PageParts, SortedIsSorted
<1> QED
  BY <1>1, <1>2 DEF Normalize, KeyOf

LEMMA KeyAgain ==
  ASSUME page \in Pages, NEW path
  PROVE  Normalize(KeyOf(path)) = KeyOf(StripSlashes(WithoutParams(path)))
<1>1. /\ KeyOf(path).scheme = page.scheme /\ KeyOf(path).bare = FALSE /\ KeyOf(path).path = path
      /\ KeyOf(path).port = PortKept(page.scheme, page.port) /\ KeyOf(path).query = page.query
  BY DEF KeyOf
<1>2. SortedQuery(page.query) = page.query
  BY PageParts, SortedIsSorted
<1>3. PortKept(page.scheme, PortKept(page.scheme, page.port)) = PortKept(page.scheme, page.port)
  BY DEF PortKept
<1> QED
  BY <1>1, <1>2, <1>3 DEF Normalize, KeyOf

\* The path of the key has the type of paths.
LEMMA KeyPath ==
  ASSUME NEW path \in Seq(Segments)
  PROVE  StripSlashes(WithoutParams(path)) \in Seq(Segments)
<1>1. PICK w \in Seq(Segments) : w = WithoutParams(path)
  BY ParamsGo
<1>2. PICK n \in 0..Len(w) : StripSlashes(w) = SubSeq(w, 1, n)
  BY StripKeeps
<1>3. SubSeq(w, 1, n) \in Seq(Segments)
  OBVIOUS
<1> QED
  BY <1>1, <1>2, <1>3

\* No scheme's own port is NoPort.
LEMMA DefaultPorts ==
  ASSUME NEW s \in {"http", "https"}
  PROVE  DefaultPort[s] \in {80, 443} /\ DefaultPort[s] # NoPort
BY DEF DefaultPort, NoPort

\* Keys are typed: they never have the scheme's own port, a query out of order,
\* capitals or a fragment (normalize_url).
THEOREM UrlTyped == UrlSpec => []UrlTypeOK
<1>1. Shape => UrlTypeOK
  <2> SUFFICES ASSUME Shape PROVE UrlTypeOK
    OBVIOUS
  <2> DEFINE k == Normalize(url)
  <2>1. page \in Pages /\ url \in Addresses
    BY DEF Shape
  <2>2. /\ page.scheme \in {"http", "https"} /\ page.port \in {80, 443, 8080}
        /\ page.query \in Seq(Nat) /\ Sorted(page.query)
        /\ DefaultPort[page.scheme] \in {80, 443} /\ DefaultPort[page.scheme] # NoPort
    BY <2>1, PageParts, DefaultPorts
  <2>3. /\ k.scheme = page.scheme
        /\ k.port = IF page.port = DefaultPort[page.scheme] THEN NoPort ELSE page.port
        /\ k.query = page.query
        /\ k.path = StripSlashes(WithoutParams(url.path))
        /\ ~k.bare /\ ~k.upper /\ ~k.fragment
    BY KeyParts DEF KeyOf, PortKept
  <2> HIDE DEF k
  <2>4. /\ url.scheme \in {"http", "https"} /\ url.port \in {NoPort, 80, 443, 8080}
        /\ url.path \in Seq(Segments) /\ url.query \in Seq(Nat)
    BY <2>1, UrlParts
  <2>5. /\ k.scheme \in {"http", "https"} /\ k.port \in {NoPort, 80, 443, 8080}
        /\ k.path \in Seq(Segments) /\ k.query \in Seq(Nat)
        /\ k.port # DefaultPort[k.scheme]
    BY <2>2, <2>3, <2>4, KeyPath
  <2>6. \A i \in 1..Len(k.query) - 1 : k.query[i] <= k.query[i + 1]
    <3>1. \A i \in 1..Len(page.query) - 1 : i \in DOMAIN page.query /\ i + 1 \in DOMAIN page.query /\ i < i + 1
      BY <2>2
    <3> QED
      BY <2>2, <2>3, <3>1 DEF Sorted
  <2>7. SeedKey(url) = k
    BY DEF SeedKey, k
  <2> QED
    BY <2>1, <2>3, <2>4, <2>5, <2>6, <2>7 DEF UrlTypeOK
<1> QED
  BY <1>1, UrlShape, PTL

\* All spellings of a page without parameters, and other than "/" for the empty
\* path, have the key of its plain spelling, and the key names the page: what
\* the dedup of normalized URLs rests on.
THEOREM KeysNamePages == UrlSpec => []KeyNamesPage
<1>1. Shape => KeyNamesPage
  <2> SUFFICES ASSUME Shape, ~HasParams(url), url.path # <<Slash>>
               PROVE  SeedKey(url) = SeedKey(Spelled(page)) /\ PageNamed(SeedKey(url)) = page
    BY DEF KeyNamesPage
  <2> DEFINE plain == Spelled(page).path
             N == Len(page.path)
  <2>1. page \in Pages /\ url \in Addresses /\ SamePath
    BY DEF Shape
  <2>2. /\ page.path \in Seq(Names) /\ \A i \in 1..N : page.path[i] # Empty
        /\ N \in Nat /\ DOMAIN page.path = 1..N
    BY <2>1, PageParts
  <2>3. /\ plain \in Seq(Segments) /\ Len(plain) = N
        /\ \A i \in 1..N : plain[i] = [name |-> page.path[i], params |-> FALSE]
    BY <2>1, SpelledParts
  <2>4. url.path \in Seq(Segments) /\ N \in 0..Len(url.path)
    BY <2>1, <2>2, UrlParts DEF SamePath
  <2>5. \A i \in 1..Len(url.path) :
          /\ url.path[i] \in Segments /\ ~url.path[i].params
          /\ url.path[i].name = IF i <= N THEN page.path[i] ELSE Empty
    BY <2>1, <2>4 DEF HasParams, SamePath
  <2>6. WithoutParams(url.path) = url.path /\ WithoutParams(plain) = plain
    <3>1. url.path # <<>> => ~url.path[Len(url.path)].params
      <4>1. url.path # <<>> => Len(url.path) \in 1..Len(url.path)
        BY <2>4
      <4> QED
        BY <2>5, <4>1
    <3>2. plain # <<>> => ~plain[Len(plain)].params
      <4>1. plain # <<>> => N \in 1..N
        BY <2>3
      <4>2. ASSUME N \in 1..N PROVE ~plain[N].params
        <5>1. plain[N] = [name |-> page.path[N], params |-> FALSE]
          BY <2>3, <4>2
        <5> QED
          BY <5>1
      <4> QED
        BY <2>3, <4>1, <4>2
    <3> QED
      BY <2>3, <2>4, <3>1, <3>2, NoParamsStay
  <2>7. ASSUME NEW i \in 1..N PROVE plain[i] # Slash /\ url.path[i] = plain[i]
    <3>1. plain[i] = [name |-> page.path[i], params |-> FALSE] /\ page.path[i] # Empty
      BY <2>2, <2>3
    <3>2. i \in 1..Len(url.path) /\ i <= N
      BY <2>2, <2>4
    <3>3. url.path[i] \in Segments /\ url.path[i].params = FALSE /\ url.path[i].name = page.path[i]
      BY <2>5, <3>2 DEF Segments
    <3>4. url.path[i] = [name |-> page.path[i], params |-> FALSE]
      BY <3>3 DEF Segments
    <3> QED
      BY <3>1, <3>4 DEF Slash
  <2>8. StripSlashes(url.path) = SubSeq(url.path, 1, N)
    <3>1. ASSUME NEW i \in N + 1..Len(url.path) PROVE url.path[i] = Slash
      <4>1. i \in 1..Len(url.path) /\ ~(i <= N)
        BY <2>2, <2>4
      <4>2. url.path[i] \in Segments /\ url.path[i].params = FALSE /\ url.path[i].name = Empty
        BY <2>5, <4>1 DEF Segments
      <4> QED
        BY <4>2 DEF Segments, Slash
    <3>2. N > 0 => url.path[N] # Slash
      <4>1. N > 0 => N \in 1..N
        BY <2>2
      <4> QED
        BY <2>7, <4>1
    <3>3. EndsAt(url.path, N)
      BY <3>1, <3>2 DEF EndsAt
    <3> QED
      BY <2>4, <3>3, Stripped
  <2>9. SubSeq(url.path, 1, N) = plain
    BY <2>3, <2>4, <2>7
  <2>10. StripSlashes(plain) = plain
    <3>1. plain # <<>> => plain[Len(plain)] # Slash
      BY <2>3, <2>7
    <3> QED
      BY <2>3, <3>1, NothingToStrip
  <2>11. Normalize(url) = KeyOf(plain) /\ Normalize(Spelled(page)) = KeyOf(plain)
    BY <2>1, <2>6, <2>8, <2>9, <2>10, KeyParts, PlainKey
  <2>12. PageNamed(KeyOf(plain)) = page
    <3> DEFINE key == KeyOf(plain)
    <3>1. /\ key.scheme = page.scheme /\ key.port = PortKept(page.scheme, page.port)
          /\ key.path = plain /\ key.query = page.query
      BY DEF KeyOf
    <3> HIDE DEF key
    <3>2. (IF key.port = NoPort THEN DefaultPort[key.scheme] ELSE key.port) = page.port
      <4>1. page.port # NoPort
        BY <2>1, PageParts DEF NoPort
      <4> QED
        BY <3>1, <4>1 DEF PortKept
    <3>3. [i \in DOMAIN plain |-> plain[i].name] = page.path
      <4>1. ASSUME NEW i \in 1..N PROVE plain[i].name = page.path[i]
        <5>1. plain[i] = [name |-> page.path[i], params |-> FALSE]
          BY <2>3
        <5> QED
          BY <5>1
      <4>2. DOMAIN plain = 1..N
        BY <2>3
      <4>3. page.path = [i \in 1..N |-> page.path[i]]
        BY <2>2
      <4> QED
        BY <4>1, <4>2, <4>3
    <3>4. page = [scheme |-> page.scheme, port |-> page.port, path |-> page.path, query |-> page.query]
      BY <2>1 DEF Pages
    <3>5. PageNamed(key) = page
      BY <3>1, <3>2, <3>3, <3>4 DEF PageNamed
    <3> QED
      BY <3>5 DEF key
  <2> QED
    BY <2>11, <2>12 DEF SeedKey
<1> QED
  BY <1>1, UrlShape, PTL

\* On whatever page a URL with a scheme or a port is found as a link, it has the
\* key that it has as a seed, unless slashes hid parameters: urljoin leaves it
\* as it is, and the second normalize_url changes nothing.
THEOREM SeedsAgreeWithLinks == UrlSpec => []SeedsAndLinksAgree
<1>1. Shape => SeedsAndLinksAgree
  <2> SUFFICES ASSUME Shape, ~Relative(url), ~HiddenParams(url), NEW base \in Bases
               PROVE  SeedKey(url) = LinkKey(base, url)
    BY DEF SeedsAndLinksAgree
  <2>1. page \in Pages /\ url.path \in Seq(Segments)
    BY UrlParts DEF Shape
  <2>2. PICK w \in Seq(Segments) :
          /\ w = WithoutParams(url.path) /\ Len(w) = Len(url.path)
          /\ \A i \in 1..Len(w) : /\ w[i].name = url.path[i].name
                                  /\ i # Len(w) => w[i] = url.path[i]
          /\ w # <<>> => ~w[Len(w)].params
    <3>1. WithoutParams(url.path) # <<>> => url.path # <<>>
      BY <2>1, ParamsGo
    <3> QED
      BY <2>1, <3>1, ParamsGo
  <2>3. PICK s : s = StripSlashes(w)
    OBVIOUS
  <2>4. StripSlashes(WithoutParams(s)) = s
    <3>1. CASE w = <<Slash>>
      <4>1. s = <<Slash>>
        BY <2>3, <3>1 DEF StripSlashes
      <4>2. WithoutParams(w) = w
        BY <2>2, NoParamsStay
      <4> QED
        BY <2>3, <3>1, <4>1, <4>2
    <3>2. CASE w # <<Slash>>
      <4>1. PICK n \in 0..Len(w) : s = SubSeq(w, 1, n) /\ EndsAt(w, n)
        BY <2>3, <3>2, StripKeeps
      <4>2. /\ s \in Seq(Segments) /\ Len(s) = n /\ \A i \in 1..n : s[i] = w[i]
        BY <4>1
      <4>3. s # <<>> => n \in 1..Len(w) /\ s[Len(s)] = w[n] /\ w[n] # Slash
        BY <4>1, <4>2 DEF EndsAt
      <4>4. s # <<>> => ~s[Len(s)].params
        <5> SUFFICES ASSUME s # <<>> PROVE ~w[n].params
          BY <4>3
        <5>1. CASE n = Len(w)
          BY <2>2, <4>3, <5>1
        <5>2. CASE n # Len(w)
          <6>1. n \in 1..Len(url.path) - 1 /\ w[n] = url.path[n]
            BY <2>2, <4>3, <5>2
          <6>2. ASSUME NEW k \in n + 1..Len(url.path) PROVE url.path[k].name = Empty
            <7>1. k \in 1..Len(w) /\ k \in n + 1..Len(w)
              BY <2>2, <4>1
            <7>2. w[k] = Slash
              BY <4>1, <7>1 DEF EndsAt
            <7> QED
              BY <2>2, <7>1, <7>2 DEF Slash
          <6> QED
            BY <6>1, <6>2 DEF HiddenParams
        <5> QED
          BY <5>1, <5>2
      <4>5. WithoutParams(s) = s
        BY <4>2, <4>4, NoParamsStay
      <4>6. StripSlashes(s) = s
        BY <4>2, <4>3, NothingToStrip
      <4> QED
        BY <4>5, <4>6
    <3> QED
      BY <3>1, <3>2
  <2>5. Normalize(url) = KeyOf(s)
    BY <2>2, <2>3, KeyParts
  <2>6. Normalize(KeyOf(s)) = KeyOf(s)
    BY <2>1, <2>4, KeyAgain
  <2>7. Joined(base, url) = url
    BY DEF Joined
  <2> QED
    BY <2>5, <2>6, <2>7 DEF SeedKey, LinkKey
<1> QED
  BY <1>1, UrlShape, PTL
=============================================================================
