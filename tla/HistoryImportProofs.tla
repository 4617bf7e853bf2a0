------------------------- MODULE HistoryImportProofs -------------------------
(***************************************************************************)
(* For every length of time that fits the assumptions of HistoryImport: an *)
(* import never goes on with an expired token.  For every size of a page   *)
(* and every limit: it finds what is quiet while others move.              *)
(***************************************************************************)
EXTENDS HistoryImport, FiniteSetTheorems, SequenceTheorems, TLAPS

\* What an import has used of its time, its token has used of its life.
TokenAges ==
  /\ cached \in 0..Life /\ token \in 0..Life /\ elapsed \in 0..Timeout
  /\ stage \in {"listing", "queueing"} => token + elapsed > Margin

LEMMA InitTokenAges == Init => TokenAges
BY TimeAssumption DEF Init, TokenAges

\* Steps that neither take a token nor let time pass.
LEMMA QuietStep ==
  ASSUME TokenAges, UNCHANGED <<token, elapsed>>, cached' \in 0..Life,
         stage' \in {"listing", "queueing"} => stage \in {"listing", "queueing"}
  PROVE  TokenAges'
BY DEF TokenAges

LEMMA BeginImportStep == ASSUME TokenAges, NEW year \in BOOLEAN, BeginImport(year) PROVE TokenAges'
<1>1. /\ stage' = (IF cached > Margin THEN "listing" ELSE "token")
      /\ token' = (IF cached > Margin THEN cached ELSE 0)
      /\ elapsed' = 0 /\ cached' = cached
  BY DEF BeginImport, Usable, Reset
<1> QED BY <1>1, TimeAssumption DEF TokenAges

\* A token that was given during the import is no older than the import.
LEMMA TokenArrivesStep ==
  ASSUME TokenAges, NEW left \in 0..Life, TokenArrives(left)
  PROVE  TokenAges'
BY TimeAssumption DEF TokenAges, TokenArrives

\* Both grow older by the same tick, and the time of the import is over first.
LEMMA TickStep == ASSUME TokenAges, Tick PROVE TokenAges'
<1>1. /\ cached' = (IF cached = 0 THEN 0 ELSE cached - 1)
      /\ token' = (IF token = 0 THEN 0 ELSE token - 1)
  BY DEF Tick, Less
<1>2. cached' \in 0..Life /\ token' \in 0..Life
  BY <1>1, TimeAssumption DEF TokenAges
<1>3. CASE Working /\ elapsed = Timeout
  BY <1>2, <1>3 DEF Tick, TokenAges
<1>4. CASE ~(Working /\ elapsed = Timeout)
  <2>1. /\ stage' = stage
        /\ elapsed' = IF Working THEN elapsed + 1 ELSE elapsed
    BY <1>4 DEF Tick
  <2>2. elapsed' \in 0..Timeout
    BY <1>4, <2>1, TimeAssumption DEF TokenAges
  <2>3. ASSUME stage \in {"listing", "queueing"} PROVE token' + elapsed' > Margin
    <3>1. Working /\ elapsed < Timeout /\ elapsed' = elapsed + 1
      BY <1>4, <2>1, <2>3, TimeAssumption DEF Working, TokenAges
    <3>2. token > 0 /\ token' = token - 1
      BY <1>1, <2>3, <3>1, TimeAssumption DEF TokenAges
    <3> QED BY <2>3, <3>1, <3>2, TimeAssumption DEF TokenAges
  <2> QED BY <1>2, <2>1, <2>2, <2>3 DEF TokenAges
<1> QED BY <1>3, <1>4

LEMMA NextTokenAges == TokenAges /\ [Next]_vars => TokenAges'
<1> SUFFICES ASSUME TokenAges, [Next]_vars PROVE TokenAges'
  OBVIOUS
<1>1. ASSUME NEW p \in PRs, NEW merge \in BOOLEAN, Update(p) \/ Close(p, merge) \/ Reopen(p)
      PROVE  TokenAges'
  BY <1>1, QuietStep DEF Update, Close, Reopen, Changes, client, handler, TokenAges
<1>2. ASSUME NEW year \in BOOLEAN, BeginImport(year) PROVE TokenAges'
  BY <1>2, BeginImportStep
<1>3. ASSUME NEW left \in 0..Life, TokenArrives(left) PROVE TokenAges'
  BY <1>3, TokenArrivesStep
<1>4. ASSUME NEW left \in 0..Life, OtherTokenArrives(left) PROVE TokenAges'
  BY <1>4, QuietStep, TimeAssumption DEF OtherTokenArrives, client, handler, TokenAges
<1>5. CASE PageArrives
  <2>1. stage = "listing" /\ UNCHANGED <<token, elapsed, cached>>
    BY <1>5 DEF PageArrives
  <2> QED BY <2>1, QuietStep DEF TokenAges
<1>6. CASE RequestFails \/ Fails
  BY <1>6, QuietStep DEF RequestFails, Fails, client, TokenAges
<1>7. CASE EnqueueUnique \/ EndImport
  BY <1>7, QuietStep DEF EnqueueUnique, EndImport, client, TokenAges
<1>8. CASE Tick
  BY <1>8, TickStep
<1>9. CASE UNCHANGED vars
  BY <1>9, QuietStep DEF vars, client, handler, TokenAges
<1> QED BY <1>1, <1>2, <1>3, <1>4, <1>5, <1>6, <1>7, <1>8, <1>9 DEF Next

\* No page is asked for with an expired token: what is taken from the cache
\* outlives the handler of the import, whoever writes the cache, and when.
THEOREM TokenLasts == Spec => []TokenOutlivesImport
<1>1. Init => TokenAges
  BY InitTokenAges
<1>2. TokenAges /\ [Next]_vars => TokenAges'
  BY NextTokenAges
<1>3. TokenAges => TokenOutlivesImport
  BY TimeAssumption DEF TokenAges, TokenOutlivesImport
<1> QED BY <1>1, <1>2, <1>3, PTL DEF Spec

-----------------------------------------------------------------------------
(* The list *)

\* Of r, which is s without its element i.
IsWithout(r, s, i) ==
  /\ Len(r) = Len(s) - 1
  /\ \A j \in 1..Len(r) : r[j] = IF j < i THEN s[j] ELSE s[j + 1]
  /\ ToSet(r) = ToSet(s) \ {s[i]}

LEMMA TakenOut ==
  ASSUME NEW S, NEW s \in Seq(S), IsInjective(s), NEW i \in 1..Len(s), NEW r, r = RemoveAt(s, i)
  PROVE  r \in Seq(S) /\ IsInjective(r) /\ IsWithout(r, s, i)
<1>1. Len(s) \in Nat /\ DOMAIN s = 1..Len(s) /\ Len(s) >= 1
  OBVIOUS
<1> PICK a, b : a = SubSeq(s, 1, i - 1) /\ b = SubSeq(s, i + 1, Len(s))
  OBVIOUS
<1>2. /\ a \in Seq(S) /\ Len(a) = i - 1 /\ \A j \in 1..(i - 1) : a[j] = s[j]
  OBVIOUS
<1>3. /\ b \in Seq(S) /\ Len(b) = Len(s) - i /\ \A j \in 1..(Len(s) - i) : b[j] = s[j + i]
  OBVIOUS
<1>4. r = a \o b
  BY DEF RemoveAt
<1>5. r \in Seq(S) /\ Len(r) = Len(s) - 1 /\ DOMAIN r = 1..(Len(s) - 1)
  <2>1. a \o b \in Seq(S) /\ Len(a \o b) = Len(a) + Len(b)
    BY <1>2, <1>3, ConcatProperties
  <2>2. Len(r) = Len(s) - 1
    <3> PICK m, n : m = Len(s) /\ n = Len(r)
      OBVIOUS
    <3>1. n = Len(a) + Len(b) /\ Len(a) = i - 1 /\ Len(b) = m - i
      BY ONLY <1>2, <1>3, <1>4, <2>1, m = Len(s), n = Len(r)
    <3>2. m \in Nat /\ i \in 1..m
      BY <1>1
    <3>3. n = m - 1
      BY ONLY <3>1, <3>2
    <3> QED BY <3>3
  <2>3. r \in Seq(S)
    BY <1>4, <2>1
  <2> QED BY <2>2, <2>3
<1>6. ASSUME NEW j \in 1..Len(r) PROVE r[j] = IF j < i THEN s[j] ELSE s[j + 1]
  <2>1. j \in 1..(Len(a) + Len(b)) /\ j \in Int /\ i \in Int
    <3> PICK m, n : m = Len(s) /\ n = Len(a) + Len(b)
      OBVIOUS
    <3>1. n = m - 1 /\ m \in Nat /\ i \in 1..m /\ j \in 1..(m - 1)
      BY ONLY <1>1, <1>2, <1>3, <1>5, i \in 1..Len(s), j \in 1..Len(r), m = Len(s), n = Len(a) + Len(b)
    <3> QED BY ONLY <3>1, n = Len(a) + Len(b)
  <2>2. r[j] = IF j <= Len(a) THEN a[j] ELSE b[j - Len(a)]
    BY ONLY <1>2, <1>3, <1>4, <2>1, ConcatProperties
  <2>3. CASE j < i
    <3>1. j \in 1..(i - 1) /\ j <= Len(a)
      BY ONLY <1>2, <2>1, <2>3
    <3> QED BY <1>2, <2>2, <2>3, <3>1
  <2>4. CASE j >= i
    <3> PICK k : k = j - (i - 1)
      OBVIOUS
    <3>1. k \in 1..(Len(s) - i) /\ k + i = j + 1 /\ ~(j <= Len(a)) /\ j - Len(a) = k /\ ~(j < i)
      BY ONLY <1>1, <1>2, <1>5, <2>1, <2>4, k = j - (i - 1), j \in 1..Len(r)
    <3>2. r[j] = b[k]
      BY ONLY <2>2, <3>1
    <3>3. b[k] = s[k + i]
      BY ONLY <1>3, <3>1
    <3> QED BY ONLY <3>1, <3>2, <3>3
  <2> QED BY <2>1, <2>3, <2>4
<1>7. IsInjective(r)
  <2> SUFFICES ASSUME NEW x \in 1..Len(r), NEW y \in 1..Len(r), r[x] = r[y] PROVE x = y
    BY <1>5 DEF IsInjective
  <2> PICK u, v : u = (IF x < i THEN x ELSE x + 1) /\ v = (IF y < i THEN y ELSE y + 1)
    OBVIOUS
  <2>1. u \in 1..Len(s) /\ v \in 1..Len(s)
    BY ONLY <1>1, <1>5, u = (IF x < i THEN x ELSE x + 1), v = (IF y < i THEN y ELSE y + 1),
            x \in 1..Len(r), y \in 1..Len(r)
  <2>2. r[x] = s[u] /\ r[y] = s[v]
    BY <1>6
  <2>3. u = v
    BY <1>1, <2>1, <2>2 DEF IsInjective
  <2> QED BY <1>1, <2>3
<1>8. ToSet(r) = ToSet(s) \ {s[i]}
  <2>1. ASSUME NEW j \in 1..Len(r) PROVE r[j] \in ToSet(s) \ {s[i]}
    <3>1. PICK k : k = IF j < i THEN j ELSE j + 1
      OBVIOUS
    <3>2. k \in 1..Len(s) /\ k # i
      BY ONLY <1>1, <1>5, <3>1, j \in 1..Len(r), i \in 1..Len(s)
    <3>3. r[j] = s[k]
      BY <1>6, <3>1
    <3>4. s[k] # s[i]
      BY <1>1, <3>2 DEF IsInjective
    <3>5. s[k] \in ToSet(s)
      BY <1>1, <3>2 DEF ToSet
    <3> QED BY <3>3, <3>4, <3>5
  <2>2. ASSUME NEW k \in 1..Len(s), k # i PROVE \E j \in 1..Len(r) : r[j] = s[k]
    <3>1. CASE k < i
      <4>1. k \in 1..Len(r)
        BY ONLY <1>1, <1>5, <3>1, k \in 1..Len(s), i \in 1..Len(s)
      <4> QED BY <1>6, <3>1, <4>1
    <3>2. CASE k > i
      <4>1. PICK j : j = k - 1
        OBVIOUS
      <4>2. j \in 1..Len(r) /\ j >= i /\ j + 1 = k
        BY ONLY <1>1, <1>5, <3>2, <4>1, k \in 1..Len(s), i \in 1..Len(s)
      <4>3. r[j] = s[j + 1]
        BY ONLY <1>6, <4>2
      <4> QED BY ONLY <4>2, <4>3
    <3> QED BY <2>2, <3>1, <3>2
  <2>3. ToSet(r) = {r[j] : j \in 1..Len(r)} /\ ToSet(s) = {s[k] : k \in 1..Len(s)}
    BY ONLY <1>1, <1>5 DEF ToSet
  <2>4. ToSet(r) \subseteq ToSet(s) \ {s[i]}
    BY ONLY <2>1, <2>3
  <2>5. ASSUME NEW e \in ToSet(s) \ {s[i]} PROVE e \in ToSet(r)
    <3> PICK k \in 1..Len(s) : e = s[k]
      BY <2>3
    <3>1. \E j \in 1..Len(r) : r[j] = s[k]
      BY ONLY <2>2, e \in ToSet(s) \ {s[i]}, e = s[k], k \in 1..Len(s)
    <3> QED BY ONLY <2>3, <3>1, e = s[k]
  <2> QED BY ONLY <2>4, <2>5
<1> QED BY <1>5, <1>6, <1>7, <1>8 DEF IsWithout

\* Of r, which is s after an element x.
IsAfter(r, x, s) ==
  /\ Len(r) = Len(s) + 1
  /\ r[1] = x /\ \A j \in 2..Len(r) : r[j] = s[j - 1]
  /\ ToSet(r) = ToSet(s) \cup {x}

LEMMA PutInFront ==
  ASSUME NEW S, NEW s \in Seq(S), IsInjective(s), NEW x \in S, x \notin ToSet(s), NEW r, r = <<x>> \o s
  PROVE  r \in Seq(S) /\ IsInjective(r) /\ IsAfter(r, x, s)
<1>1. Len(s) \in Nat /\ DOMAIN s = 1..Len(s)
  OBVIOUS
<1>2. r \in Seq(S) /\ Len(r) = Len(s) + 1 /\ DOMAIN r = 1..(Len(s) + 1) /\ r[1] = x
  BY <1>1
<1>3. \A j \in 2..Len(r) : r[j] = s[j - 1] /\ j - 1 \in 1..Len(s)
  BY <1>1, <1>2
<1>4. \A k \in 1..Len(s) : k + 1 \in 2..Len(r) /\ r[k + 1] = s[k] /\ s[k] # x
  <2> SUFFICES ASSUME NEW k \in 1..Len(s) PROVE k + 1 \in 2..Len(r) /\ r[k + 1] = s[k] /\ s[k] # x
    OBVIOUS
  <2>1. k + 1 \in 2..Len(r) /\ (k + 1) - 1 = k
    BY ONLY <1>1, <1>2, k \in 1..Len(s)
  <2>2. r[k + 1] = s[k]
    BY ONLY <1>3, <2>1
  <2>3. s[k] \in ToSet(s)
    BY ONLY <1>1, k \in 1..Len(s) DEF ToSet
  <2> QED BY <2>1, <2>2, <2>3
<1>5. IsInjective(r)
  <2> SUFFICES ASSUME NEW a \in 1..Len(r), NEW b \in 1..Len(r), r[a] = r[b] PROVE a = b
    BY <1>2 DEF IsInjective
  <2>1. CASE a = 1 \/ b = 1
    BY <1>1, <1>2, <1>3, <1>4, <2>1
  <2>2. CASE a # 1 /\ b # 1
    <3>1. s[a - 1] = s[b - 1] /\ a - 1 \in 1..Len(s) /\ b - 1 \in 1..Len(s)
      BY <1>1, <1>2, <1>3, <2>2
    <3>2. a - 1 = b - 1
      BY ONLY <1>1, <3>1, IsInjective(s) DEF IsInjective
    <3> QED BY <1>1, <1>2, <3>2
  <2> QED BY <2>1, <2>2
<1>6. ToSet(r) = ToSet(s) \cup {x}
  <2>1. ASSUME NEW j \in 1..Len(r) PROVE r[j] \in ToSet(s) \cup {x}
    BY <1>1, <1>2, <1>3 DEF ToSet
  <2>2. ASSUME NEW k \in 1..Len(s) PROVE s[k] \in ToSet(r)
    <3>1. k + 1 \in 1..(Len(s) + 1) /\ r[k + 1] = s[k]
      BY <1>1, <1>4
    <3> QED BY <1>2, <3>1 DEF ToSet
  <2>3. x \in ToSet(r)
    BY <1>1, <1>2 DEF ToSet
  <2>4. ToSet(r) = {r[j] : j \in 1..Len(r)} /\ ToSet(s) = {s[k] : k \in 1..Len(s)}
    BY ONLY <1>1, <1>2 DEF ToSet
  <2>5. ToSet(r) \subseteq ToSet(s) \cup {x}
    BY ONLY <2>1, <2>4
  <2>6. ToSet(s) \subseteq ToSet(r)
    BY ONLY <2>2, <2>4
  <2> QED BY ONLY <2>3, <2>5, <2>6
<1> QED BY <1>2, <1>3, <1>5, <1>6 DEF IsAfter

LEMMA PlaceOfMember ==
  ASSUME TypeOK, NEW p \in ToSet(list)
  PROVE  Place(p) \in 1..Len(list) /\ list[Place(p)] = p
<1>1. \E k \in DOMAIN list : list[k] = p
  BY DEF ToSet
<1>2. DOMAIN list = 1..Len(list)
  BY DEF TypeOK
<1> QED BY <1>1, <1>2 DEF Place

\* What happens to a pull request pushes the others back, if anywhere.
LEMMA Pushed ==
  ASSUME TypeOK, NEW p \in PRs, Update(p) \/ \E merge \in BOOLEAN : Close(p, merge)
  PROVE  /\ list' \in Seq(PRs) /\ IsInjective(list') /\ ToSet(list') = ToSet(list) \cup {p}
         /\ \A j \in DOMAIN list' : list'[j] # p =>
              \E i \in DOMAIN list : i <= j /\ list[i] = list'[j]
<1>1. list \in Seq(PRs) /\ IsInjective(list) /\ DOMAIN list = 1..Len(list) /\ Len(list) \in Nat
  BY DEF TypeOK
<1>2. CASE Update(p)
  <2>1. p \in ToSet(list) /\ list' = <<p>> \o RemoveAt(list, Place(p))
    BY <1>2 DEF Update, Without
  <2> PICK i, r, q : i = Place(p) /\ r = RemoveAt(list, i) /\ q = list'
    OBVIOUS
  <2>2. i \in 1..Len(list) /\ list[i] = p
    BY <2>1, PlaceOfMember
  <2>3. /\ r \in Seq(PRs) /\ Len(r) = Len(list) - 1 /\ IsInjective(r)
        /\ \A j \in 1..Len(r) : r[j] = IF j < i THEN list[j] ELSE list[j + 1]
        /\ ToSet(r) = ToSet(list) \ {p}
    <3>1. r \in Seq(PRs) /\ IsInjective(r) /\ IsWithout(r, list, i)
      BY ONLY <1>1, <2>2, r = RemoveAt(list, i), TakenOut, Zenon
    <3> QED BY <2>2, <3>1 DEF IsWithout
  <2>4. q = <<p>> \o r /\ p \notin ToSet(r)
    BY <2>1, <2>3
  <2>5. /\ q \in Seq(PRs) /\ Len(q) = Len(r) + 1 /\ IsInjective(q)
        /\ q[1] = p /\ \A j \in 2..Len(q) : q[j] = r[j - 1]
        /\ ToSet(q) = ToSet(r) \cup {p}
    <3>1. q \in Seq(PRs) /\ IsInjective(q) /\ IsAfter(q, p, r)
      BY ONLY <2>3, <2>4, p \in PRs, PutInFront, Zenon
    <3> QED BY <3>1 DEF IsAfter
  <2>6. ASSUME NEW j \in DOMAIN q, q[j] # p PROVE \E k \in DOMAIN list : k <= j /\ list[k] = q[j]
    <3>1. j \in 1..Len(q) /\ j # 1 /\ Len(q) = Len(list) /\ j \in Int
      BY <1>1, <2>3, <2>5, <2>6
    <3> PICK m : m = j - 1
      OBVIOUS
    <3>2. m \in 1..Len(r) /\ m <= j /\ m + 1 = j /\ m \in 1..Len(list) /\ j \in 1..Len(list)
      BY ONLY <1>1, <2>3, <3>1, m = j - 1
    <3>3. q[j] = r[m]
      BY <2>5, <3>1
    <3>4. r[m] = list[m] \/ r[m] = list[j]
      BY <2>3, <3>2
    <3> QED BY ONLY <1>1, <3>2, <3>3, <3>4
  <2>7. ToSet(q) = ToSet(list) \cup {p}
    BY <2>1, <2>3, <2>5
  <2> QED BY <2>5, <2>6, <2>7
<1>3. CASE \E merge \in BOOLEAN : Close(p, merge)
  <2>1. p \notin ToSet(list) /\ list' = <<p>> \o list
    BY <1>3 DEF Close
  <2> PICK q : q = list'
    OBVIOUS
  <2>2. /\ q \in Seq(PRs) /\ Len(q) = Len(list) + 1 /\ IsInjective(q)
        /\ q[1] = p /\ \A j \in 2..Len(q) : q[j] = list[j - 1]
        /\ ToSet(q) = ToSet(list) \cup {p}
    <3>1. q = <<p>> \o list
      BY <2>1
    <3>2. q \in Seq(PRs) /\ IsInjective(q) /\ IsAfter(q, p, list)
      BY ONLY <1>1, <2>1, <3>1, p \in PRs, PutInFront, Zenon
    <3> QED BY <3>2 DEF IsAfter
  <2>3. ASSUME NEW j \in DOMAIN q, q[j] # p PROVE \E k \in DOMAIN list : k <= j /\ list[k] = q[j]
    <3>1. j \in 1..Len(q) /\ j # 1 /\ j \in Int
      BY <2>2, <2>3
    <3> PICK m : m = j - 1
      OBVIOUS
    <3>2. m \in 1..Len(list) /\ m <= j
      BY ONLY <1>1, <2>2, <3>1, m = j - 1
    <3>3. q[j] = list[m]
      BY <2>2, <3>1
    <3> QED BY ONLY <1>1, <3>2, <3>3
  <2> QED BY <2>2, <2>3
<1> QED BY <1>2, <1>3

\* The pages an import wants hold the limit.
LEMMA PagesHoldLimit == Pages \in Nat /\ Pages * PerPage >= Limit
<1>1. PerPage \in Nat \ {0} /\ Limit \in Nat \ {0}
  BY SizeAssumption
<1> PICK a : a = Limit + PerPage - 1
  OBVIOUS
<1>2. a \in Nat /\ a >= PerPage
  BY <1>1
<1>3. a \div PerPage \in Nat /\ PerPage * (a \div PerPage) + (a % PerPage) = a /\ a % PerPage \in 0..(PerPage - 1)
  BY <1>1, <1>2
<1>4. PerPage * (a \div PerPage) >= Limit
  BY <1>1, <1>3
<1> QED BY <1>1, <1>3, <1>4 DEF Pages

\* Of entries, which are what the list holds after its first from.
IsRead(entries, from) ==
  /\ Len(entries) \in 0..PerPage
  /\ \A k \in 1..Len(entries) :
       /\ from + k \in 1..Len(list) /\ entries[k].pr = list[from + k]
       /\ entries[k].wanted <=> (list[from + k] \notin merged /\ ~Excluded(list[from + k]))
  /\ Len(entries) < PerPage => Len(list) <= from + Len(entries)

Cut(from) == IF from + PerPage < Len(list) THEN from + PerPage ELSE Len(list)

EntriesOf(read) ==
  [k \in DOMAIN read |->
     [pr |-> read[k], wanted |-> read[k] \notin merged /\ ~(scoped /\ read[k] \in aged)]]

LEMMA Bounds ==
  ASSUME NEW from \in Nat, NEW size \in Nat, NEW per \in Nat, NEW upto,
         upto = IF from + per < size THEN from + per ELSE size
  PROVE  upto \in Nat /\ upto <= size /\ upto <= from + per /\ (upto < from + per => upto = size)
OBVIOUS

LEMMA ReadShape ==
  ASSUME TypeOK, NEW from \in Nat, NEW upto, upto = Cut(from),
         NEW read, read = SubSeq(list, from + 1, upto), NEW entries, entries = EntriesOf(read)
  PROVE  entries \in Seq([pr : PRs, wanted : BOOLEAN]) /\ IsRead(entries, from)
<1>1. PerPage \in Nat /\ from \in Nat
  BY SizeAssumption
<1>2. list \in Seq(PRs) /\ Len(list) \in Nat /\ DOMAIN list = 1..Len(list)
  BY DEF TypeOK
<1>3. upto \in Nat /\ upto <= Len(list) /\ upto <= from + PerPage /\ (upto < from + PerPage => upto = Len(list))
  <2>1. upto = IF from + PerPage < Len(list) THEN from + PerPage ELSE Len(list)
    BY Zenon DEF Cut
  <2> QED BY ONLY <1>1, <1>2, <2>1, Bounds
<1>4. \A i \in (from + 1)..upto : list[i] \in PRs
  <2> TAKE i \in (from + 1)..upto
  <2> PICK m : m = Len(list)
    OBVIOUS
  <2>1. m \in Nat /\ upto <= m
    BY <1>2, <1>3
  <2>2. i \in 1..m
    BY ONLY <1>1, <1>3, <2>1, i \in (from + 1)..upto
  <2> QED BY ONLY <1>2, <2>2, m = Len(list)
<1>5. /\ read \in Seq(PRs)
      /\ Len(read) = IF from + 1 <= upto THEN upto - (from + 1) + 1 ELSE 0
      /\ \A i \in 1..(upto - (from + 1) + 1) : read[i] = list[from + 1 + i - 1]
  <2>1. from + 1 \in Int /\ upto \in Int
    BY ONLY <1>1, <1>3
  <2> PICK a : a = from + 1
    OBVIOUS
  <2>2. a \in Int /\ upto \in Int /\ (\A i \in a..upto : list[i] \in PRs) /\ read = SubSeq(list, a, upto)
    BY <1>4, <2>1
  <2>3. /\ SubSeq(list, a, upto) \in Seq(PRs)
        /\ Len(SubSeq(list, a, upto)) = IF a <= upto THEN upto - a + 1 ELSE 0
        /\ \A i \in 1..(upto - a + 1) : SubSeq(list, a, upto)[i] = list[a + i - 1]
    BY ONLY <2>2, SubSeqProperties
  <2> QED BY ONLY <2>2, <2>3, a = from + 1, Zenon
<1>6. Len(read) \in Nat /\ DOMAIN read = 1..Len(read) /\ Len(read) <= PerPage
  BY ONLY <1>1, <1>3, <1>5
<1>7. ASSUME NEW k \in 1..Len(read) PROVE from + k \in 1..Len(list) /\ read[k] = list[from + k]
  <2>1. k \in 1..(upto - (from + 1) + 1) /\ from + 1 + k - 1 = from + k /\ from + k <= upto
    BY ONLY <1>1, <1>3, <1>5, <1>6, <1>7
  <2>2. read[k] = list[from + 1 + k - 1]
    BY ONLY <1>5, <2>1
  <2>3. k \in Nat /\ k >= 1
    BY ONLY <1>6, <1>7
  <2>4. from + k \in 1..Len(list)
    <3> PICK m : m = Len(list)
      OBVIOUS
    <3>1. m \in Nat /\ upto <= m
      BY <1>2, <1>3
    <3>2. from + k \in 1..m
      BY ONLY <1>1, <1>3, <2>1, <2>3, <3>1
    <3> QED BY <3>2
  <2> QED BY ONLY <2>1, <2>2, <2>4
<1>8. entries = [k \in DOMAIN read |->
         [pr |-> read[k], wanted |-> read[k] \notin merged /\ ~(scoped /\ read[k] \in aged)]]
  BY Zenon DEF EntriesOf
<1>9. ASSUME NEW k \in 1..Len(read) PROVE entries[k] \in [pr : PRs, wanted : BOOLEAN]
  <2>1. entries[k] = [pr |-> read[k], wanted |-> read[k] \notin merged /\ ~(scoped /\ read[k] \in aged)]
    BY ONLY <1>6, <1>8, k \in 1..Len(read)
  <2>2. read[k] \in PRs
    BY ONLY <1>2, <1>7, k \in 1..Len(read)
  <2> QED BY ONLY <2>1, <2>2
<1>10. DOMAIN entries = 1..Len(read) /\ entries \in Seq([pr : PRs, wanted : BOOLEAN]) /\ Len(entries) = Len(read)
  <2> DEFINE Row == [pr : PRs, wanted : BOOLEAN]
  <2> HIDE DEF Row
  <2>1. \A k \in 1..Len(read) : entries[k] \in Row
    BY <1>9 DEF Row
  <2>2. entries = [k \in 1..Len(read) |-> entries[k]]
    BY <1>6, <1>8
  <2>3. entries \in [1..Len(read) -> Row]
    BY <2>1, <2>2
  <2>4. entries \in Seq(Row) /\ Len(entries) = Len(read)
    BY ONLY <1>6, <2>3
  <2> QED BY <2>3, <2>4 DEF Row
<1>11. Len(entries) < PerPage => Len(list) <= from + Len(entries)
  <2> PICK m, n, e : m = Len(read) /\ n = Len(list) /\ e = Len(entries)
    OBVIOUS
  <2>1. /\ m = (IF from + 1 <= upto THEN upto - (from + 1) + 1 ELSE 0) /\ e = m /\ n \in Nat
        /\ upto \in Nat /\ upto <= n /\ (upto < from + PerPage => upto = n)
    BY <1>2, <1>3, <1>5, <1>10
  <2>2. e < PerPage => n <= from + e
    BY ONLY <1>1, <2>1
  <2> QED BY <2>2
<1>12. ASSUME NEW k \in 1..Len(entries)
       PROVE  /\ from + k \in 1..Len(list) /\ entries[k].pr = list[from + k]
              /\ entries[k].wanted <=> (list[from + k] \notin merged /\ ~Excluded(list[from + k]))
  <2>1. k \in 1..Len(read) /\ k \in DOMAIN read
    BY ONLY <1>6, <1>10, k \in 1..Len(entries)
  <2>2. entries[k] = [pr |-> read[k], wanted |-> read[k] \notin merged /\ ~(scoped /\ read[k] \in aged)]
    BY ONLY <1>8, <2>1
  <2>3. from + k \in 1..Len(list) /\ read[k] = list[from + k]
    BY ONLY <1>7, <2>1
  <2> PICK x : x = read[k]
    OBVIOUS
  <2>4. entries[k].pr = x /\ (entries[k].wanted <=> (x \notin merged /\ ~(scoped /\ x \in aged)))
    <3> PICK b \in BOOLEAN : b = (read[k] \notin merged /\ ~(scoped /\ read[k] \in aged))
      OBVIOUS
    <3>1. entries[k] = [pr |-> read[k], wanted |-> b]
      BY ONLY <2>2, b = (read[k] \notin merged /\ ~(scoped /\ read[k] \in aged)), Zenon
    <3>2. entries[k].pr = x /\ entries[k].wanted = b
      BY ONLY <3>1, x = read[k]
    <3>3. b <=> (x \notin merged /\ ~(scoped /\ x \in aged))
      BY ONLY x = read[k], b = (read[k] \notin merged /\ ~(scoped /\ read[k] \in aged))
    <3> QED BY ONLY <3>2, <3>3
  <2>5. x = list[from + k]
    BY ONLY <2>3, x = read[k]
  <2>6. entries[k].pr = list[from + k] /\ (entries[k].wanted <=> (list[from + k] \notin merged /\ ~Excluded(list[from + k])))
    BY ONLY <2>4, <2>5 DEF Excluded
  <2> QED BY ONLY <2>3, <2>6
<1> QED BY ONLY <1>1, <1>6, <1>10, <1>11, <1>12 DEF IsRead

\* A page holds what is at its places in the list.
LEMMA PageShape ==
  ASSUME TypeOK, NEW n, NEW from \in Nat, from = (n - 1) * PerPage, NEW entries, entries = Page(n)
  PROVE  entries \in Seq([pr : PRs, wanted : BOOLEAN]) /\ IsRead(entries, from)
<1>1. entries = EntriesOf(SubSeq(list, from + 1, Cut(from)))
  BY Zenon DEF Page, EntriesOf, Cut
<1> QED BY <1>1, ReadShape, Zenon

-----------------------------------------------------------------------------
(* The steps *)

Row == [pr : PRs, wanted : BOOLEAN]

\* Types, as the steps keep them together: the list, the numbers, what was read.
ListTypes ==
  /\ list \in Seq(PRs) /\ IsInjective(list)
  /\ merged \subseteq ToSet(list) /\ aged \subseteq ToSet(list)
  /\ quiet \subseteq PRs /\ shrunk \in BOOLEAN

ClockTypes ==
  /\ changes \in 0..MaxChanges /\ cached \in 0..Life /\ token \in 0..Life
  /\ elapsed \in 0..Timeout /\ attempt \in 0..(MaxAttempts - 1)
  /\ stage \in Stages /\ scoped \in BOOLEAN

ReadTypes ==
  /\ page \in Nat \ {0} /\ values \in Seq(Row)
  /\ todo \subseteq DOMAIN values /\ enqueued \subseteq PRs

LEMMA TypesTogether == TypeOK <=> ListTypes /\ ClockTypes /\ ReadTypes
BY DEF TypeOK, ListTypes, ClockTypes, ReadTypes, Row

LEMMA TypesTogetherNext == ListTypes' /\ ClockTypes' /\ ReadTypes' => TypeOK'
BY DEF TypeOK, ListTypes, ClockTypes, ReadTypes, Row

LEMMA ChangeStep ==
  ASSUME IInv, NEW p \in PRs, Update(p) \/ \E merge \in BOOLEAN : Close(p, merge)
  PROVE  IInv'
<1>1. /\ list' \in Seq(PRs) /\ IsInjective(list') /\ ToSet(list') = ToSet(list) \cup {p}
      /\ \A j \in DOMAIN list' : list'[j] # p =>
           \E i \in DOMAIN list : i <= j /\ list[i] = list'[j]
  BY Pushed DEF IInv
<1>2. /\ Working /\ changes < MaxChanges /\ changes' = changes + 1 /\ quiet' = quiet \ {p}
      /\ aged' = aged /\ shrunk' = shrunk /\ merged' \subseteq merged \cup {p}
      /\ UNCHANGED <<cached, elapsed, client, handler>>
  BY DEF Update, Close, Changes
<1>3. /\ UNCHANGED <<cached, elapsed, token, page, attempt, values>>
      /\ UNCHANGED <<stage, scoped, todo, enqueued>>
  BY <1>2 DEF client, handler
<1>4. ListTypes /\ ClockTypes /\ ReadTypes
  BY TypesTogether DEF IInv
<1>5. TypeOK'
  <2>1. ListTypes'
    BY <1>1, <1>2, <1>4 DEF ListTypes
  <2>2. ClockTypes'
    BY <1>2, <1>3, <1>4, TimeAssumption DEF ClockTypes
  <2>3. ReadTypes'
    BY <1>3, <1>4 DEF ReadTypes
  <2> QED BY <2>1, <2>2, <2>3, TypesTogetherNext
<1>6. PagesAreFull'
  <2>1. quiet' \subseteq ToSet(list') \ merged'
    BY <1>1, <1>2 DEF IInv, PagesAreFull
  <2> QED BY <1>3, <2>1 DEF IInv, PagesAreFull, Reading
<1>7. QuietAreRead'
  <2> SUFFICES ASSUME ~shrunk', Reading', NEW j \in DOMAIN list', list'[j] \in quiet', j <= Len(values')
               PROVE  \E k \in DOMAIN values' :
                        /\ k <= j /\ values'[k].pr = list'[j]
                        /\ values'[k].wanted <=> ~(scoped' /\ list'[j] \in aged')
    BY DEF QuietAreRead, Excluded
  <2>1. PICK i \in DOMAIN list : i <= j /\ list[i] = list'[j]
    BY <1>1, <1>2
  <2>2. i \in Nat /\ j \in Nat /\ Len(values) \in Nat /\ DOMAIN values \subseteq Nat
    BY <1>1, <1>4 DEF ListTypes, ReadTypes
  <2>3. ~shrunk /\ Reading /\ list[i] \in quiet /\ i <= Len(values)
    BY <1>2, <1>3, <2>1, <2>2 DEF Reading
  <2>4. PICK k \in DOMAIN values : k <= i /\ values[k].pr = list[i] /\ (values[k].wanted <=> ~(scoped /\ list[i] \in aged))
    BY <2>3 DEF IInv, QuietAreRead, Excluded
  <2>5. k <= j
    BY ONLY <2>1, <2>2, <2>4
  <2>6. scoped' = scoped /\ aged' = aged /\ values' = values
    BY <1>2, <1>3
  <2> QED BY <2>1, <2>4, <2>5, <2>6
<1>8. QuietAreLeft'
  <2> SUFFICES ASSUME ~shrunk', stage' \in {"queueing", "done"},
                      NEW j \in DOMAIN list', j <= Limit, list'[j] \in quiet'
               PROVE  \/ scoped' /\ list'[j] \in aged'
                      \/ list'[j] \in enqueued'
                      \/ stage' = "queueing" /\ \E k \in todo' : values'[k].pr = list'[j]
    BY DEF QuietAreLeft, Excluded
  <2>1. PICK i \in DOMAIN list : i <= j /\ list[i] = list'[j]
    BY <1>1, <1>2
  <2>2. i \in Nat /\ j \in Nat /\ Limit \in Nat
    BY <1>1, <1>4, SizeAssumption DEF ListTypes
  <2>3. ~shrunk /\ stage \in {"queueing", "done"} /\ list[i] \in quiet /\ i <= Limit
    BY <1>2, <1>3, <2>1, <2>2
  <2>4. \/ scoped /\ list[i] \in aged
        \/ list[i] \in enqueued
        \/ stage = "queueing" /\ \E k \in todo : values[k].pr = list[i]
    BY <2>3 DEF IInv, QuietAreLeft, Excluded
  <2> QED BY <1>2, <1>3, <2>1, <2>4
<1> QED BY <1>5, <1>6, <1>7, <1>8 DEF IInv

LEMMA ReopenStep == ASSUME IInv, NEW p \in PRs, Reopen(p) PROVE IInv'
<1>1. ListTypes /\ ClockTypes /\ ReadTypes /\ TypeOK
  BY TypesTogether DEF IInv
<1>2. /\ p \in ToSet(list) /\ p \notin merged /\ list' = RemoveAt(list, Place(p)) /\ changes < MaxChanges
      /\ changes' = changes + 1 /\ quiet' = quiet \ {p} /\ aged' = aged \ {p} /\ merged' = merged /\ shrunk' = TRUE
      /\ UNCHANGED <<cached, elapsed, token, page, attempt, values>>
      /\ UNCHANGED <<stage, scoped, todo, enqueued>>
  BY DEF Reopen, Changes, client, handler, Without
<1> PICK i, q : i = Place(p) /\ q = list'
  OBVIOUS
<1>3. i \in 1..Len(list) /\ list[i] = p /\ q = RemoveAt(list, i)
  BY <1>1, <1>2, PlaceOfMember
<1>4. q \in Seq(PRs) /\ IsInjective(q) /\ IsWithout(q, list, i)
  BY ONLY <1>1, <1>3, TakenOut, Zenon DEF ListTypes
<1>5. ToSet(q) = ToSet(list) \ {p}
  BY <1>3, <1>4 DEF IsWithout
<1>6. TypeOK'
  <2>1. ListTypes'
    BY <1>1, <1>2, <1>4, <1>5 DEF ListTypes
  <2>2. ClockTypes'
    BY <1>1, <1>2, TimeAssumption DEF ClockTypes
  <2>3. ReadTypes'
    BY <1>1, <1>2 DEF ReadTypes
  <2> QED BY <2>1, <2>2, <2>3, TypesTogetherNext
<1>7. PagesAreFull'
  <2>1. quiet' \subseteq ToSet(list') \ merged'
    BY <1>2, <1>5 DEF IInv, PagesAreFull
  <2> QED BY <1>2, <2>1 DEF IInv, PagesAreFull, Reading
<1> QED BY <1>2, <1>6, <1>7 DEF IInv, QuietAreRead, QuietAreLeft

\* Nothing is read, enqueued or moved.
LEMMA StillStep ==
  ASSUME IInv, ClockTypes', UNCHANGED <<github, scoped, page, values, todo, enqueued>>,
         \/ stage' = stage \/ stage' = "failed"
         \/ Reading /\ stage' = "listing"
         \/ stage = "queueing" /\ todo = {} /\ stage' = "done"
  PROVE  IInv'
<1>1. UNCHANGED <<list, merged, aged, quiet, shrunk>> /\ UNCHANGED <<scoped, page, values, todo, enqueued>>
  BY DEF github
<1>2. TypeOK'
  <2>1. ListTypes /\ ReadTypes
    BY TypesTogether DEF IInv
  <2>2. ListTypes'
    BY <1>1, <2>1 DEF ListTypes
  <2>3. ReadTypes'
    BY <1>1, <2>1 DEF ReadTypes
  <2> QED BY <2>2, <2>3, TypesTogetherNext
<1>3. (Reading' => Reading) /\ (stage' \in {"queueing", "done"} => stage \in {"queueing", "done"})
  BY DEF Reading
<1>4. PagesAreFull'
  BY <1>1, <1>3 DEF IInv, PagesAreFull
<1>5. QuietAreRead'
  BY <1>1, <1>3 DEF IInv, QuietAreRead, Excluded
<1>6. QuietAreLeft'
  BY <1>1, <1>3 DEF IInv, QuietAreLeft, Excluded
<1> QED BY <1>2, <1>4, <1>5, <1>6 DEF IInv

LEMMA BeginStep == ASSUME IInv, NEW year \in BOOLEAN, BeginImport(year) PROVE IInv'
<1>1. ListTypes /\ ClockTypes /\ ReadTypes
  BY TypesTogether DEF IInv
<1>2. /\ page' = 1 /\ attempt' = 0 /\ values' = <<>> /\ todo' = {} /\ elapsed' = 0 /\ enqueued' = {}
      /\ changes' = 0 /\ shrunk' = FALSE /\ quiet' = ToSet(list) \ merged /\ scoped' = year
      /\ stage' \in {"listing", "token"} /\ token' \in {cached, 0}
      /\ UNCHANGED <<list, merged, aged, cached>>
  BY DEF BeginImport, Reset
<1>3. TypeOK'
  <2>1. ToSet(list) \subseteq PRs
    BY <1>1 DEF ListTypes, ToSet
  <2>2. ListTypes'
    BY <1>1, <1>2, <2>1 DEF ListTypes
  <2>3. ClockTypes'
    BY <1>1, <1>2, TimeAssumption, SizeAssumption DEF ClockTypes, Stages
  <2>4. ReadTypes'
    BY <1>2 DEF ReadTypes
  <2> QED BY <2>2, <2>3, <2>4, TypesTogetherNext
<1>4. Len(values') = 0 /\ (page' - 1) * PerPage = 0
  BY <1>2, SizeAssumption
<1>5. PagesAreFull'
  BY <1>2, <1>4 DEF PagesAreFull
<1>6. QuietAreRead'
  <2>1. DOMAIN list' = 1..Len(list')
    BY <1>1, <1>2 DEF ListTypes
  <2> QED BY <1>4, <2>1 DEF QuietAreRead
<1>7. QuietAreLeft'
  BY <1>2 DEF QuietAreLeft
<1> QED BY <1>3, <1>5, <1>6, <1>7 DEF IInv

LEMMA PageCounts ==
  ASSUME NEW n \in Nat \ {0}
  PROVE  /\ (n - 1) * PerPage \in Nat
         /\ (n - 1) * PerPage + PerPage = n * PerPage
         /\ n >= Pages => n * PerPage >= Limit
<1>1. PerPage \in Nat /\ Limit \in Nat /\ Pages \in Nat /\ Pages * PerPage >= Limit
  BY SizeAssumption, PagesHoldLimit
<1> PICK m \in Nat : n = m + 1
  <2>1. n - 1 \in Nat /\ n = (n - 1) + 1
    OBVIOUS
  <2> QED BY <2>1
<1>2. n - 1 = m /\ m * PerPage \in Nat /\ (m + 1) * PerPage = m * PerPage + PerPage
  BY <1>1
<1>3. ASSUME n >= Pages PROVE n * PerPage >= Limit
  <2> PICK d \in Nat : n = Pages + d
    <3>1. n - Pages \in Nat /\ n = Pages + (n - Pages)
      BY <1>1, <1>3
    <3> QED BY <3>1
  <2>1. n * PerPage = Pages * PerPage + d * PerPage /\ d * PerPage \in Nat /\ Pages * PerPage \in Nat
    BY <1>1
  <2> QED BY <1>1, <2>1
<1> QED BY <1>2, <1>3

\* What is read of a page is what the list holds at its places, and the places
\* before it have been read.
LEMMA PageRead ==
  ASSUME IInv, PageArrives, NEW entries, entries = Page(page)
  PROVE  /\ stage = "listing" /\ values \in Seq(Row) /\ entries \in Seq(Row)
         /\ Len(values) = (page - 1) * PerPage /\ Len(values) \in Nat
         /\ IsRead(entries, Len(values)) /\ values' = values \o entries
         /\ values' \in Seq(Row) /\ Len(values') = Len(values) + Len(entries)
         /\ \A i \in 1..Len(values) : values'[i] = values[i]
         /\ \A i \in 1..Len(entries) : values'[Len(values) + i] = entries[i]
<1>1. stage = "listing" /\ values' = values \o entries
  BY DEF PageArrives
<1>2. ReadTypes /\ TypeOK
  BY TypesTogether DEF IInv
<1>3. Len(values) = (page - 1) * PerPage
  BY <1>1 DEF IInv, PagesAreFull, Reading
<1>4. Len(values) \in Nat /\ values \in Seq(Row)
  BY <1>2 DEF ReadTypes
<1> PICK from : from = Len(values)
  OBVIOUS
<1>5. entries \in Seq([pr : PRs, wanted : BOOLEAN]) /\ IsRead(entries, from)
  BY ONLY <1>2, <1>3, <1>4, from = Len(values), entries = Page(page), PageShape, Zenon
<1>6. entries \in Seq(Row)
  BY <1>5 DEF Row
<1>7. /\ values \o entries \in Seq(Row)
      /\ Len(values \o entries) = Len(values) + Len(entries)
      /\ \A i \in 1..(Len(values) + Len(entries)) : (values \o entries)[i] =
            IF i <= Len(values) THEN values[i] ELSE entries[i - Len(values)]
  BY <1>4, <1>6, ConcatProperties
<1> PICK v, m, n : v = values' /\ m = Len(values) /\ n = Len(entries)
  OBVIOUS
<1>8. m \in Nat /\ n \in Nat
  BY <1>4, <1>6
<1>9. \A i \in 1..(m + n) : v[i] = IF i <= m THEN values[i] ELSE entries[i - m]
  BY <1>1, <1>7
<1>10. \A i \in 1..m : v[i] = values[i]
  BY ONLY <1>8, <1>9
<1>11. ASSUME NEW i \in 1..n PROVE v[m + i] = entries[i]
  <2>1. m + i \in 1..(m + n) /\ ~(m + i <= m) /\ (m + i) - m = i
    BY ONLY <1>8, i \in 1..n
  <2> QED BY ONLY <1>9, <2>1
<1> QED BY <1>1, <1>3, <1>4, <1>5, <1>6, <1>7, <1>10, <1>11

LEMMA PageStep == ASSUME IInv, PageArrives PROVE IInv'
<1> PICK entries : entries = Page(page)
  OBVIOUS
<1> PICK v, m, n : v = values' /\ m = Len(values) /\ n = Len(entries)
  OBVIOUS
<1>1. ListTypes /\ ClockTypes /\ ReadTypes
  BY TypesTogether DEF IInv
<1>2. /\ stage = "listing" /\ m = (page - 1) * PerPage /\ m \in Nat
      /\ IsRead(entries, m) /\ v \in Seq(Row) /\ Len(v) = m + n /\ DOMAIN values = 1..m /\ DOMAIN v = 1..(m + n)
      /\ \A i \in 1..m : v[i] = values[i]
      /\ \A i \in 1..n : v[m + i] = entries[i]
  BY PageRead
<1>3. /\ n \in 0..PerPage /\ PerPage \in Nat
      /\ \A k \in 1..n :
           /\ m + k \in 1..Len(list) /\ entries[k].pr = list[m + k]
           /\ entries[k].wanted <=> (list[m + k] \notin merged /\ ~Excluded(list[m + k]))
      /\ n < PerPage => Len(list) <= m + n
  BY <1>2, SizeAssumption DEF IsRead
<1>4. /\ UNCHANGED <<list, merged, aged, quiet, shrunk>>
      /\ UNCHANGED <<cached, elapsed, changes, token, scoped, enqueued>>
      /\ attempt' = 0
  BY DEF PageArrives, github
<1>5. \/ /\ page >= Pages \/ n < PerPage
         /\ stage' = "queueing" /\ todo' = Wanted(v) /\ page' = page
      \/ /\ ~(page >= Pages \/ n < PerPage)
         /\ stage' = stage /\ todo' = todo /\ page' = page + 1
  BY DEF PageArrives
<1>6. TypeOK'
  <2>1. ListTypes'
    BY <1>1, <1>4 DEF ListTypes
  <2>2. ClockTypes'
    BY <1>1, <1>4, <1>5, SizeAssumption DEF ClockTypes, Stages
  <2>3. page' \in Nat \ {0}
    BY <1>1, <1>5 DEF ReadTypes
  <2>4. todo' \subseteq DOMAIN v
    <3>1. todo \subseteq 1..m
      BY <1>1, <1>2 DEF ReadTypes
    <3>2. 1..m \subseteq 1..(m + n)
      BY <1>2, <1>3
    <3> QED BY <1>2, <1>5, <3>1, <3>2 DEF Wanted
  <2>5. ReadTypes'
    BY <1>1, <1>2, <1>4, <2>3, <2>4 DEF ReadTypes
  <2> QED BY <2>1, <2>2, <2>5, TypesTogetherNext
<1>7. /\ page \in Nat \ {0}
      /\ m + PerPage = page * PerPage /\ (page >= Pages => page * PerPage >= Limit)
  BY <1>1, <1>2, PageCounts DEF ReadTypes
<1>8. PagesAreFull'
  <2>1. quiet' \subseteq ToSet(list') \ merged'
    BY <1>4 DEF IInv, PagesAreFull
  <2>2. ASSUME Reading' PROVE Len(v) = (page' - 1) * PerPage
    <3>1. page' = page + 1 /\ ~(n < PerPage)
      BY <1>5, <2>2 DEF Reading
    <3>2. n = PerPage
      BY <1>3, <3>1
    <3>3. page' - 1 = page
      BY <1>7, <3>1
    <3> QED BY <1>2, <1>7, <3>2, <3>3
  <2> QED BY <2>1, <2>2 DEF PagesAreFull
<1>9. ASSUME ~shrunk, NEW j \in DOMAIN list, list[j] \in quiet, j <= m + n
      PROVE  \E k \in 1..(m + n) : k <= j /\ v[k].pr = list[j] /\ (v[k].wanted <=> ~Excluded(list[j]))
  <2>1. j \in 1..Len(list) /\ j \in Nat /\ j >= 1
    BY <1>1 DEF ListTypes
  <2>2. CASE j <= m
    <3>1. PICK k \in 1..m : k <= j /\ values[k].pr = list[j] /\ (values[k].wanted <=> ~Excluded(list[j]))
      BY <1>2, <1>9, <2>2 DEF IInv, QuietAreRead, Reading
    <3>2. k \in 1..(m + n) /\ v[k] = values[k]
      BY <1>2, <1>3
    <3> QED BY <3>1, <3>2
  <2>3. CASE j > m
    <3> PICK k : k = j - m
      OBVIOUS
    <3>1. k \in 1..n /\ m + k = j /\ j \in 1..(m + n)
      BY ONLY <1>2, <1>3, <1>9, <2>1, <2>3, k = j - m
    <3>2. v[j] = entries[k]
      BY <1>2, <3>1
    <3>3. entries[k].pr = list[j] /\ (entries[k].wanted <=> (list[j] \notin merged /\ ~Excluded(list[j])))
      BY <1>3, <3>1
    <3>4. list[j] \notin merged
      BY <1>9 DEF IInv, PagesAreFull
    <3>5. j <= j
      BY <2>1
    <3> QED BY ONLY <3>1, <3>2, <3>3, <3>4, <3>5
  <2> QED BY <1>2, <2>1, <2>2, <2>3
<1>10. QuietAreRead'
  <2> SUFFICES ASSUME ~shrunk', NEW j \in DOMAIN list', list'[j] \in quiet', j <= Len(v)
               PROVE  \E k \in DOMAIN v :
                        k <= j /\ v[k].pr = list'[j] /\ (v[k].wanted <=> ~(scoped' /\ list'[j] \in aged'))
    BY DEF QuietAreRead, Excluded
  <2> QED BY <1>2, <1>4, <1>9 DEF Excluded
<1>11. QuietAreLeft'
  <2> SUFFICES ASSUME ~shrunk', stage' = "queueing", NEW j \in DOMAIN list, j <= Limit, list[j] \in quiet
               PROVE  Excluded(list[j]) \/ \E k \in todo' : v[k].pr = list[j]
    BY <1>2, <1>4, <1>5 DEF QuietAreLeft, Excluded
  <2>1. (page >= Pages \/ n < PerPage) /\ todo' = Wanted(v)
    BY <1>2, <1>5
  <2>2. j \in 1..Len(list) /\ Len(list) \in Nat /\ Limit \in Nat /\ page * PerPage \in Nat
    BY <1>1, <1>7, SizeAssumption DEF ListTypes
  <2>3. j <= m + n
    <3>1. CASE n < PerPage
      BY ONLY <1>2, <1>3, <2>2, <3>1
    <3>2. CASE ~(n < PerPage)
      <4>1. n = PerPage /\ page * PerPage >= Limit
        BY <1>3, <1>7, <2>1, <3>2
      <4> QED BY ONLY <1>2, <1>3, <1>7, <2>2, <4>1, j <= Limit
    <3> QED BY <3>1, <3>2
  <2>4. PICK k \in 1..(m + n) : k <= j /\ v[k].pr = list[j] /\ (v[k].wanted <=> ~Excluded(list[j]))
    BY <1>4, <1>9, <2>3
  <2>5. k <= Limit
    BY ONLY <1>2, <1>3, <2>2, <2>4, j <= Limit
  <2> QED BY <1>2, <2>1, <2>4, <2>5 DEF Wanted
<1> QED BY <1>6, <1>8, <1>10, <1>11 DEF IInv

LEMMA EnqueueStep == ASSUME IInv, EnqueueUnique PROVE IInv'
<1>1. ListTypes /\ ClockTypes /\ ReadTypes
  BY TypesTogether DEF IInv
<1>2. PICK k \in todo : /\ enqueued' = enqueued \cup {values[k].pr} /\ todo' = todo \ {k}
                        /\ stage = "queueing"
  BY DEF EnqueueUnique
<1>3. /\ UNCHANGED <<list, merged, aged, quiet, shrunk>>
      /\ UNCHANGED <<cached, elapsed, changes, token, page, attempt, values, stage, scoped>>
  BY DEF EnqueueUnique, github, client
<1>4. values[k].pr \in PRs
  <2>1. k \in DOMAIN values /\ values \in Seq(Row)
    BY <1>1, <1>2 DEF ReadTypes
  <2>2. values[k] \in Row
    BY ONLY <2>1
  <2> QED BY <2>2 DEF Row
<1>5. TypeOK'
  <2>1. ListTypes'
    BY <1>1, <1>3 DEF ListTypes
  <2>2. ClockTypes'
    BY <1>1, <1>3 DEF ClockTypes
  <2>3. ReadTypes'
    BY <1>1, <1>2, <1>3, <1>4 DEF ReadTypes
  <2> QED BY <2>1, <2>2, <2>3, TypesTogetherNext
<1>6. PagesAreFull'
  BY <1>2, <1>3 DEF IInv, PagesAreFull, Reading
<1>7. QuietAreRead'
  BY <1>2, <1>3 DEF QuietAreRead, Reading
<1>8. QuietAreLeft'
  <2> SUFFICES ASSUME ~shrunk, NEW j \in DOMAIN list, j <= Limit, list[j] \in quiet
               PROVE  \/ scoped /\ list[j] \in aged
                      \/ list[j] \in enqueued'
                      \/ \E l \in todo' : values[l].pr = list[j]
    BY <1>2, <1>3 DEF QuietAreLeft, Excluded
  <2>1. \/ scoped /\ list[j] \in aged
        \/ list[j] \in enqueued
        \/ \E l \in todo : values[l].pr = list[j]
    BY <1>2 DEF IInv, QuietAreLeft, Excluded
  <2> QED BY <1>2, <2>1
<1> QED BY <1>5, <1>6, <1>7, <1>8 DEF IInv

LEMMA StepIInv == IInv /\ [Next]_vars => IInv'
<1> SUFFICES ASSUME IInv, [Next]_vars PROVE IInv'
  OBVIOUS
<1>1. ClockTypes
  BY TypesTogether DEF IInv
<1>2. ASSUME NEW p \in PRs, Update(p) \/ \E merge \in BOOLEAN : Close(p, merge) PROVE IInv'
  BY <1>2, ChangeStep
<1>3. ASSUME NEW p \in PRs, Reopen(p) PROVE IInv'
  BY <1>3, ReopenStep
<1>4. ASSUME NEW year \in BOOLEAN, BeginImport(year) PROVE IInv'
  BY <1>4, BeginStep
<1>5. ASSUME NEW left \in 0..Life, TokenArrives(left) PROVE IInv'
  <2>1. /\ UNCHANGED <<github, scoped, page, values, todo, enqueued>>
        /\ Reading /\ stage' = "listing"
    BY <1>5 DEF TokenArrives, Reading
  <2>2. ClockTypes'
    BY <1>1, <1>5, TimeAssumption DEF TokenArrives, ClockTypes, Stages
  <2> QED BY <2>1, <2>2, StillStep
<1>6. ASSUME NEW left \in 0..Life, OtherTokenArrives(left) PROVE IInv'
  <2>1. UNCHANGED <<github, scoped, page, values, todo, enqueued>> /\ stage' = stage
    BY <1>6 DEF OtherTokenArrives, client, handler
  <2>2. ClockTypes'
    BY <1>1, <1>6, TimeAssumption DEF OtherTokenArrives, ClockTypes, client, handler
  <2> QED BY <2>1, <2>2, StillStep
<1>7. CASE PageArrives
  BY <1>7, PageStep
<1>8. CASE RequestFails
  <2>1. UNCHANGED <<github, scoped, page, values, todo, enqueued>> /\ (stage' = stage \/ stage' = "failed")
    BY <1>8 DEF RequestFails
  <2>2. attempt' \in 0..(MaxAttempts - 1)
    BY <1>1, <1>8, SizeAssumption DEF RequestFails, AttemptsLeft, ClockTypes
  <2>3. ClockTypes'
    BY <1>1, <1>8, <2>1, <2>2 DEF RequestFails, ClockTypes, Stages
  <2> QED BY <2>1, <2>3, StillStep
<1>9. CASE Fails
  <2>1. UNCHANGED <<github, scoped, page, values, todo, enqueued>> /\ stage' = "failed"
    BY <1>9 DEF Fails, client
  <2>2. ClockTypes'
    BY <1>1, <1>9 DEF Fails, client, ClockTypes, Stages
  <2> QED BY <2>1, <2>2, StillStep
<1>10. CASE EnqueueUnique
  BY <1>10, EnqueueStep
<1>11. CASE EndImport
  <2>1. /\ UNCHANGED <<github, scoped, page, values, todo, enqueued>>
        /\ stage = "queueing" /\ todo = {} /\ stage' = "done"
    BY <1>11 DEF EndImport, client
  <2>2. ClockTypes'
    BY <1>1, <1>11 DEF EndImport, client, ClockTypes, Stages
  <2> QED BY <2>1, <2>2, StillStep
<1>12. CASE Tick
  <2>1. UNCHANGED <<github, scoped, page, values, todo, enqueued>> /\ (stage' = stage \/ stage' = "failed")
    BY <1>12 DEF Tick
  <2>2. cached' \in 0..Life /\ token' \in 0..Life
    BY <1>1, <1>12, TimeAssumption DEF Tick, Less, ClockTypes
  <2>3. elapsed' \in 0..Timeout
    BY <1>1, <1>12, TimeAssumption DEF Tick, ClockTypes
  <2>4. ClockTypes'
    BY <1>1, <1>12, <2>1, <2>2, <2>3 DEF Tick, ClockTypes, Stages
  <2> QED BY <2>1, <2>4, StillStep
<1>13. CASE UNCHANGED vars
  <2>1. UNCHANGED <<github, scoped, page, values, todo, enqueued>> /\ stage' = stage
    BY <1>13 DEF vars, client, handler
  <2>2. ClockTypes'
    BY <1>1, <1>13 DEF vars, client, handler, ClockTypes
  <2> QED BY <2>1, <2>2, StillStep
<1> QED BY <1>2, <1>3, <1>4, <1>5, <1>6, <1>7, <1>8, <1>9, <1>10, <1>11, <1>12, <1>13 DEF Next

LEMMA InitImport == Init => IInv
<1> SUFFICES ASSUME Init PROVE IInv
  OBVIOUS
<1>1. list \in Seq(PRs) /\ IsInjective(list)
  <2>1. list \in BoundedSeq(PRs, Cardinality(PRs)) /\ IsInjective(list)
    BY DEF Init
  <2>2. PICK m \in 0..Cardinality(PRs) : list \in [1..m -> PRs]
    BY <2>1 DEF BoundedSeq, SeqOf
  <2>3. m \in Nat
    OBVIOUS
  <2> QED BY <2>1, <2>2, <2>3
<1>2. ListTypes
  BY <1>1 DEF Init, ListTypes
<1>3. ClockTypes
  <2>1. stage \in Stages /\ scoped \in BOOLEAN
    BY DEF Init, Stages
  <2>2. MaxAttempts \in Nat \ {0} /\ Timeout \in Nat /\ Life \in Nat /\ MaxChanges \in Nat
    BY TimeAssumption, SizeAssumption
  <2>3. changes = 0 /\ cached = 0 /\ token = 0 /\ elapsed = 0 /\ attempt = 0
    BY DEF Init
  <2>4. /\ changes \in 0..MaxChanges /\ elapsed \in 0..Timeout
        /\ cached \in 0..Life /\ token \in 0..Life
    BY <2>2, <2>3
  <2>5. attempt \in 0..(MaxAttempts - 1)
    BY <2>2, <2>3
  <2> QED BY <2>1, <2>4, <2>5 DEF ClockTypes
<1>4. ReadTypes
  BY DEF Init, ReadTypes
<1>5. PagesAreFull /\ QuietAreRead /\ QuietAreLeft
  BY DEF Init, PagesAreFull, QuietAreRead, QuietAreLeft, Reading
<1> QED BY <1>2, <1>3, <1>4, <1>5, TypesTogether DEF IInv

\* An import reads full pages of a list whose quiet elements are only pushed
\* back, and has read or enqueued those before its place in it.
THEOREM ImportInvariance == Spec => []IInv
BY InitImport, StepIInv, PTL DEF Spec

\* What stays closed without a merge, and is not updated, is found by an import
\* that gets to its end, however others are pushed from page to page meanwhile.
THEOREM QuietFound == Spec => []QuietAreQueued
<1>1. IInv => QuietAreQueued
  BY DEF IInv, QuietAreLeft, QuietAreQueued, Excluded
<1> QED BY <1>1, ImportInvariance, PTL
=============================================================================
