------------------------- MODULE InstallationsProofs -------------------------
(***************************************************************************)
(* For any number of installations, repositories, events, failures and     *)
(* logins: content is deleted only for installations that have lost the    *)
(* repository, and deliveries handled in order leave the rows GitHub's     *)
(* state calls for.                                                        *)
(***************************************************************************)
EXTENDS Installations, SequenceTheorems, TLAPS

-----------------------------------------------------------------------------
(* The inbox *)

LEMMA InboxShape ==
  ASSUME TypeOK
  PROVE  /\ Len(inbox) \in Nat /\ DOMAIN inbox = 1..Len(inbox)
         /\ \A k \in 1..Len(inbox) : inbox[k] \in Deliveries
BY LenProperties, ElementOfSeq DEF TypeOK

\* Deliveries are sent.
LEMMA SendShape ==
  ASSUME TypeOK, NEW ds \in Seq(Deliveries), inbox' = inbox \o ds
  PROVE  /\ inbox' \in Seq(Deliveries)
         /\ Len(ds) \in Nat /\ Len(inbox') = Len(inbox) + Len(ds)
         /\ DOMAIN inbox' = 1..(Len(inbox) + Len(ds))
         /\ \A k \in 1..Len(inbox) : inbox'[k] = inbox[k]
         /\ \A k \in 1..Len(ds) : inbox'[Len(inbox) + k] = ds[k]
<1>1. inbox \in Seq(Deliveries) /\ Len(inbox) \in Nat
  BY InboxShape DEF TypeOK
<1>2. /\ inbox \o ds \in Seq(Deliveries) /\ Len(inbox \o ds) = Len(inbox) + Len(ds)
      /\ \A k \in 1..(Len(inbox) + Len(ds)) :
           (inbox \o ds)[k] = IF k <= Len(inbox) THEN inbox[k] ELSE ds[k - Len(inbox)]
  BY <1>1, ConcatProperties
<1>3. Len(ds) \in Nat /\ DOMAIN (inbox \o ds) = 1..Len(inbox \o ds)
  BY <1>2, LenProperties
<1>4. \A k \in 1..Len(inbox) : inbox'[k] = inbox[k]
  BY <1>1, <1>2, <1>3
<1>5. ASSUME NEW k \in 1..Len(ds) PROVE inbox'[Len(inbox) + k] = ds[k]
  <2>1. /\ Len(inbox) + k \in 1..(Len(inbox) + Len(ds)) /\ ~(Len(inbox) + k <= Len(inbox))
        /\ (Len(inbox) + k) - Len(inbox) = k
    BY <1>1, <1>3
  <2> QED BY <1>2, <2>1
<1> QED BY <1>2, <1>3, <1>4, <1>5

\* A handler gets on with a delivery.
LEMMA ProgressShape ==
  ASSUME TypeOK, NEW k \in DOMAIN inbox, NEW d \in Deliveries, Progress(k, d)
  PROVE  /\ inbox' \in Seq(Deliveries) /\ Len(inbox') = Len(inbox)
         /\ DOMAIN inbox' = 1..Len(inbox) /\ inbox'[k] = d
         /\ \A x \in 1..Len(inbox) : x # k => inbox'[x] = inbox[x]
<1>1. k \in 1..Len(inbox) /\ inbox \in Seq(Deliveries)
  BY InboxShape DEF TypeOK
<1> QED BY <1>1, ExceptSeq, LenProperties DEF Progress

\* What is before position k of the inbox, and what is behind it.
LEMMA SkipShape ==
  ASSUME NEW n \in Nat, n = Len(inbox), NEW k \in 1..n,
         NEW s \in Seq(Deliveries), NEW t \in Seq(Deliveries),
         Len(s) = k - 1, \A x \in 1..(k - 1) : s[x] = inbox[x],
         Len(t) = n - k, \A x \in 1..(n - k) : t[x] = inbox[k + x]
  PROVE  /\ s \o t \in Seq(Deliveries) /\ Len(s \o t) = n - 1 /\ DOMAIN (s \o t) = 1..(n - 1)
         /\ \A x \in 1..(n - 1) : (s \o t)[x] = inbox[IF x < k THEN x ELSE x + 1]
<1>1. /\ s \o t \in Seq(Deliveries) /\ Len(s \o t) = (k - 1) + (n - k)
      /\ \A x \in 1..((k - 1) + (n - k)) : (s \o t)[x] = IF x <= k - 1 THEN s[x] ELSE t[x - (k - 1)]
  <2>1. /\ s \o t \in Seq(Deliveries) /\ Len(s \o t) = Len(s) + Len(t)
        /\ \A x \in 1..(Len(s) + Len(t)) : (s \o t)[x] = IF x <= Len(s) THEN s[x] ELSE t[x - Len(s)]
    BY ConcatProperties
  <2> QED BY <2>1
<1>2. (k - 1) + (n - k) = n - 1
  OBVIOUS
<1>3. DOMAIN (s \o t) = 1..(n - 1)
  BY <1>1, <1>2, LenProperties
<1>4. ASSUME NEW x \in 1..(n - 1) PROVE (s \o t)[x] = inbox[IF x < k THEN x ELSE x + 1]
  <2>1. CASE x < k
    BY <1>1, <1>2, <2>1
  <2>2. CASE ~(x < k)
    <3>1. ~(x <= k - 1) /\ x - (k - 1) \in 1..(n - k) /\ k + (x - (k - 1)) = x + 1
      BY <2>2
    <3>2. t[x - (k - 1)] = inbox[k + (x - (k - 1))]
      BY <3>1
    <3>3. (s \o t)[x] = t[x - (k - 1)]
      BY <1>1, <1>2, <3>1
    <3> QED BY <2>2, <3>1, <3>2, <3>3
  <2> QED BY <2>1, <2>2
<1> QED BY <1>1, <1>2, <1>3, <1>4

\* A delivery is complete.
LEMMA RemoveShape ==
  ASSUME TypeOK, NEW k \in DOMAIN inbox, inbox' = RemoveAt(inbox, k)
  PROVE  /\ inbox' \in Seq(Deliveries) /\ Len(inbox') = Len(inbox) - 1
         /\ DOMAIN inbox' = 1..(Len(inbox) - 1)
         /\ \A x \in 1..(Len(inbox) - 1) : inbox'[x] = inbox[IF x < k THEN x ELSE x + 1]
<1> PICK n \in Nat : n = Len(inbox)
  BY InboxShape
<1>1. k \in 1..n /\ \A x \in 1..n : inbox[x] \in Deliveries
  BY InboxShape
<1>2. PICK s \in Seq(Deliveries) :
        s = SubSeq(inbox, 1, k - 1) /\ Len(s) = k - 1 /\ \A x \in 1..(k - 1) : s[x] = inbox[x]
  <2>1. 1 \in Int /\ k - 1 \in Int /\ \A x \in 1..(k - 1) : inbox[x] \in Deliveries
    BY <1>1
  <2> DEFINE u == SubSeq(inbox, 1, k - 1)
  <2>2. /\ u \in Seq(Deliveries) /\ Len(u) = IF 1 <= k - 1 THEN (k - 1) - 1 + 1 ELSE 0
        /\ \A x \in 1..((k - 1) - 1 + 1) : u[x] = inbox[1 + x - 1]
    BY <2>1, SubSeqProperties
  <2>3. u = SubSeq(inbox, 1, k - 1)
    OBVIOUS
  <2> HIDE DEF u
  <2>4. Len(u) = k - 1 /\ \A x \in 1..(k - 1) : u[x] = inbox[x]
    BY <1>1, <2>2
  <2> QED BY <2>2, <2>3, <2>4
<1>3. PICK t \in Seq(Deliveries) :
        t = SubSeq(inbox, k + 1, n) /\ Len(t) = n - k /\ \A x \in 1..(n - k) : t[x] = inbox[k + x]
  <2>1. k + 1 \in Int /\ n \in Int /\ \A x \in (k + 1)..n : inbox[x] \in Deliveries
    BY <1>1
  <2> DEFINE u == SubSeq(inbox, k + 1, n)
  <2>2. /\ u \in Seq(Deliveries) /\ Len(u) = IF k + 1 <= n THEN n - (k + 1) + 1 ELSE 0
        /\ \A x \in 1..(n - (k + 1) + 1) : u[x] = inbox[(k + 1) + x - 1]
    BY <2>1, SubSeqProperties
  <2>3. u = SubSeq(inbox, k + 1, n)
    OBVIOUS
  <2> HIDE DEF u
  <2>4. \A x \in 1..(n - k) : (k + 1) + x - 1 = k + x /\ x \in 1..(n - (k + 1) + 1)
    BY <1>1
  <2>5. Len(u) = n - k /\ \A x \in 1..(n - k) : u[x] = inbox[k + x]
    BY <1>1, <2>2, <2>4
  <2> QED BY <2>2, <2>3, <2>5
<1>4. inbox' = s \o t
  BY <1>2, <1>3 DEF RemoveAt
<1>5. /\ s \o t \in Seq(Deliveries) /\ Len(s \o t) = n - 1 /\ DOMAIN (s \o t) = 1..(n - 1)
      /\ \A x \in 1..(n - 1) : (s \o t)[x] = inbox[IF x < k THEN x ELSE x + 1]
  <2>1. Len(s) = k - 1 /\ Len(t) = n - k /\ n \in Nat /\ n = Len(inbox) /\ k \in 1..n
    BY <1>1, <1>2, <1>3
  <2>2. \A x \in 1..(k - 1) : s[x] = inbox[x]
    BY <1>2
  <2>3. \A x \in 1..(n - k) : t[x] = inbox[k + x]
    BY <1>3
  <2>4. s \in Seq(Deliveries) /\ t \in Seq(Deliveries)
    OBVIOUS
  <2> QED BY ONLY <2>1, <2>2, <2>3, <2>4, SkipShape, ZenonT(60)
<1> QED BY <1>4, <1>5

LEMMA DeliveryShape ==
  ASSUME NEW kind \in Kinds, NEW i \in Installs, NEW added \in SUBSET Repos, NEW removed \in SUBSET Repos
  PROVE  Delivery(kind, i, added, removed) \in Deliveries
BY DEF Delivery, Deliveries

LEMMA OneSent ==
  ASSUME NEW S, NEW d \in S
  PROVE  <<d>> \in Seq(S) /\ Len(<<d>>) = 1 /\ <<d>>[1] = d
OBVIOUS

LEMMA TwoSent ==
  ASSUME NEW S, NEW d \in S, NEW e \in S
  PROVE  <<d, e>> \in Seq(S) /\ Len(<<d, e>>) = 2 /\ <<d, e>>[1] = d /\ <<d, e>>[2] = e
OBVIOUS

-----------------------------------------------------------------------------
(* What the writers know *)

LEMMA InitKnowledge == Init => TypeOK /\ KnowledgeInv
BY BoundAssumption, NoneAssumption
DEF Init, TypeOK, KnowledgeInv, NoInst, NoLogin

\* Something happens at GitHub, and the webhooks about it are sent.
LEMMA GitHubKnowledge ==
  ASSUME TypeOK, KnowledgeInv, NEW ds \in Seq(Deliveries), Happens(ds),
         app'   \in [Installs -> {"absent", "active", "suspended", "gone"}],
         owner' \in [Repos -> Installs \cup {None}],
         left'  \subseteq Repos \X Installs, left \subseteq left',
         \A r \in Repos, i \in Installs : owner[r] = i => Belonged(r, i)',
         \A i \in Installs : app[i] = "gone" => app'[i] = "gone",
         \A i \in Installs : app'[i] \in {"absent", "gone"} => \A r \in Repos : owner'[r] # i,
         \A k \in 1..Len(ds) : DeliveryIsSane(ds[k])'
  PROVE  TypeOK' /\ KnowledgeInv'
<1>1. /\ inbox' = inbox \o ds
      /\ UNCHANGED <<orderly, faults, inst, row, login, logins, late>>
      /\ events' = events + 1 /\ events < MaxEvents /\ events \in Nat
  BY BoundAssumption DEF Happens, tables, TypeOK
<1>2. /\ inbox' \in Seq(Deliveries) /\ Len(inbox) \in Nat /\ Len(ds) \in Nat
      /\ DOMAIN inbox = 1..Len(inbox) /\ DOMAIN inbox' = 1..(Len(inbox) + Len(ds))
      /\ \A k \in 1..Len(inbox) : inbox'[k] = inbox[k] /\ inbox[k] \in Deliveries
      /\ \A k \in 1..Len(ds) : inbox'[Len(inbox) + k] = ds[k]
  BY <1>1, SendShape, InboxShape
<1>3. TypeOK'
  BY <1>1, <1>2, BoundAssumption DEF TypeOK
<1>4. \A r \in Repos, i \in Installs : Belonged(r, i) => Belonged(r, i)'
  BY DEF Belonged
<1>5. ASSUME NEW k \in 1..Len(inbox) PROVE DeliveryIsSane(inbox[k])'
  <2> PICK d \in Deliveries : d = inbox[k]
    BY <1>2
  <2>1. DeliveryIsSane(d)
    BY <1>2 DEF KnowledgeInv
  <2>2. d.inst \in Installs /\ d.added \subseteq Repos /\ d.removed \subseteq Repos
    BY DEF Deliveries
  <2>3. DeliveryIsSane(d)'
    BY <1>4, <2>1, <2>2 DEF DeliveryIsSane
  <2>4. d = inbox'[k]
    BY <1>2
  <2> QED BY <2>3, <2>4
<1>6. ASSUME NEW k \in DOMAIN inbox' PROVE DeliveryIsSane(inbox[k])'
  <2>1. CASE k \in 1..Len(inbox)
    BY <1>5, <2>1
  <2>2. CASE k \notin 1..Len(inbox)
    <3>1. k - Len(inbox) \in 1..Len(ds) /\ k = Len(inbox) + (k - Len(inbox))
      BY <1>2, <2>2
    <3> PICK d : d = ds[k - Len(inbox)]
      OBVIOUS
    <3>2. inbox'[k] = d
      BY <1>2, <3>1
    <3>3. DeliveryIsSane(d)'
      BY <3>1
    <3> QED BY <3>2, <3>3
  <2> QED BY <2>1, <2>2
<1>7. (\A r \in Repos : row[r] # None => Belonged(r, row[r]))'
  BY <1>1, <1>4 DEF KnowledgeInv, TypeOK
<1>8. (\A r \in login.repos : Belonged(r, login.at))'
  <2>1. login.repos \subseteq Repos /\ (login.repos # {} => login.at \in Installs)
    BY DEF TypeOK, KnowledgeInv
  <2>2. \A r \in login.repos : Belonged(r, login.at)
    BY DEF KnowledgeInv
  <2>3. login' = login
    BY <1>1
  <2> QED BY <1>4, <2>1, <2>2, <2>3 DEF Belonged
<1> QED BY <1>1, <1>3, <1>6, <1>7, <1>8 DEF KnowledgeInv

\* An installation changes, and its repositories at most.
LEMMA OneDelivery ==
  ASSUME TypeOK, KnowledgeInv, NEW d \in Deliveries, Happens(<<d>>),
         app'   \in [Installs -> {"absent", "active", "suspended", "gone"}],
         owner' \in [Repos -> Installs \cup {None}],
         left'  \subseteq Repos \X Installs, left \subseteq left',
         \A r \in Repos, i \in Installs : owner[r] = i => Belonged(r, i)',
         \A i \in Installs : app[i] = "gone" => app'[i] = "gone",
         \A i \in Installs : app'[i] \in {"absent", "gone"} => \A r \in Repos : owner'[r] # i,
         DeliveryIsSane(d)'
  PROVE  TypeOK' /\ KnowledgeInv'
<1> PICK ds : ds = <<d>>
  OBVIOUS
<1>1. ds \in Seq(Deliveries) /\ Len(ds) = 1 /\ ds[1] = d
  BY OneSent
<1>2. ASSUME NEW k \in 1..Len(ds) PROVE DeliveryIsSane(ds[k])'
  <2>1. ds[k] = d
    BY <1>1
  <2> QED BY <2>1
<1>3. Happens(ds)
  OBVIOUS
<1> QED BY <1>1, <1>2, <1>3, GitHubKnowledge

LEMMA InstallationEvents ==
  ASSUME TypeOK, KnowledgeInv, NEW i \in Installs,
         \/ \E S \in SUBSET Repos : Install(i, S)
         \/ Suspend(i) \/ Unsuspend(i) \/ Uninstall(i)
  PROVE  TypeOK' /\ KnowledgeInv'
<1> USE DEF TypeOK
<1>1. ASSUME NEW S \in SUBSET Repos, Install(i, S) PROVE TypeOK' /\ KnowledgeInv'
  <2> PICK d : d = Delivery("created", i, S, {})
    OBVIOUS
  <2>1. d \in Deliveries
    BY DeliveryShape DEF Kinds
  <2>2. /\ app[i] = "absent" /\ app' = [app EXCEPT ![i] = "active"] /\ left' = left
        /\ owner' = [r \in Repos |-> IF r \in S THEN i ELSE owner[r]]
        /\ \A r \in S : owner[r] = None /\ Happens(<<d>>)
    BY <1>1 DEF Install
  <2>3. DeliveryIsSane(d)'
    BY <2>2 DEF DeliveryIsSane, Delivery, Belonged
  <2>4. Happens(<<d>>)
    BY <1>1 DEF Install
  <2>5. \A r \in Repos, j \in Installs : owner[r] = j => Belonged(r, j)'
    BY <2>2, NoneAssumption DEF Belonged
  <2>6. \A j \in Installs : app'[j] \in {"absent", "gone"} => \A r \in Repos : owner'[r] # j
    BY <2>2 DEF KnowledgeInv
  <2> QED BY <2>1, <2>2, <2>3, <2>4, <2>5, <2>6, OneDelivery
<1>2. CASE Suspend(i)
  <2> PICK d : d = Delivery("suspend", i, {}, {})
    OBVIOUS
  <2>1. d \in Deliveries
    BY DeliveryShape DEF Kinds
  <2>2. /\ app[i] = "active" /\ app' = [app EXCEPT ![i] = "suspended"]
        /\ UNCHANGED <<owner, left>> /\ Happens(<<d>>)
    BY <1>2 DEF Suspend
  <2>3. DeliveryIsSane(d)'
    BY DEF DeliveryIsSane, Delivery
  <2>4. \A j \in Installs : app'[j] \in {"absent", "gone"} => \A r \in Repos : owner'[r] # j
    BY <2>2 DEF KnowledgeInv
  <2> QED BY <2>1, <2>2, <2>3, <2>4, OneDelivery DEF Belonged
<1>3. CASE Unsuspend(i)
  <2> PICK d : d = Delivery("created", i, Of(i), {})
    OBVIOUS
  <2>1. d \in Deliveries
    BY DeliveryShape DEF Kinds, Of
  <2>2. /\ app[i] = "suspended" /\ app' = [app EXCEPT ![i] = "active"]
        /\ UNCHANGED <<owner, left>> /\ Happens(<<d>>)
    BY <1>3 DEF Unsuspend
  <2>3. DeliveryIsSane(d)'
    BY <2>2 DEF DeliveryIsSane, Delivery, Belonged, Of
  <2>4. \A j \in Installs : app'[j] \in {"absent", "gone"} => \A r \in Repos : owner'[r] # j
    BY <2>2 DEF KnowledgeInv
  <2> QED BY <2>1, <2>2, <2>3, <2>4, OneDelivery DEF Belonged
<1>4. CASE Uninstall(i)
  <2> PICK d : d = Delivery("deleted", i, {}, {})
    OBVIOUS
  <2>1. d \in Deliveries
    BY DeliveryShape DEF Kinds
  <2>2. /\ app' = [app EXCEPT ![i] = "gone"]
        /\ owner' = [r \in Repos |-> IF owner[r] = i THEN None ELSE owner[r]]
        /\ left' = left \cup (Of(i) \X {i}) /\ Happens(<<d>>)
    BY <1>4 DEF Uninstall
  <2>3. DeliveryIsSane(d)'
    BY <2>2 DEF DeliveryIsSane, Delivery
  <2>4. left' \subseteq Repos \X Installs
    BY <2>2 DEF Of
  <2>5. \A r \in Repos, j \in Installs : owner[r] = j => Belonged(r, j)'
    BY <2>2 DEF Belonged, Of
  <2>6. \A j \in Installs : app'[j] \in {"absent", "gone"} => \A r \in Repos : owner'[r] # j
    BY <2>2, NoneAssumption DEF KnowledgeInv
  <2> QED BY <2>1, <2>2, <2>3, <2>4, <2>5, <2>6, OneDelivery
<1> QED BY <1>1, <1>2, <1>3, <1>4

LEMMA RepositoryEvents ==
  ASSUME TypeOK, KnowledgeInv, NEW i \in Installs, NEW r \in Repos,
         AddRepository(i, r) \/ RemoveRepository(i, r) \/ PullRequest(r)
  PROVE  TypeOK' /\ KnowledgeInv'
<1> USE DEF TypeOK
<1>1. CASE AddRepository(i, r)
  <2> PICK d : d = Delivery("repositories", i, {r}, {})
    OBVIOUS
  <2>1. d \in Deliveries
    BY DeliveryShape DEF Kinds
  <2>2. /\ app[i] = "active" /\ owner[r] = None /\ owner' = [owner EXCEPT ![r] = i]
        /\ UNCHANGED <<app, left>> /\ Happens(<<d>>)
    BY <1>1 DEF AddRepository
  <2>3. DeliveryIsSane(d)'
    BY <2>2 DEF DeliveryIsSane, Delivery, Belonged
  <2>4. \A s \in Repos, j \in Installs : owner[s] = j => Belonged(s, j)'
    BY <2>2, NoneAssumption DEF Belonged
  <2>5. \A j \in Installs : app'[j] \in {"absent", "gone"} => \A s \in Repos : owner'[s] # j
    BY <2>2 DEF KnowledgeInv
  <2> QED BY <2>1, <2>2, <2>3, <2>4, <2>5, OneDelivery
<1>2. CASE RemoveRepository(i, r)
  <2> PICK d : d = Delivery("repositories", i, {}, {r})
    OBVIOUS
  <2>1. d \in Deliveries
    BY DeliveryShape DEF Kinds
  <2>2. /\ owner' = [owner EXCEPT ![r] = None] /\ left' = left \cup {<<r, i>>} /\ owner[r] = i
        /\ UNCHANGED app /\ Happens(<<d>>)
    BY <1>2 DEF RemoveRepository
  <2>3. DeliveryIsSane(d)'
    BY <2>2 DEF DeliveryIsSane, Delivery
  <2>4. \A s \in Repos, j \in Installs : owner[s] = j => Belonged(s, j)'
    BY <2>2 DEF Belonged
  <2>5. \A j \in Installs : app'[j] \in {"absent", "gone"} => \A s \in Repos : owner'[s] # j
    BY <2>2, NoneAssumption DEF KnowledgeInv
  <2>6. /\ app' = app /\ owner' \in [Repos -> Installs \cup {None}]
        /\ left' \subseteq Repos \X Installs /\ left \subseteq left'
    BY <2>2
  <2> HIDE DEF TypeOK
  <2>7. app' \in [Installs -> {"absent", "active", "suspended", "gone"}]
    BY <2>6 DEF TypeOK
  <2> QED BY <2>1, <2>2, <2>3, <2>4, <2>5, <2>6, <2>7, OneDelivery
<1>3. CASE PullRequest(r)
  <2> PICK d : d = Delivery("pull_request", owner[r], {r}, {})
    OBVIOUS
  <2>1. d \in Deliveries
    BY <1>3, DeliveryShape DEF Kinds, PullRequest
  <2>2. UNCHANGED <<app, owner, left>> /\ Happens(<<d>>)
    BY <1>3 DEF PullRequest
  <2>3. DeliveryIsSane(d)'
    BY <2>2 DEF DeliveryIsSane, Delivery, Belonged
  <2>4. \A j \in Installs : app'[j] \in {"absent", "gone"} => \A s \in Repos : owner'[s] # j
    BY <2>2 DEF KnowledgeInv
  <2> QED BY <2>1, <2>2, <2>3, <2>4, OneDelivery DEF Belonged
<1> QED BY <1>1, <1>2, <1>3

\* The two deliveries of a transfer, in either order.
LEMMA BothSent ==
  ASSUME NEW d \in Deliveries, NEW e \in Deliveries, Happens(<<d, e>>),
         DeliveryIsSane(d)', DeliveryIsSane(e)'
  PROVE  \E ds \in Seq(Deliveries) : Happens(ds) /\ \A k \in 1..Len(ds) : DeliveryIsSane(ds[k])'
<1> PICK ds : ds = <<d, e>>
  OBVIOUS
<1>1. ds \in Seq(Deliveries) /\ Len(ds) = 2 /\ ds[1] = d /\ ds[2] = e
  BY TwoSent
<1>2. Happens(ds)
  OBVIOUS
<1>3. DeliveryIsSane(ds[1])' /\ DeliveryIsSane(ds[2])'
  BY <1>1
<1>4. \A k \in 1..Len(ds) : k = 1 \/ k = 2
  BY <1>1
<1>5. \A k \in 1..Len(ds) : DeliveryIsSane(ds[k])'
  BY <1>3, <1>4
<1> QED BY <1>1, <1>2, <1>5

LEMMA TransferEvent ==
  ASSUME TypeOK, KnowledgeInv, NEW i \in Installs, NEW j \in Installs, NEW r \in Repos,
         Transfer(r, i, j)
  PROVE  TypeOK' /\ KnowledgeInv'
<1> PICK goes : goes = Delivery("repositories", i, {}, {r})
  OBVIOUS
<1> PICK comes : comes = Delivery("repositories", j, {r}, {})
  OBVIOUS
<1>1. goes \in Deliveries /\ comes \in Deliveries
  BY DeliveryShape DEF Kinds
<1>2. /\ owner[r] = i /\ app[i] = "active" /\ app[j] = "active" /\ i # j
      /\ owner' = [owner EXCEPT ![r] = j] /\ left' = left \cup {<<r, i>>} /\ UNCHANGED app
      /\ Happens(<<goes, comes>>) \/ Happens(<<comes, goes>>)
  BY DEF Transfer
<1>3. DeliveryIsSane(goes)' /\ DeliveryIsSane(comes)'
  BY <1>2 DEF DeliveryIsSane, Delivery, Belonged, TypeOK
<1>4. \A s \in Repos, h \in Installs : owner[s] = h => Belonged(s, h)'
  BY <1>2 DEF Belonged, TypeOK
<1>5. \A h \in Installs : app'[h] \in {"absent", "gone"} => \A s \in Repos : owner'[s] # h
  BY <1>2 DEF KnowledgeInv, TypeOK
<1>6. /\ app'   \in [Installs -> {"absent", "active", "suspended", "gone"}]
      /\ owner' \in [Repos -> Installs \cup {None}]
      /\ left'  \subseteq Repos \X Installs /\ left \subseteq left'
      /\ \A h \in Installs : app[h] = "gone" => app'[h] = "gone"
  BY <1>2 DEF TypeOK
<1>7. PICK ds \in Seq(Deliveries) : Happens(ds) /\ \A k \in 1..Len(ds) : DeliveryIsSane(ds[k])'
  BY <1>1, <1>2, <1>3, BothSent
<1> QED BY <1>4, <1>5, <1>6, <1>7, GitHubKnowledge

LEMMA GitHubStep == ASSUME TypeOK, KnowledgeInv, GitHub PROVE TypeOK' /\ KnowledgeInv'
<1>1. \A r \in Repos : PullRequest(r) => owner[r] \in Installs
  BY DEF PullRequest, TypeOK
<1> QED BY <1>1, InstallationEvents, RepositoryEvents, TransferEvent DEF GitHub

\* GitHub stands still, and somebody works on the tables.
LEMMA TableStep ==
  ASSUME TypeOK, KnowledgeInv, UNCHANGED github,
         inbox' \in Seq(Deliveries), \A k \in DOMAIN inbox' : DeliveryIsSane(inbox'[k]),
         faults' \in 0..MaxFaults,
         inst'   \in [Installs -> [there : BOOLEAN, suspended : BOOLEAN, deleted : BOOLEAN]],
         row'    \in [Repos -> Installs \cup {None}],
         login'  \in [stage : {"none", "listed", "read", "writing"}, todo : SUBSET Installs,
                      at : Installs \cup {None}, repos : SUBSET Repos],
         logins' \in 0..MaxLogins, late' \subseteq Repos \cup Installs,
         \A r \in Repos : row'[r] # None => Belonged(r, row'[r]),
         \A r \in login'.repos : Belonged(r, login'.at),
         IF login'.stage \in {"read", "writing"} THEN login'.at \in Installs ELSE login'.repos = {}
  PROVE  TypeOK' /\ KnowledgeInv'
<1>1. /\ app' = app /\ owner' = owner /\ left' = left /\ orderly' = orderly /\ events' = events
  BY DEF github
<1>2. TypeOK'
  BY <1>1 DEF TypeOK
<1>3. \A r, i : Belonged(r, i)' <=> Belonged(r, i)
  BY <1>1 DEF Belonged
<1>4. ASSUME NEW k \in DOMAIN inbox' PROVE DeliveryIsSane(inbox[k])'
  <2> PICK d : d = inbox'[k]
    OBVIOUS
  <2>1. DeliveryIsSane(d)
    OBVIOUS
  <2>2. DeliveryIsSane(d)'
    BY <1>1, <1>3, <2>1 DEF DeliveryIsSane
  <2> QED BY <2>2
<1>5. (\A r \in Repos : row[r] # None => Belonged(r, row[r]))'
  BY <1>3
<1>6. (\A r \in login.repos : Belonged(r, login.at))'
  BY <1>3
<1>7. (\A i \in Installs : app[i] \in {"absent", "gone"} => \A r \in Repos : owner[r] # i)'
  BY <1>1 DEF KnowledgeInv
<1> QED BY <1>2, <1>4, <1>5, <1>6, <1>7 DEF KnowledgeInv

\* A handler gets on with the delivery at k, which becomes d.
LEMMA HandlerStep ==
  ASSUME TypeOK, KnowledgeInv, UNCHANGED <<github, login, logins, late>>,
         NEW k \in DOMAIN inbox, NEW d \in Deliveries, Progress(k, d), DeliveryIsSane(d),
         faults' \in 0..MaxFaults,
         inst' \in [Installs -> [there : BOOLEAN, suspended : BOOLEAN, deleted : BOOLEAN]],
         row'  \in [Repos -> Installs \cup {None}],
         \A r \in Repos : row'[r] # None => Belonged(r, row'[r])
  PROVE  TypeOK' /\ KnowledgeInv'
<1>1. /\ inbox' \in Seq(Deliveries) /\ DOMAIN inbox' = DOMAIN inbox /\ inbox'[k] = d
      /\ \A x \in DOMAIN inbox : x # k => inbox'[x] = inbox[x]
  BY ProgressShape, InboxShape
<1>2. ASSUME NEW x \in DOMAIN inbox' PROVE DeliveryIsSane(inbox'[x])
  <2>1. CASE x = k
    BY <1>1, <2>1
  <2>2. CASE x # k
    <3> PICK e : e = inbox[x]
      OBVIOUS
    <3>1. DeliveryIsSane(e)
      BY <1>1 DEF KnowledgeInv
    <3>2. inbox'[x] = e
      BY <1>1, <2>2
    <3> QED BY <3>1, <3>2
  <2> QED BY <2>1, <2>2
<1>3. /\ login' = login /\ logins' = logins /\ late' = late /\ UNCHANGED github
  OBVIOUS
<1>4. /\ login' \in [stage : {"none", "listed", "read", "writing"}, todo : SUBSET Installs,
                      at : Installs \cup {None}, repos : SUBSET Repos]
      /\ logins' \in 0..MaxLogins /\ late' \subseteq Repos \cup Installs
  BY <1>3 DEF TypeOK
<1>5. /\ \A r \in login'.repos : Belonged(r, login'.at)
      /\ IF login'.stage \in {"read", "writing"} THEN login'.at \in Installs ELSE login'.repos = {}
  BY <1>3 DEF KnowledgeInv
<1> QED BY <1>1, <1>2, <1>3, <1>4, <1>5, TableStep

\* What an upsert writes is a row.
LEMMA UpsertShape ==
  ASSUME TypeOK, NEW i \in Installs, UpsertInstallation(i)
  PROVE  /\ inst' \in [Installs -> [there : BOOLEAN, suspended : BOOLEAN, deleted : BOOLEAN]]
         /\ inst'[i] = RowFor("active")
         /\ \A j \in Installs : j # i => inst'[j] = inst[j]
BY DEF TypeOK, UpsertInstallation, RowFor

LEMMA SuspendShape ==
  ASSUME TypeOK, NEW i \in Installs, SuspendInstallation(i)
  PROVE  /\ inst' \in [Installs -> [there : BOOLEAN, suspended : BOOLEAN, deleted : BOOLEAN]]
         /\ inst[i] = RowFor("active") => inst'[i] = RowFor("suspended")
         /\ \A j \in Installs : j # i => inst'[j] = inst[j]
<1>1. inst[i] \in [there : BOOLEAN, suspended : BOOLEAN, deleted : BOOLEAN]
  BY DEF TypeOK
<1>2. /\ inst' \in [Installs -> [there : BOOLEAN, suspended : BOOLEAN, deleted : BOOLEAN]]
      /\ \A j \in Installs : j # i => inst'[j] = inst[j]
  BY <1>1 DEF TypeOK, SuspendInstallation
<1>3. inst[i] = RowFor("active") => inst'[i] = RowFor("suspended")
  BY <1>1 DEF TypeOK, SuspendInstallation, RowFor
<1> QED BY <1>2, <1>3

LEMMA DeleteShape ==
  ASSUME TypeOK, NEW i \in Installs, DeleteInstallation(i)
  PROVE  /\ inst' \in [Installs -> [there : BOOLEAN, suspended : BOOLEAN, deleted : BOOLEAN]]
         /\ inst'[i] = RowFor("gone")
         /\ \A j \in Installs : j # i => inst'[j] = inst[j]
         /\ row' \in [Repos -> Installs \cup {None}]
         /\ \A r \in Repos : row'[r] = IF row[r] = i THEN None ELSE row[r]
BY DEF TypeOK, DeleteInstallation, RowFor

LEMMA HandleStep ==
  ASSUME TypeOK, KnowledgeInv, NEW k \in DOMAIN inbox, Handle(k) \/ HandleFails(k)
  PROVE  TypeOK' /\ KnowledgeInv'
<1> PICK f \in Deliveries : f = inbox[k]
  BY InboxShape
<1>1. DeliveryIsSane(f)
  BY DEF KnowledgeInv
<1>2. /\ f.kind \in Kinds /\ f.inst \in Installs /\ f.added \subseteq Repos /\ f.removed \subseteq Repos
      /\ f.stage \in {"new", "begun", "done"} /\ f.add \subseteq Repos /\ f.remove \subseteq Repos
  BY DEF Deliveries
<1>3. /\ inst \in [Installs -> [there : BOOLEAN, suspended : BOOLEAN, deleted : BOOLEAN]]
      /\ row \in [Repos -> Installs \cup {None}] /\ faults \in 0..MaxFaults
  BY DEF TypeOK
<1>4. \A r \in Repos : row[r] # None => Belonged(r, row[r])
  BY DEF KnowledgeInv
<1>5. CASE HandleUpsert(k) /\ UNCHANGED <<github, faults, login, logins, late>>
  <2> PICK d : d = [f EXCEPT !.stage = "begun"]
    OBVIOUS
  <2>1. d \in Deliveries
    BY DEF Deliveries
  <2>2. /\ f.kind \in {"created", "suspend", "repositories"}
        /\ UpsertInstallation(f.inst) /\ Progress(k, d) /\ row' = row
    BY <1>5 DEF HandleUpsert
  <2>3. DeliveryIsSane(d)
    BY <1>1, <2>2 DEF DeliveryIsSane, Deliveries
  <2>4. inst' \in [Installs -> [there : BOOLEAN, suspended : BOOLEAN, deleted : BOOLEAN]]
    BY <1>2, <2>2, UpsertShape
  <2> QED BY <1>3, <1>4, <1>5, <2>1, <2>2, <2>3, <2>4, HandlerStep
<1>6. CASE HandleSuspend(k) /\ UNCHANGED <<github, faults, login, logins, late>>
  <2> PICK d : d = [f EXCEPT !.stage = "done"]
    OBVIOUS
  <2>1. d \in Deliveries
    BY DEF Deliveries
  <2>2. f.kind = "suspend" /\ SuspendInstallation(f.inst) /\ Progress(k, d) /\ row' = row
    BY <1>6 DEF HandleSuspend
  <2>3. DeliveryIsSane(d)
    BY <1>1, <2>2 DEF DeliveryIsSane, Deliveries
  <2>4. inst' \in [Installs -> [there : BOOLEAN, suspended : BOOLEAN, deleted : BOOLEAN]]
    BY <1>2, <2>2, SuspendShape
  <2> QED BY <1>3, <1>4, <1>6, <2>1, <2>2, <2>3, <2>4, HandlerStep
<1>7. CASE HandleDeleted(k) /\ UNCHANGED <<github, faults, login, logins, late>>
  <2> PICK d : d = [f EXCEPT !.stage = "done"]
    OBVIOUS
  <2>1. d \in Deliveries
    BY DEF Deliveries
  <2>2. f.kind = "deleted" /\ DeleteInstallation(f.inst) /\ Progress(k, d)
    BY <1>7 DEF HandleDeleted
  <2>3. DeliveryIsSane(d)
    BY <1>1, <2>2 DEF DeliveryIsSane, Deliveries
  <2>4. /\ inst' \in [Installs -> [there : BOOLEAN, suspended : BOOLEAN, deleted : BOOLEAN]]
        /\ row' \in [Repos -> Installs \cup {None}]
        /\ \A r \in Repos : row'[r] # None => row'[r] = row[r]
    BY <1>2, <2>2, DeleteShape
  <2>5. \A r \in Repos : row'[r] # None => Belonged(r, row'[r])
    BY <1>4, <2>4
  <2> QED BY <1>3, <1>7, <2>1, <2>2, <2>3, <2>4, <2>5, HandlerStep
<1>8. ASSUME NEW r \in Repos, HandleAdded(k, r), UNCHANGED <<github, faults, login, logins, late>>
      PROVE  TypeOK' /\ KnowledgeInv'
  <2> PICK d : d = [f EXCEPT !.stage = "begun", !.add = @ \ {r}]
    OBVIOUS
  <2>1. d \in Deliveries
    BY DEF Deliveries
  <2>2. /\ r \in f.add
        /\ f.stage = "begun" \/ f.kind = "pull_request"
        /\ row' = [row EXCEPT ![r] = f.inst] /\ Progress(k, d) /\ inst' = inst
    BY <1>8 DEF HandleAdded, EnsureRepository
  <2>3. DeliveryIsSane(d)
    BY <1>1, <2>2 DEF DeliveryIsSane, Deliveries
  <2>4. row' \in [Repos -> Installs \cup {None}]
    BY <1>2, <1>3, <2>2
  <2>5. Belonged(r, f.inst)
    BY <1>1, <2>2 DEF DeliveryIsSane
  <2>6. \A s \in Repos : row'[s] # None => Belonged(s, row'[s])
    BY <1>3, <1>4, <2>2, <2>5
  <2> QED BY <1>3, <1>8, <2>1, <2>2, <2>3, <2>4, <2>6, HandlerStep
<1>9. ASSUME NEW r \in Repos, HandleRemoved(k, r), UNCHANGED <<github, faults, login, logins, late>>
      PROVE  TypeOK' /\ KnowledgeInv'
  <2> PICK d : d = [f EXCEPT !.remove = @ \ {r}]
    OBVIOUS
  <2>1. d \in Deliveries
    BY DEF Deliveries
  <2>2. /\ row' = [row EXCEPT ![r] = IF @ = f.inst THEN None ELSE @]
        /\ Progress(k, d) /\ inst' = inst
    BY <1>9 DEF HandleRemoved, DeleteRepositoryByGitHubID
  <2>3. DeliveryIsSane(d)
    BY <1>1, <2>2 DEF DeliveryIsSane, Deliveries
  <2>4. row' \in [Repos -> Installs \cup {None}]
    BY <1>2, <1>3, <2>2
  <2>5. \A s \in Repos : row'[s] # None => Belonged(s, row'[s])
    BY <1>3, <1>4, <2>2
  <2> QED BY <1>3, <1>9, <2>1, <2>2, <2>3, <2>4, <2>5, HandlerStep
<1>10. CASE HandleEnd(k) /\ UNCHANGED <<github, faults, login, logins, late>>
  <2>1. inbox' = RemoveAt(inbox, k) /\ inst' = inst /\ row' = row
    BY <1>10 DEF HandleEnd, tables
  <2>2. /\ inbox' \in Seq(Deliveries) /\ DOMAIN inbox' = 1..(Len(inbox) - 1)
        /\ \A x \in 1..(Len(inbox) - 1) : inbox'[x] = inbox[IF x < k THEN x ELSE x + 1]
    BY <2>1, RemoveShape
  <2>3. ASSUME NEW x \in DOMAIN inbox' PROVE DeliveryIsSane(inbox'[x])
    <3> PICK y : y = IF x < k THEN x ELSE x + 1
      OBVIOUS
    <3>1. y \in DOMAIN inbox
      BY <2>2, InboxShape
    <3>2. DeliveryIsSane(inbox[y])
      BY <3>1 DEF KnowledgeInv
    <3> QED BY <2>2, <3>2
  <2>4. login' = login /\ logins' = logins /\ late' = late /\ faults' = faults /\ UNCHANGED github
    BY <1>10
  <2>5. /\ login' \in [stage : {"none", "listed", "read", "writing"}, todo : SUBSET Installs,
                       at : Installs \cup {None}, repos : SUBSET Repos]
        /\ logins' \in 0..MaxLogins /\ late' \subseteq Repos \cup Installs
    BY <2>4 DEF TypeOK
  <2>6. /\ \A r \in login'.repos : Belonged(r, login'.at)
        /\ IF login'.stage \in {"read", "writing"} THEN login'.at \in Installs ELSE login'.repos = {}
    BY <2>4 DEF KnowledgeInv
  <2> QED BY <1>3, <1>4, <2>1, <2>2, <2>3, <2>4, <2>5, <2>6, TableStep
<1>11. CASE HandleFails(k)
  <2> PICK d : d = Delivery(f.kind, f.inst, f.added, f.removed)
    OBVIOUS
  <2>1. d \in Deliveries
    BY <1>2, DeliveryShape
  <2>2. /\ Progress(k, d) /\ inst' = inst /\ row' = row
        /\ UNCHANGED <<github, login, logins, late>> /\ faults' \in 0..MaxFaults
    BY <1>3, <1>11, BoundAssumption DEF HandleFails, tables
  <2>3. DeliveryIsSane(d)
    BY <1>1 DEF DeliveryIsSane, Delivery
  <2> QED BY <1>3, <1>4, <2>1, <2>2, <2>3, HandlerStep
<1> QED BY <1>2, <1>5, <1>6, <1>7, <1>8, <1>9, <1>10, <1>11 DEF Handle

LEMMA LoginStep ==
  ASSUME TypeOK, KnowledgeInv, Login PROVE TypeOK' /\ KnowledgeInv'
<1> DEFINE Logging == [stage : {"none", "listed", "read", "writing"}, todo : SUBSET Installs,
                       at : Installs \cup {None}, repos : SUBSET Repos]
<1>1. login \in Logging /\ logins \in 0..MaxLogins /\ late \subseteq Repos \cup Installs
  BY DEF TypeOK
<1>2. /\ login.stage \in {"none", "listed", "read", "writing"} /\ login.todo \subseteq Installs
      /\ login.at \in Installs \cup {None} /\ login.repos \subseteq Repos
      /\ login.stage \in {"read", "writing"} => login.at \in Installs
      /\ login.stage \notin {"read", "writing"} => login.repos = {}
      /\ \A r \in login.repos : Belonged(r, login.at)
  BY <1>1 DEF KnowledgeInv
<1>3. /\ UNCHANGED github /\ inbox' = inbox /\ faults' = faults
  BY DEF Login, ListInstallations, ReadRepositories, LoginUpserts, LoginEnsures, LoginContinues, LoginEnds
<1>4. /\ inbox' \in Seq(Deliveries) /\ \A k \in DOMAIN inbox' : DeliveryIsSane(inbox'[k])
      /\ faults' \in 0..MaxFaults
  BY <1>3 DEF TypeOK, KnowledgeInv
<1>5. /\ inst \in [Installs -> [there : BOOLEAN, suspended : BOOLEAN, deleted : BOOLEAN]]
      /\ row \in [Repos -> Installs \cup {None}]
      /\ \A r \in Repos : row[r] # None => Belonged(r, row[r])
  BY DEF TypeOK, KnowledgeInv
<1>6. ASSUME NEW S \in SUBSET Installs, ListInstallations(S) \/ LoginContinues \/ LoginEnds
      PROVE  TypeOK' /\ KnowledgeInv'
  <2>1. inst' = inst /\ row' = row /\ late' = late
    BY <1>6 DEF ListInstallations, LoginContinues, LoginEnds, tables
  <2>2. logins' \in 0..MaxLogins
    BY <1>1, <1>6, BoundAssumption DEF ListInstallations, LoginContinues, LoginEnds
  <2>3. login' \in Logging /\ login'.repos = {} /\ login'.stage \notin {"read", "writing"}
    <3>1. CASE ListInstallations(S)
      BY <3>1 DEF ListInstallations, NoLogin
    <3>2. CASE LoginContinues
      BY <1>2, <3>2 DEF LoginContinues, NoLogin
    <3>3. CASE LoginEnds
      BY <3>3 DEF LoginEnds, NoLogin
    <3> QED BY <1>6, <3>1, <3>2, <3>3
  <2> QED BY <1>1, <1>3, <1>4, <1>5, <2>1, <2>2, <2>3, TableStep
<1>7. ASSUME NEW i \in Installs, ReadRepositories(i) PROVE TypeOK' /\ KnowledgeInv'
  <2>1. /\ inst' = inst /\ row' = row /\ late' = late /\ logins' = logins
        /\ login' = [stage |-> "read", todo |-> login.todo \ {i}, at |-> i, repos |-> Of(i)]
    BY <1>7 DEF ReadRepositories, tables
  <2>2. login' \in Logging /\ login'.at \in Installs /\ login'.stage = "read"
    BY <1>2, <2>1 DEF Of
  <2>3. \A r \in login'.repos : Belonged(r, login'.at)
    BY <2>1 DEF Of, Belonged
  <2> QED BY <1>1, <1>3, <1>4, <1>5, <2>1, <2>2, <2>3, TableStep
<1>8. CASE LoginUpserts
  <2>1. /\ login.stage = "read" /\ UpsertInstallation(login.at) /\ login' = [login EXCEPT !.stage = "writing"]
        /\ late' = late \cup (IF app[login.at] = "active" THEN {} ELSE {login.at})
        /\ row' = row /\ logins' = logins
    BY <1>8 DEF LoginUpserts
  <2>2. /\ login' \in Logging /\ login'.at = login.at /\ login'.stage = "writing" /\ login'.repos = login.repos
        /\ login.at \in Installs
    BY <1>1, <1>2, <2>1
  <2>3. late' \subseteq Repos \cup Installs
    BY <1>1, <2>1, <2>2
  <2>4. inst' \in [Installs -> [there : BOOLEAN, suspended : BOOLEAN, deleted : BOOLEAN]]
    BY <2>1, <2>2, UpsertShape
  <2>5. \A r \in login'.repos : Belonged(r, login'.at)
    BY <1>2, <2>2
  <2> QED BY <1>1, <1>3, <1>4, <1>5, <2>1, <2>2, <2>3, <2>4, <2>5, TableStep
<1>9. ASSUME NEW r \in Repos, LoginEnsures(r) PROVE TypeOK' /\ KnowledgeInv'
  <2>1. /\ login.stage = "writing" /\ r \in login.repos /\ row' = [row EXCEPT ![r] = login.at]
        /\ login' = [login EXCEPT !.repos = @ \ {r}] /\ inst' = inst /\ logins' = logins
        /\ late' = late \cup (IF owner[r] = login.at THEN {} ELSE {r})
    BY <1>9 DEF LoginEnsures, EnsureRepository
  <2>2. /\ login' \in Logging /\ login'.at = login.at /\ login'.stage = "writing"
        /\ login'.repos = login.repos \ {r} /\ login.at \in Installs
    BY <1>1, <1>2, <2>1
  <2>3. late' \subseteq Repos \cup Installs
    BY <1>1, <2>1
  <2>4. row' \in [Repos -> Installs \cup {None}]
    BY <1>5, <2>1, <2>2
  <2>5. \A s \in Repos : row'[s] # None => Belonged(s, row'[s])
    BY <1>2, <1>5, <2>1
  <2>6. \A s \in login'.repos : Belonged(s, login'.at)
    BY <1>2, <2>2
  <2> QED BY <1>1, <1>3, <1>4, <1>5, <2>1, <2>2, <2>3, <2>4, <2>5, <2>6, TableStep
<1> QED BY <1>6, <1>7, <1>8, <1>9 DEF Login

LEMMA TypesAndKnowledge == ASSUME TypeOK, KnowledgeInv, [Next]_vars PROVE TypeOK' /\ KnowledgeInv'
<1>1. CASE UNCHANGED vars
  <2>1. /\ UNCHANGED github /\ inbox' = inbox /\ faults' = faults /\ inst' = inst /\ row' = row
        /\ login' = login /\ logins' = logins /\ late' = late
    BY <1>1 DEF vars, tables
  <2> QED BY <2>1, TableStep DEF TypeOK, KnowledgeInv
<1>2. ASSUME NEW k \in Handled, Handle(k) \/ HandleFails(k) PROVE TypeOK' /\ KnowledgeInv'
  <2>1. k \in DOMAIN inbox
    BY DEF Handled
  <2> QED BY <1>2, <2>1, HandleStep
<1> QED BY <1>1, <1>2, GitHubStep, LoginStep DEF Next

\* A step takes a repository out of the rows of an installation only if the
\* installation is gone, or a delivery says that it lost the repository.
LEMMA NextDeletes ==
  ASSUME TypeOK, KnowledgeInv, Next, NEW r \in Repos, row[r] # None, row'[r] = None
  PROVE  <<r, row[r]>> \in left'
<1>1. row[r] \in Installs /\ Belonged(r, row[r]) /\ row \in [Repos -> Installs \cup {None}]
  BY DEF TypeOK, KnowledgeInv
<1>2. ~GitHub
  BY ZenonT(60) DEF GitHub, Install, Suspend, Unsuspend, Uninstall, AddRepository, RemoveRepository, Transfer,
         PullRequest, Happens, tables
<1>3. ~Login
  <2>1. ASSUME NEW s \in Repos, LoginEnsures(s) PROVE FALSE
    <3>1. login.at \in Installs /\ row' = [row EXCEPT ![s] = login.at]
      BY <2>1 DEF LoginEnsures, EnsureRepository, KnowledgeInv
    <3> QED BY <1>1, <3>1, NoneAssumption
  <2> QED BY <2>1 DEF Login, ListInstallations, ReadRepositories, LoginUpserts, LoginContinues, LoginEnds, tables
<1>4. PICK k \in DOMAIN inbox : Handle(k) \/ HandleFails(k)
  BY <1>2, <1>3 DEF Next, Handled
<1> PICK f \in Deliveries : f = inbox[k]
  BY InboxShape
<1>5. DeliveryIsSane(f) /\ f.inst \in Installs
  BY DEF KnowledgeInv, Deliveries
<1>6. left' = left
  BY <1>4 DEF Handle, HandleFails, github
<1>7. CASE HandleDeleted(k)
  <2>1. f.kind = "deleted" /\ row' = [s \in Repos |-> IF row[s] = f.inst THEN None ELSE row[s]]
    BY <1>7 DEF HandleDeleted, DeleteInstallation
  <2>2. app[f.inst] = "gone" /\ row[r] = f.inst
    BY <1>5, <2>1 DEF DeliveryIsSane
  <2>3. owner[r] # f.inst
    BY <1>5, <2>2 DEF KnowledgeInv
  <2> QED BY <1>1, <1>6, <2>2, <2>3 DEF Belonged
<1>8. ASSUME NEW s \in Repos, HandleRemoved(k, s) PROVE <<r, row[r]>> \in left'
  <2>1. s \in f.remove /\ row' = [row EXCEPT ![s] = IF @ = f.inst THEN None ELSE @]
    BY <1>8 DEF HandleRemoved, DeleteRepositoryByGitHubID
  <2>2. s = r /\ row[r] = f.inst
    BY <1>1, <2>1
  <2> QED BY <1>5, <1>6, <2>1, <2>2 DEF DeliveryIsSane
<1>9. ASSUME NEW s \in Repos, HandleAdded(k, s) PROVE FALSE
  <2>1. row' = [row EXCEPT ![s] = f.inst]
    BY <1>9 DEF HandleAdded, EnsureRepository
  <2> QED BY <1>1, <1>5, <2>1, NoneAssumption
<1>10. ~(HandleUpsert(k) \/ HandleSuspend(k) \/ HandleEnd(k) \/ HandleFails(k))
  BY DEF HandleUpsert, HandleSuspend, HandleEnd, HandleFails, tables
<1> QED BY <1>4, <1>7, <1>8, <1>9, <1>10 DEF Handle

-----------------------------------------------------------------------------
(* What is in the tables and on its way *)

\* What a handler never changes of a delivery.
Kept(f, d) == d.kind = f.kind /\ d.inst = f.inst /\ d.added = f.added /\ d.removed = f.removed

\* The delivery will take the repository out of the rows of its installation.
Clears(d, r) == r \in d.remove \/ (d.kind = "deleted" /\ d.stage = "new")

\* The delivery does not move the repository away from i.
Leaves(d, r, i) == (r \in d.added => d.inst = i) /\ (Takes(d, r) => d.inst # i)

\* What a step of the handler of f, which becomes d, may do to the row of a
\* repository, and to the row of an installation.
RowEffect(f, d, r) ==
  /\ row[r] = None /\ r \notin f.added => row'[r] = None
  /\ row[r] = f.inst /\ Clears(f, r) => row'[r] = None \/ (row'[r] = row[r] /\ Clears(d, r))
  /\ \A i \in Installs : row[r] = i /\ Leaves(f, r, i) => row'[r] = i
  /\ r \in f.add => r \in d.add \/ row'[r] = f.inst

InstEffect(f, d, i) ==
  /\ f.inst # i => inst'[i] = inst[i]
  /\ \/ inst[i] = RowFor(app[i]) /\ Tells(f) \in {app[i], "nothing"}
     \/ Tells(f) = app[i] /\ WillTell(f)
     => \/ f.inst # i
        \/ inst'[i] = RowFor(app[i])
        \/ Tells(f) = app[i] /\ WillTell(d)'

\* Nothing happens to the first n deliveries.
LEMMA PlacedBefore ==
  ASSUME NEW n \in Nat, NEW r \in Repos, NEW i \in Installs, Placed(r, i, n),
         \A x \in 1..n : inbox'[x] = inbox[x],
         row'[r] = row[r] \/ row'[r] = i
  PROVE  Placed(r, i, n)'
<1> PICK p \in 0..n :
      /\ IF p = 0 THEN row[r] = i ELSE r \in inbox[p].add /\ inbox[p].inst = i
      /\ \A x \in (p + 1)..n : Leaves(inbox[x], r, i)
  BY DEF Placed, Leaves
<1>1. IF p = 0 THEN row'[r] = i ELSE r \in inbox'[p].add /\ inbox'[p].inst = i
  OBVIOUS
<1>2. \A x \in (p + 1)..n : Leaves(inbox'[x], r, i)
  OBVIOUS
<1> QED BY <1>1, <1>2 DEF Placed, Leaves, Takes

\* The first delivery is being handled.
LEMMA PlacedHandling ==
  ASSUME NEW n \in Nat \ {0}, NEW r \in Repos, NEW i \in Installs, Placed(r, i, n),
         NEW f, NEW d, f = inbox[1], d = inbox'[1],
         Kept(f, d), RowEffect(f, d, r), DeliveryIsSane(f),
         \A x \in 2..n : inbox'[x] = inbox[x]
  PROVE  Placed(r, i, n)'
<1> PICK p \in 0..n :
      /\ IF p = 0 THEN row[r] = i ELSE r \in inbox[p].add /\ inbox[p].inst = i
      /\ \A x \in (p + 1)..n : Leaves(inbox[x], r, i)
  BY DEF Placed, Leaves
<1>1. Leaves(f, r, i) => Leaves(d, r, i)
  BY DEF Kept, Leaves, Takes
<1>2. \A x \in (p + 1)..n : Leaves(inbox'[x], r, i)
  <2> TAKE x \in (p + 1)..n
  <2>1. x = 1 \/ x \in 2..n
    OBVIOUS
  <2> QED BY <1>1, <2>1
<1>3. CASE p = 0
  <2>1. Leaves(f, r, i) /\ row[r] = i
    BY <1>3
  <2>2. row'[r] = i
    BY <2>1 DEF RowEffect
  <2> QED BY <1>2, <1>3, <2>2 DEF Placed, Leaves, Takes
<1>4. CASE p = 1
  <2>1. r \in f.add /\ f.inst = i
    BY <1>4
  <2>2. r \in d.add \/ row'[r] = i
    BY <2>1 DEF RowEffect
  <2>3. CASE r \in d.add
    <3>1. r \in inbox'[p].add /\ inbox'[p].inst = i
      BY <1>4, <2>1, <2>3 DEF Kept
    <3> QED BY <1>2, <1>4, <3>1 DEF Placed, Leaves, Takes
  <2>4. CASE row'[r] = i
    <3>1. Leaves(d, r, i)
      BY <1>1, <2>1 DEF DeliveryIsSane, Leaves, Takes
    <3>2. \A x \in (0 + 1)..n : Leaves(inbox'[x], r, i)
      BY <1>2, <1>4, <3>1
    <3> QED BY <2>4, <3>2 DEF Placed, Leaves, Takes
  <2> QED BY <2>2, <2>3, <2>4
<1>5. CASE p \in 2..n
  <2>1. r \in inbox'[p].add /\ inbox'[p].inst = i
    BY <1>5
  <2> QED BY <1>2, <1>5, <2>1 DEF Placed, Leaves, Takes
<1> QED BY <1>3, <1>4, <1>5

\* The first delivery is complete.
LEMMA PlacedDone ==
  ASSUME NEW n \in Nat \ {0}, NEW r \in Repos, NEW i \in Installs, Placed(r, i, n),
         r \notin inbox[1].add, row'[r] = row[r],
         \A x \in 1..(n - 1) : inbox'[x] = inbox[x + 1]
  PROVE  Placed(r, i, n - 1)'
<1> PICK p \in 0..n :
      /\ IF p = 0 THEN row[r] = i ELSE r \in inbox[p].add /\ inbox[p].inst = i
      /\ \A x \in (p + 1)..n : Leaves(inbox[x], r, i)
  BY DEF Placed, Leaves
<1>1. p # 1
  OBVIOUS
<1> PICK q : q = IF p = 0 THEN 0 ELSE p - 1
  OBVIOUS
<1>2. q \in 0..(n - 1)
  BY <1>1
<1>3. IF q = 0 THEN row'[r] = i ELSE r \in inbox'[q].add /\ inbox'[q].inst = i
  <2>1. CASE p = 0
    BY <2>1
  <2>2. CASE p # 0
    <3>1. q \in 1..(n - 1) /\ q + 1 = p
      BY <1>1, <2>2
    <3> QED BY <2>2, <3>1
  <2> QED BY <2>1, <2>2
<1>4. ASSUME NEW x \in (q + 1)..(n - 1) PROVE Leaves(inbox'[x], r, i)
  <2>1. x \in 1..(n - 1) /\ x + 1 \in (p + 1)..n
    BY <1>2
  <2> QED BY <2>1
<1> QED BY <1>2, <1>3, <1>4 DEF Placed, Leaves, Takes

\* Deliveries come in behind that do not move the repository away.
LEMMA PlacedSent ==
  ASSUME TypeOK, NEW r \in Repos, NEW i \in Installs, Placed(r, i, Len(inbox)), row' = row,
         NEW ds \in Seq(Deliveries), inbox' = inbox \o ds,
         \A k \in 1..Len(ds) : Leaves(ds[k], r, i)
  PROVE  Placed(r, i, Len(inbox))'
<1> PICK n \in Nat : n = Len(inbox)
  BY InboxShape
<1> PICK m \in Nat : m = Len(ds)
  BY SendShape
<1>1. /\ Len(inbox') = n + m
      /\ \A x \in 1..n : inbox'[x] = inbox[x]
      /\ \A x \in 1..m : inbox'[n + x] = ds[x]
  BY SendShape
<1>2. Placed(r, i, n)'
  BY <1>1, PlacedBefore
<1> PICK p \in 0..n :
      /\ IF p = 0 THEN row'[r] = i ELSE r \in inbox'[p].add /\ inbox'[p].inst = i
      /\ \A x \in (p + 1)..n : Leaves(inbox'[x], r, i)
  BY <1>2 DEF Placed, Leaves, Takes
<1>3. ASSUME NEW x \in (p + 1)..(n + m) PROVE Leaves(inbox'[x], r, i)
  <2>1. CASE x \in (p + 1)..n
    BY <2>1
  <2>2. CASE x \notin (p + 1)..n
    <3>1. x - n \in 1..m /\ n + (x - n) = x
      BY <2>2
    <3>2. inbox'[n + (x - n)] = ds[x - n] /\ Leaves(ds[x - n], r, i)
      BY <1>1, <3>1
    <3> QED BY <3>1, <3>2
  <2> QED BY <2>1, <2>2
<1>4. p \in 0..(n + m)
  OBVIOUS
<1>5. Placed(r, i, n + m)'
  BY <1>3, <1>4 DEF Placed, Leaves, Takes
<1> QED BY <1>1, <1>5

\* One of them brings the repository to i, and those behind it leave it there.
LEMMA PlacedBySent ==
  ASSUME TypeOK, NEW r \in Repos, NEW i \in Installs,
         NEW ds \in Seq(Deliveries), inbox' = inbox \o ds,
         NEW q \in 1..Len(ds), r \in ds[q].add, ds[q].inst = i,
         \A k \in 1..Len(ds) : k > q => Leaves(ds[k], r, i)
  PROVE  Placed(r, i, Len(inbox))'
<1> PICK n \in Nat : n = Len(inbox)
  BY InboxShape
<1> PICK m \in Nat : m = Len(ds)
  BY SendShape
<1>1. Len(inbox') = n + m /\ \A x \in 1..m : inbox'[n + x] = ds[x]
  BY SendShape
<1>2. q \in 1..m /\ n + q \in 0..(n + m) /\ n + q # 0
  OBVIOUS
<1>3. r \in inbox'[n + q].add /\ inbox'[n + q].inst = i
  BY <1>1, <1>2
<1>4. ASSUME NEW x \in (n + q + 1)..(n + m) PROVE Leaves(inbox'[x], r, i)
  <2>1. x - n \in 1..m /\ n + (x - n) = x /\ x - n > q
    BY <1>2
  <2>2. inbox'[n + (x - n)] = ds[x - n] /\ Leaves(ds[x - n], r, i)
    BY <1>1, <2>1
  <2> QED BY <2>1, <2>2
<1>5. Placed(r, i, n + m)'
  BY <1>2, <1>3, <1>4 DEF Placed, Leaves, Takes
<1> QED BY <1>1, <1>5

\* The same for a repository that goes out of the rows.
LEMMA DisplacedBefore ==
  ASSUME TypeOK, NEW r \in Repos, Displaced(r), row' = row,
         NEW ds \in Seq(Deliveries), inbox' = inbox \o ds,
         \A k \in 1..Len(ds) : r \notin ds[k].added
  PROVE  Displaced(r)'
<1> PICK n \in Nat : n = Len(inbox)
  BY InboxShape
<1> PICK m \in Nat : m = Len(ds)
  BY SendShape
<1>1. /\ Len(inbox') = n + m
      /\ \A x \in 1..n : inbox'[x] = inbox[x] /\ inbox[x].inst \in Installs
      /\ \A x \in 1..m : inbox'[n + x] = ds[x]
  BY SendShape, InboxShape DEF Deliveries
<1> PICK p \in 0..n :
      /\ IF p = 0 THEN row[r] = None ELSE Clears(inbox[p], r) /\ Placed(r, inbox[p].inst, p - 1)
      /\ \A x \in (p + 1)..n : r \notin inbox[x].added
  BY DEF Displaced, Clears
<1>2. ASSUME NEW x \in (p + 1)..(n + m) PROVE r \notin inbox'[x].added
  <2>1. CASE x \in (p + 1)..n
    BY <1>1, <2>1
  <2>2. CASE x \notin (p + 1)..n
    <3>1. x - n \in 1..m /\ n + (x - n) = x
      BY <2>2
    <3>2. inbox'[n + (x - n)] = ds[x - n] /\ r \notin ds[x - n].added
      BY <1>1, <3>1
    <3> QED BY <3>1, <3>2
  <2> QED BY <2>1, <2>2
<1>3. CASE p = 0
  <2>1. row'[r] = None
    BY <1>3
  <2> QED BY <1>1, <1>2, <1>3, <2>1 DEF Displaced
<1>4. CASE p # 0
  <2> PICK e : e = inbox[p]
    OBVIOUS
  <2>1. p - 1 \in Nat /\ e.inst \in Installs /\ inbox'[p] = e /\ Placed(r, e.inst, p - 1)
    BY <1>1, <1>4
  <2>2. \A x \in 1..(p - 1) : inbox'[x] = inbox[x]
    BY <1>1
  <2>3. Placed(r, e.inst, p - 1)'
    BY <2>1, <2>2, PlacedBefore
  <2>4. Clears(inbox'[p], r) /\ Placed(r, inbox[p].inst, p - 1)'
    BY <1>4, <2>1, <2>3
  <2>5. p \in 0..(n + m)
    OBVIOUS
  <2> QED BY <1>1, <1>2, <1>4, <2>4, <2>5 DEF Displaced, Clears
<1> QED BY <1>3, <1>4

\* A delivery comes in behind that takes the repository from the rows it is in.
LEMMA DisplacedBySent ==
  ASSUME TypeOK, NEW r \in Repos, NEW i \in Installs, Placed(r, i, Len(inbox)), row' = row,
         NEW d \in Deliveries, inbox' = inbox \o <<d>>, d.inst = i, Clears(d, r)
  PROVE  Displaced(r)'
<1> PICK n \in Nat : n = Len(inbox)
  BY InboxShape
<1> PICK ds : ds = <<d>>
  OBVIOUS
<1>1. ds \in Seq(Deliveries) /\ Len(ds) = 1 /\ ds[1] = d /\ inbox' = inbox \o ds
  BY OneSent
<1>2. Len(inbox') = n + 1 /\ \A x \in 1..n : inbox'[x] = inbox[x]
  BY <1>1, SendShape
<1>3. inbox'[n + 1] = d
  <2>1. \A x \in 1..Len(ds) : inbox'[n + x] = ds[x]
    BY <1>1, SendShape
  <2> QED BY <1>1, <2>1
<1>4. Placed(r, i, n)'
  BY <1>2, PlacedBefore
<1>5. n + 1 \in 0..(n + 1) /\ n + 1 # 0 /\ (n + 1) - 1 = n
  OBVIOUS
<1>6. Clears(inbox'[n + 1], r) /\ Placed(r, inbox[n + 1].inst, (n + 1) - 1)'
  BY <1>3, <1>4, <1>5
<1> QED BY <1>2, <1>5, <1>6 DEF Displaced, Clears

LEMMA DisplacedHandling ==
  ASSUME TypeOK, NEW n \in Nat \ {0}, n = Len(inbox), NEW r \in Repos, Displaced(r),
         NEW f, NEW d, f = inbox[1], d = inbox'[1],
         Kept(f, d), RowEffect(f, d, r), DeliveryIsSane(f), Len(inbox') = n,
         \A x \in 2..n : inbox'[x] = inbox[x]
  PROVE  Displaced(r)'
<1>1. \A x \in 1..n : inbox[x] \in Deliveries /\ inbox[x].inst \in Installs
  BY InboxShape DEF Deliveries
<1> PICK p \in 0..n :
      /\ IF p = 0 THEN row[r] = None ELSE Clears(inbox[p], r) /\ Placed(r, inbox[p].inst, p - 1)
      /\ \A x \in (p + 1)..n : r \notin inbox[x].added
  BY DEF Displaced, Clears
<1>2. ASSUME NEW x \in (p + 1)..n PROVE r \notin inbox'[x].added
  <2>1. x = 1 \/ x \in 2..n
    OBVIOUS
  <2> QED BY <2>1 DEF Kept
<1>3. CASE p = 0
  <2>1. row'[r] = None
    BY <1>3 DEF RowEffect
  <2> QED BY <1>2, <1>3, <2>1 DEF Displaced
<1>4. CASE p = 1
  <2>1. Clears(f, r) /\ f.inst \in Installs /\ Placed(r, f.inst, 0)
    BY <1>1, <1>4
  <2>2. row[r] = f.inst
    BY <2>1 DEF Placed
  <2>3. row'[r] = None \/ (row'[r] = row[r] /\ Clears(d, r))
    BY <2>1, <2>2 DEF RowEffect
  <2>4. CASE row'[r] = None
    <3>1. r \notin d.added
      BY <2>1 DEF DeliveryIsSane, Clears, Kept
    <3>2. \A x \in (0 + 1)..n : r \notin inbox'[x].added
      BY <1>2, <1>4, <3>1
    <3> QED BY <2>4, <3>2 DEF Displaced
  <2>5. CASE row'[r] = row[r] /\ Clears(d, r)
    <3>1. Placed(r, d.inst, 0)'
      BY <2>2, <2>5 DEF Placed, Kept
    <3>2. Clears(inbox'[p], r) /\ Placed(r, inbox[p].inst, p - 1)'
      BY <1>4, <2>5, <3>1
    <3> QED BY <1>2, <1>4, <3>2 DEF Displaced, Clears
  <2> QED BY <2>3, <2>4, <2>5
<1>5. CASE p \in 2..n
  <2> PICK e : e = inbox[p]
    OBVIOUS
  <2>1. p - 1 \in Nat \ {0} /\ e.inst \in Installs /\ inbox'[p] = e /\ Placed(r, e.inst, p - 1)
    BY <1>1, <1>5
  <2>2. \A x \in 2..(p - 1) : inbox'[x] = inbox[x]
    OBVIOUS
  <2>3. Placed(r, e.inst, p - 1)'
    BY <2>1, <2>2, PlacedHandling
  <2>4. Clears(inbox'[p], r) /\ Placed(r, inbox[p].inst, p - 1)'
    BY <1>5, <2>1, <2>3
  <2> QED BY <1>2, <1>5, <2>4 DEF Displaced, Clears
<1> QED BY <1>3, <1>4, <1>5

LEMMA DisplacedDone ==
  ASSUME TypeOK, NEW n \in Nat \ {0}, n = Len(inbox), NEW r \in Repos, Displaced(r),
         inbox[1].add = {}, ~Clears(inbox[1], r), row'[r] = row[r], Len(inbox') = n - 1,
         \A x \in 1..(n - 1) : inbox'[x] = inbox[x + 1]
  PROVE  Displaced(r)'
<1>1. \A x \in 1..n : inbox[x] \in Deliveries /\ inbox[x].inst \in Installs
  BY InboxShape DEF Deliveries
<1> PICK p \in 0..n :
      /\ IF p = 0 THEN row[r] = None ELSE Clears(inbox[p], r) /\ Placed(r, inbox[p].inst, p - 1)
      /\ \A x \in (p + 1)..n : r \notin inbox[x].added
  BY DEF Displaced, Clears
<1>2. p # 1
  OBVIOUS
<1> PICK q : q = IF p = 0 THEN 0 ELSE p - 1
  OBVIOUS
<1>3. q \in 0..(n - 1)
  BY <1>2
<1>4. ASSUME NEW x \in (q + 1)..(n - 1) PROVE r \notin inbox'[x].added
  <2>1. x \in 1..(n - 1) /\ x + 1 \in (p + 1)..n
    BY <1>3
  <2> QED BY <2>1
<1>5. CASE p = 0
  BY <1>3, <1>4, <1>5 DEF Displaced
<1>6. CASE p # 0
  <2> PICK e : e = inbox[p]
    OBVIOUS
  <2>1. q \in 1..(n - 1) /\ q + 1 = p /\ p - 1 \in Nat \ {0} /\ q = p - 1
    BY <1>2, <1>6
  <2>2. e.inst \in Installs /\ inbox'[q] = e /\ Placed(r, e.inst, p - 1) /\ Clears(e, r)
    BY <1>1, <1>6, <2>1
  <2>3. \A x \in 1..(p - 1 - 1) : inbox'[x] = inbox[x + 1]
    OBVIOUS
  <2>4. Placed(r, e.inst, (p - 1) - 1)'
    BY <2>1, <2>2, <2>3, PlacedDone
  <2>5. Clears(inbox'[q], r) /\ Placed(r, inbox[q].inst, q - 1)'
    BY <2>1, <2>2, <2>4
  <2> QED BY <1>3, <1>4, <2>1, <2>5 DEF Displaced, Clears
<1> QED BY <1>5, <1>6

\* A login writes other rows.
LEMMA DisplacedStays ==
  ASSUME TypeOK, NEW r \in Repos, Displaced(r), row'[r] = row[r], inbox' = inbox
  PROVE  Displaced(r)'
<1> PICK n \in Nat : n = Len(inbox)
  BY InboxShape
<1>1. \A x \in 1..n : inbox[x].inst \in Installs
  BY InboxShape DEF Deliveries
<1> PICK p \in 0..n :
      /\ IF p = 0 THEN row[r] = None ELSE Clears(inbox[p], r) /\ Placed(r, inbox[p].inst, p - 1)
      /\ \A x \in (p + 1)..n : r \notin inbox[x].added
  BY DEF Displaced, Clears
<1>2. CASE p = 0
  BY <1>2 DEF Displaced
<1>3. CASE p # 0
  <2> PICK e : e = inbox[p]
    OBVIOUS
  <2>1. p - 1 \in Nat /\ e.inst \in Installs /\ Placed(r, e.inst, p - 1) /\ Clears(e, r)
    BY <1>1, <1>3
  <2>2. Placed(r, e.inst, p - 1)'
    BY <2>1, PlacedBefore
  <2>3. Clears(inbox'[p], r) /\ Placed(r, inbox[p].inst, p - 1)'
    BY <2>1, <2>2
  <2> QED BY <1>3, <2>3 DEF Displaced, Clears
<1> QED BY <1>2, <1>3

\* The delivery tells of the installation what is so, or nothing.
Agrees(d, i) == d.inst = i => Tells(d) \in {app[i], "nothing"}

LEMMA ShownNow ==
  ASSUME NEW n \in Nat, Len(inbox') = n, NEW p \in 0..n, NEW i \in Installs,
         p = 0 => inst'[i] = RowFor(app'[i]),
         p # 0 => inbox'[p].inst = i /\ Tells(inbox'[p]) = app'[i] /\ WillTell(inbox[p])',
         \A x \in (p + 1)..n : Agrees(inbox[x], i)'
  PROVE  InstallationShown(i)'
BY DEF InstallationShown, Agrees, Tells

\* Deliveries come in behind that agree.
LEMMA ShownBefore ==
  ASSUME TypeOK, NEW i \in Installs, InstallationShown(i), UNCHANGED inst, app'[i] = app[i],
         NEW ds \in Seq(Deliveries), inbox' = inbox \o ds,
         \A k \in 1..Len(ds) : Agrees(ds[k], i)
  PROVE  InstallationShown(i)'
<1> PICK n \in Nat : n = Len(inbox)
  BY InboxShape
<1> PICK m \in Nat : m = Len(ds)
  BY SendShape
<1>1. /\ Len(inbox') = n + m
      /\ \A x \in 1..n : inbox'[x] = inbox[x]
      /\ \A x \in 1..m : inbox'[n + x] = ds[x]
  BY SendShape
<1> PICK p \in 0..n :
      /\ IF p = 0 THEN inst[i] = RowFor(app[i])
                  ELSE inbox[p].inst = i /\ Tells(inbox[p]) = app[i] /\ WillTell(inbox[p])
      /\ \A x \in (p + 1)..n : Agrees(inbox[x], i)
  BY DEF InstallationShown, Agrees
<1>2. ASSUME NEW x \in (p + 1)..(n + m) PROVE Agrees(inbox[x], i)'
  <2>1. CASE x \in (p + 1)..n
    BY <1>1, <2>1 DEF Agrees
  <2>2. CASE x \notin (p + 1)..n
    <3>1. x - n \in 1..m /\ n + (x - n) = x
      BY <2>2
    <3>2. inbox'[n + (x - n)] = ds[x - n] /\ Agrees(ds[x - n], i)
      BY <1>1, <3>1
    <3> QED BY <3>1, <3>2 DEF Agrees
  <2> QED BY <2>1, <2>2
<1>3. IF p = 0 THEN inst'[i] = RowFor(app'[i])
               ELSE inbox'[p].inst = i /\ Tells(inbox'[p]) = app'[i] /\ WillTell(inbox[p])'
  BY <1>1 DEF WillTell
<1>4. p \in 0..(n + m)
  OBVIOUS
<1> PICK N \in Nat : N = n + m
  OBVIOUS
<1>5. Len(inbox') = N /\ p \in 0..N
  BY ONLY <1>1, <1>4, N = n + m
<1>6. \A x \in (p + 1)..N : Agrees(inbox[x], i)'
  BY ONLY <1>2, N = n + m
<1> QED BY <1>3, <1>5, <1>6, ShownNow

\* One comes in that tells what is so.
LEMMA ShownBySent ==
  ASSUME TypeOK, NEW i \in Installs, NEW d \in Deliveries, inbox' = inbox \o <<d>>,
         d.inst = i, Tells(d) = app'[i], d.stage = "new"
  PROVE  InstallationShown(i)'
<1> PICK n \in Nat : n = Len(inbox)
  BY InboxShape
<1> PICK ds : ds = <<d>>
  OBVIOUS
<1>1. ds \in Seq(Deliveries) /\ Len(ds) = 1 /\ ds[1] = d /\ inbox' = inbox \o ds
  BY OneSent
<1>2. Len(inbox') = n + 1 /\ \A x \in 1..Len(ds) : inbox'[n + x] = ds[x]
  BY <1>1, SendShape
<1>3. inbox'[n + 1] = d /\ n + 1 \in 0..(n + 1) /\ n + 1 # 0
  BY <1>1, <1>2
<1>4. inbox'[n + 1].inst = i /\ Tells(inbox'[n + 1]) = app'[i] /\ WillTell(inbox[n + 1])'
  BY <1>3 DEF WillTell
<1>5. \A x \in (n + 1 + 1)..(n + 1) : Agrees(inbox[x], i)'
  OBVIOUS
<1> PICK q : q = n + 1
  OBVIOUS
<1>6. q \in 0..q /\ q \in Nat /\ q # 0 /\ Len(inbox') = q
  BY <1>2
<1>7. /\ inbox'[q].inst = i /\ Tells(inbox'[q]) = app'[i] /\ WillTell(inbox[q])'
      /\ \A x \in (q + 1)..q : Agrees(inbox[x], i)'
  BY <1>4, <1>5
<1> QED BY <1>6, <1>7, ShownNow

LEMMA ShownHandling ==
  ASSUME NEW n \in Nat \ {0}, n = Len(inbox), NEW i \in Installs, InstallationShown(i),
         NEW f, NEW d, f = inbox[1], d = inbox'[1],
         Kept(f, d), InstEffect(f, d, i), Len(inbox') = n, app' = app,
         \A x \in 2..n : inbox'[x] = inbox[x] /\ inbox[x].stage = "new"
  PROVE  InstallationShown(i)'
<1> PICK p \in 0..n :
      /\ IF p = 0 THEN inst[i] = RowFor(app[i])
                  ELSE inbox[p].inst = i /\ Tells(inbox[p]) = app[i] /\ WillTell(inbox[p])
      /\ \A x \in (p + 1)..n : Agrees(inbox[x], i)
  BY DEF InstallationShown, Agrees
<1>1. Tells(d) = Tells(f) /\ d.inst = f.inst
  BY DEF Kept, Tells
<1>2. ASSUME NEW x \in (p + 1)..n PROVE Agrees(inbox[x], i)'
  <2> PICK e : e = inbox[x]
    OBVIOUS
  <2>1. Agrees(e, i)'
    BY DEF Agrees
  <2>2. CASE x = 1
    <3>1. Agrees(d, i)'
      BY <1>1, <2>1, <2>2 DEF Agrees
    <3> QED BY <2>2, <3>1
  <2>3. CASE x \in 2..n
    <3>1. inbox'[x] = e
      BY <2>3
    <3> QED BY <2>1, <3>1
  <2> QED BY <2>2, <2>3
<1>3. CASE p \in 2..n
  <2>1. inbox'[p].inst = i /\ Tells(inbox'[p]) = app'[i] /\ WillTell(inbox[p])'
    BY <1>3 DEF WillTell
  <2> QED BY <1>2, <1>3, <2>1, ShownNow
<1>4. CASE p \in {0, 1}
  <2>1. f.inst = i => \/ inst[i] = RowFor(app[i]) /\ Tells(f) \in {app[i], "nothing"}
                      \/ Tells(f) = app[i] /\ WillTell(f)
    BY <1>4 DEF Agrees
  <2>2. CASE f.inst # i
    <3>1. p = 0 /\ inst'[i] = inst[i]
      BY <1>4, <2>2 DEF InstEffect
    <3>2. inst'[i] = RowFor(app'[i])
      BY <3>1
    <3> QED BY <1>2, <3>1, <3>2, ShownNow
  <2>3. CASE f.inst = i
    <3>1. inst'[i] = RowFor(app[i]) \/ (Tells(f) = app[i] /\ WillTell(d)')
      BY <2>1, <2>3 DEF InstEffect
    <3>2. ASSUME NEW x \in 1..n PROVE Agrees(inbox[x], i)'
      <4>1. CASE x = 1
        <5>1. Agrees(d, i)'
          BY <1>1, <2>1, <2>3 DEF Agrees
        <5> QED BY <4>1, <5>1
      <4>2. CASE x \in 2..n
        <5>1. x \in (p + 1)..n
          BY <1>4, <4>2
        <5> QED BY <1>2, <5>1
      <4> QED BY <4>1, <4>2
    <3>3. CASE inst'[i] = RowFor(app[i])
      <4>1. inst'[i] = RowFor(app'[i]) /\ 0 \in 0..n /\ \A x \in (0 + 1)..n : Agrees(inbox[x], i)'
        BY <3>2, <3>3
      <4> QED BY <4>1, ShownNow
    <3>4. CASE Tells(f) = app[i] /\ WillTell(d)'
      <4>1. inbox'[1].inst = i /\ Tells(inbox'[1]) = app'[i] /\ WillTell(inbox[1])'
        BY <1>1, <2>3, <3>4
      <4>2. 1 \in 0..n /\ \A x \in (1 + 1)..n : Agrees(inbox[x], i)'
        BY <3>2
      <4> QED BY <4>1, <4>2, ShownNow
    <3> QED BY <3>1, <3>3, <3>4
  <2> QED BY <2>2, <2>3
<1> QED BY <1>3, <1>4

LEMMA ShownDone ==
  ASSUME NEW n \in Nat \ {0}, n = Len(inbox), NEW i \in Installs, InstallationShown(i),
         ~WillTell(inbox[1]), inst' = inst, app' = app, Len(inbox') = n - 1,
         \A x \in 1..(n - 1) : inbox'[x] = inbox[x + 1]
  PROVE  InstallationShown(i)'
<1> PICK p \in 0..n :
      /\ IF p = 0 THEN inst[i] = RowFor(app[i])
                  ELSE inbox[p].inst = i /\ Tells(inbox[p]) = app[i] /\ WillTell(inbox[p])
      /\ \A x \in (p + 1)..n : Agrees(inbox[x], i)
  BY DEF InstallationShown, Agrees
<1>1. p # 1
  OBVIOUS
<1> PICK q : q = IF p = 0 THEN 0 ELSE p - 1
  OBVIOUS
<1>2. q \in 0..(n - 1)
  BY <1>1
<1>3. ASSUME NEW x \in (q + 1)..(n - 1) PROVE Agrees(inbox[x], i)'
  <2>1. x \in 1..(n - 1) /\ x + 1 \in (p + 1)..n
    BY <1>2
  <2> PICK e : e = inbox[x + 1]
    OBVIOUS
  <2>2. Agrees(e, i)' /\ inbox'[x] = e
    BY <2>1 DEF Agrees
  <2> QED BY <2>2
<1>4. CASE p = 0
  <2>1. q = 0 /\ inst'[i] = RowFor(app'[i])
    BY <1>4
  <2> QED BY <1>2, <1>3, <2>1, ShownNow
<1>5. CASE p # 0
  <2> PICK e : e = inbox[p]
    OBVIOUS
  <2>1. q \in 1..(n - 1) /\ q + 1 = p
    BY <1>1, <1>5
  <2>2. inbox'[q] = e /\ e.inst = i /\ Tells(e) = app[i] /\ WillTell(e)
    BY <1>5, <2>1
  <2>3. WillTell(e)'
    BY <2>2 DEF WillTell
  <2>4. inbox'[q].inst = i /\ Tells(inbox'[q]) = app'[i] /\ WillTell(inbox[q])'
    BY <2>2, <2>3
  <2> PICK m \in Nat : m = n - 1
    OBVIOUS
  <2>5. Len(inbox') = m /\ q \in 0..m /\ q # 0
    BY ONLY <2>1, m = n - 1, Len(inbox') = n - 1, n \in Nat
  <2>6. \A x \in (q + 1)..m : Agrees(inbox[x], i)'
    BY ONLY <1>3, m = n - 1
  <2> QED BY <2>4, <2>5, <2>6, ShownNow
<1> QED BY <1>4, <1>5

\* A login writes the row of another installation, or what GitHub says.
LEMMA ShownStays ==
  ASSUME TypeOK, NEW i \in Installs, InstallationShown(i), inbox' = inbox, app' = app,
         inst'[i] = inst[i] \/ (inst'[i] = RowFor("active") /\ app[i] = "active")
  PROVE  InstallationShown(i)'
<1> PICK n \in Nat : n = Len(inbox)
  BY InboxShape
<1> PICK p \in 0..n :
      /\ IF p = 0 THEN inst[i] = RowFor(app[i])
                  ELSE inbox[p].inst = i /\ Tells(inbox[p]) = app[i] /\ WillTell(inbox[p])
      /\ \A x \in (p + 1)..n : Agrees(inbox[x], i)
  BY DEF InstallationShown, Agrees
<1>1. CASE p = 0
  <2>1. inst'[i] = RowFor(app'[i])
    BY <1>1
  <2>2. Len(inbox') = n /\ \A x \in (p + 1)..n : Agrees(inbox[x], i)'
    BY DEF Agrees
  <2> QED BY <1>1, <2>1, <2>2, ShownNow
<1>2. CASE p # 0
  <2> PICK e : e = inbox[p]
    OBVIOUS
  <2>1. e.inst = i /\ Tells(e) = app[i] /\ WillTell(e)
    BY <1>2
  <2>2. WillTell(e)'
    <3>1. CASE inst'[i] = inst[i]
      BY <2>1, <3>1 DEF WillTell
    <3>2. CASE inst'[i] = RowFor("active") /\ app[i] = "active"
      BY <2>1, <3>2 DEF WillTell, Tells
    <3> QED BY <3>1, <3>2
  <2>3. inbox'[p].inst = i /\ Tells(inbox'[p]) = app'[i] /\ WillTell(inbox[p])'
    BY <2>1, <2>2
  <2>4. Len(inbox') = n /\ \A x \in (p + 1)..n : Agrees(inbox[x], i)'
    BY DEF Agrees
  <2> QED BY <1>2, <2>3, <2>4, ShownNow
<1> QED BY <1>1, <1>2

-----------------------------------------------------------------------------
(* The tables and the deliveries add up *)

RowSays(r) == IF owner[r] = None THEN Displaced(r) ELSE Placed(r, owner[r], Len(inbox))

LEMMA OrderParts ==
  OrderInv <=> (orderly => /\ \A k \in 2..Len(inbox) : inbox[k].stage = "new"
                           /\ \A i \in Installs \ late : InstallationShown(i)
                           /\ \A r \in Repos \ late : RowSays(r))
BY DEF OrderInv, RowSays

LEMMA InitOrder == Init => OrderInv
<1> SUFFICES ASSUME Init PROVE OrderInv
  OBVIOUS
<1>1. inbox = <<>> /\ Len(inbox) = 0 /\ 0 \in 0..Len(inbox)
  BY DEF Init
<1>2. ASSUME NEW i \in Installs PROVE InstallationShown(i)
  <2>1. inst[i] = RowFor(app[i])
    BY DEF Init, RowFor, NoInst
  <2>2. \A x \in (0 + 1)..Len(inbox) : FALSE
    BY <1>1
  <2> QED BY <1>1, <2>1, <2>2 DEF InstallationShown
<1>3. ASSUME NEW r \in Repos PROVE owner[r] = None /\ Displaced(r)
  BY <1>1 DEF Init, Displaced
<1> QED BY <1>1, <1>2, <1>3 DEF OrderInv

\* What is sent is new.
LEMMA NewSent ==
  ASSUME TypeOK, NEW ds \in Seq(Deliveries), inbox' = inbox \o ds,
         \A k \in 2..Len(inbox) : inbox[k].stage = "new",
         \A k \in 1..Len(ds) : ds[k].stage = "new"
  PROVE  (\A k \in 2..Len(inbox) : inbox[k].stage = "new")'
<1> PICK n \in Nat : n = Len(inbox)
  BY InboxShape
<1> PICK m \in Nat : m = Len(ds)
  BY SendShape
<1>1. /\ Len(inbox') = n + m
      /\ \A x \in 1..n : inbox'[x] = inbox[x]
      /\ \A x \in 1..m : inbox'[n + x] = ds[x]
  BY SendShape
<1>2. ASSUME NEW k \in 2..(n + m) PROVE inbox'[k].stage = "new"
  <2>1. CASE k <= n
    <3>1. k \in 1..n /\ k \in 2..n
      BY <2>1
    <3> QED BY <1>1, <3>1
  <2>2. CASE ~(k <= n)
    <3>1. k - n \in 1..m /\ n + (k - n) = k
      BY <2>2
    <3>2. inbox'[n + (k - n)] = ds[k - n]
      BY <1>1, <3>1
    <3> QED BY <3>1, <3>2
  <2> QED BY <2>1, <2>2
<1> QED BY <1>1, <1>2

\* Something happens at GitHub that takes one delivery to tell.
LEMMA OneDeliveryOrder ==
  ASSUME TypeOK, owner' \in [Repos -> Installs \cup {None}], OrderInv,
         NEW d \in Deliveries, Happens(<<d>>), d.stage = "new",
         \A i \in Installs : \/ app'[i] = app[i] /\ Agrees(d, i)
                             \/ d.inst = i /\ Tells(d) = app'[i],
         \A r \in Repos : \/ owner'[r] = None /\ owner[r] = None /\ r \notin d.added
                          \/ owner'[r] # None /\ owner'[r] = owner[r] /\ Leaves(d, r, owner[r])
                          \/ owner'[r] = d.inst /\ r \in d.add
                          \/ owner'[r] = None /\ owner[r] = d.inst /\ Clears(d, r)
  PROVE  OrderInv'
<1> PICK ds : ds = <<d>>
  OBVIOUS
<1>1. ds \in Seq(Deliveries) /\ Len(ds) = 1 /\ ds[1] = d
  BY OneSent
<1>2. inbox' = inbox \o ds /\ inbox' = inbox \o <<d>> /\ inst' = inst /\ row' = row /\ late' = late
      /\ orderly' = orderly
  BY DEF Happens, tables
<1>3. \A k \in 1..Len(ds) : ds[k] = d
  BY <1>1
<1> SUFFICES ASSUME orderly
             PROVE  /\ (\A k \in 2..Len(inbox) : inbox[k].stage = "new")'
                    /\ \A i \in Installs \ late : InstallationShown(i)'
                    /\ \A r \in Repos \ late : RowSays(r)'
  BY <1>2 DEF OrderInv, RowSays
<1>4. /\ \A k \in 2..Len(inbox) : inbox[k].stage = "new"
      /\ \A i \in Installs \ late : InstallationShown(i)
      /\ \A r \in Repos \ late : RowSays(r)
  BY OrderParts
<1>5. (\A k \in 2..Len(inbox) : inbox[k].stage = "new")'
  BY <1>1, <1>2, <1>3, <1>4, NewSent
<1>6. ASSUME NEW i \in Installs \ late PROVE InstallationShown(i)'
  <2>1. CASE app'[i] = app[i] /\ Agrees(d, i)
    <3>1. \A k \in 1..Len(ds) : Agrees(ds[k], i)
      BY <1>3, <2>1
    <3>2. InstallationShown(i) /\ UNCHANGED inst
      BY <1>2, <1>4
    <3> QED BY <1>1, <1>2, <2>1, <3>1, <3>2, ShownBefore
  <2>2. CASE d.inst = i /\ Tells(d) = app'[i]
    BY <1>2, <2>2, ShownBySent
  <2> QED BY <2>1, <2>2
<1>7. ASSUME NEW r \in Repos \ late PROVE RowSays(r)'
  <2>1. RowSays(r) /\ d.inst \in Installs /\ d.inst # None /\ owner[r] \in Installs \cup {None}
    BY <1>4, NoneAssumption DEF Deliveries, TypeOK
  <2>2. CASE owner'[r] = None /\ owner[r] = None /\ r \notin d.added
    <3>1. Displaced(r) /\ \A k \in 1..Len(ds) : r \notin ds[k].added
      BY <1>3, <2>1, <2>2 DEF RowSays
    <3>2. Displaced(r)'
      BY <1>1, <1>2, <3>1, DisplacedBefore
    <3> QED BY <2>2, <3>2 DEF RowSays
  <2>3. CASE owner'[r] # None /\ owner'[r] = owner[r] /\ Leaves(d, r, owner[r])
    <3> PICK i \in Installs : i = owner[r]
      BY <2>1, <2>3
    <3>1. Placed(r, i, Len(inbox)) /\ \A k \in 1..Len(ds) : Leaves(ds[k], r, i)
      BY <1>3, <2>1, <2>3 DEF RowSays
    <3>2. Placed(r, i, Len(inbox))'
      BY <1>1, <1>2, <3>1, PlacedSent
    <3>3. owner'[r] = i /\ i # None
      BY <2>3
    <3> QED BY <3>2, <3>3 DEF RowSays
  <2>4. CASE owner'[r] = d.inst /\ r \in d.add
    <3> PICK i \in Installs : i = d.inst
      BY <2>1
    <3>1. 1 \in 1..Len(ds) /\ r \in ds[1].add /\ ds[1].inst = i
          /\ \A k \in 1..Len(ds) : k > 1 => Leaves(ds[k], r, i)
      BY <1>1, <2>4
    <3>2. Placed(r, i, Len(inbox))'
      BY <1>1, <1>2, <3>1, PlacedBySent
    <3>3. owner'[r] = i /\ i # None
      BY <2>1, <2>4
    <3> QED BY <3>2, <3>3 DEF RowSays
  <2>5. CASE owner'[r] = None /\ owner[r] = d.inst /\ Clears(d, r)
    <3> PICK i \in Installs : i = d.inst
      BY <2>1
    <3>1. Placed(r, i, Len(inbox))
      BY <2>1, <2>5 DEF RowSays
    <3>2. Displaced(r)'
      BY <1>2, <2>5, <3>1, DisplacedBySent
    <3> QED BY <2>5, <3>2 DEF RowSays
  <2> QED BY <2>2, <2>3, <2>4, <2>5
<1> QED BY <1>5, <1>6, <1>7

LEMMA InstallationEventsOrder ==
  ASSUME TypeOK, OrderInv, NEW i \in Installs,
         \/ \E S \in SUBSET Repos : Install(i, S)
         \/ Suspend(i) \/ Unsuspend(i) \/ Uninstall(i)
  PROVE  OrderInv'
<1>1. /\ app \in [Installs -> {"absent", "active", "suspended", "gone"}]
      /\ owner \in [Repos -> Installs \cup {None}]
  BY DEF TypeOK
<1>2. ASSUME NEW S \in SUBSET Repos, Install(i, S) PROVE OrderInv'
  <2> PICK d : d = Delivery("created", i, S, {})
    OBVIOUS
  <2>1. d \in Deliveries /\ d.stage = "new" /\ d.inst = i /\ d.add = S /\ d.added = S /\ d.removed = {}
        /\ d.kind = "created"
    BY DeliveryShape DEF Kinds, Delivery
  <2>2. /\ app' = [app EXCEPT ![i] = "active"] /\ Happens(<<d>>)
        /\ owner' = [r \in Repos |-> IF r \in S THEN i ELSE owner[r]]
    BY <1>2 DEF Install
  <2>3. owner' \in [Repos -> Installs \cup {None}]
    BY <1>1, <2>2
  <2>4. \A j \in Installs : \/ app'[j] = app[j] /\ Agrees(d, j)
                            \/ d.inst = j /\ Tells(d) = app'[j]
    BY <1>1, <2>1, <2>2 DEF Agrees, Tells
  <2>5. \A r \in Repos : \/ owner'[r] = None /\ owner[r] = None /\ r \notin d.added
                         \/ owner'[r] # None /\ owner'[r] = owner[r] /\ Leaves(d, r, owner[r])
                         \/ owner'[r] = d.inst /\ r \in d.add
    BY <1>1, <2>1, <2>2 DEF Leaves, Takes
  <2> QED BY <2>1, <2>2, <2>3, <2>4, <2>5, OneDeliveryOrder
<1>3. CASE Suspend(i)
  <2> PICK d : d = Delivery("suspend", i, {}, {})
    OBVIOUS
  <2>1. d \in Deliveries /\ d.stage = "new" /\ d.inst = i /\ d.added = {} /\ d.removed = {}
        /\ d.kind = "suspend"
    BY DeliveryShape DEF Kinds, Delivery
  <2>2. /\ app' = [app EXCEPT ![i] = "suspended"] /\ Happens(<<d>>) /\ owner' = owner
    BY <1>3 DEF Suspend
  <2>3. \A j \in Installs : \/ app'[j] = app[j] /\ Agrees(d, j)
                            \/ d.inst = j /\ Tells(d) = app'[j]
    BY <1>1, <2>1, <2>2 DEF Agrees, Tells
  <2>4. \A r \in Repos : \/ owner'[r] = None /\ owner[r] = None /\ r \notin d.added
                         \/ owner'[r] # None /\ owner'[r] = owner[r] /\ Leaves(d, r, owner[r])
    BY <1>1, <2>1, <2>2 DEF Leaves, Takes
  <2> QED BY <1>1, <2>1, <2>2, <2>3, <2>4, OneDeliveryOrder
<1>4. CASE Unsuspend(i)
  <2> PICK d : d = Delivery("created", i, Of(i), {})
    OBVIOUS
  <2>1. d \in Deliveries /\ d.stage = "new" /\ d.inst = i /\ d.added = Of(i) /\ d.removed = {}
        /\ d.kind = "created"
    BY DeliveryShape DEF Kinds, Delivery, Of
  <2>2. /\ app' = [app EXCEPT ![i] = "active"] /\ Happens(<<d>>) /\ owner' = owner
    BY <1>4 DEF Unsuspend
  <2>3. \A j \in Installs : \/ app'[j] = app[j] /\ Agrees(d, j)
                            \/ d.inst = j /\ Tells(d) = app'[j]
    BY <1>1, <2>1, <2>2 DEF Agrees, Tells
  <2>4. \A r \in Repos : \/ owner'[r] = None /\ owner[r] = None /\ r \notin d.added
                         \/ owner'[r] # None /\ owner'[r] = owner[r] /\ Leaves(d, r, owner[r])
    BY <1>1, <2>1, <2>2, NoneAssumption DEF Leaves, Takes, Of
  <2> QED BY <1>1, <2>1, <2>2, <2>3, <2>4, OneDeliveryOrder
<1>5. CASE Uninstall(i)
  <2> PICK d : d = Delivery("deleted", i, {}, {})
    OBVIOUS
  <2>1. d \in Deliveries /\ d.stage = "new" /\ d.inst = i /\ d.added = {} /\ d.removed = {}
        /\ d.kind = "deleted"
    BY DeliveryShape DEF Kinds, Delivery
  <2>2. /\ app' = [app EXCEPT ![i] = "gone"] /\ Happens(<<d>>)
        /\ owner' = [r \in Repos |-> IF owner[r] = i THEN None ELSE owner[r]]
    BY <1>5 DEF Uninstall
  <2>3. owner' \in [Repos -> Installs \cup {None}]
    BY <1>1, <2>2
  <2>4. \A j \in Installs : \/ app'[j] = app[j] /\ Agrees(d, j)
                            \/ d.inst = j /\ Tells(d) = app'[j]
    BY <1>1, <2>1, <2>2 DEF Agrees, Tells
  <2>5. \A r \in Repos : \/ owner'[r] = None /\ owner[r] = None /\ r \notin d.added
                         \/ owner'[r] # None /\ owner'[r] = owner[r] /\ Leaves(d, r, owner[r])
                         \/ owner'[r] = None /\ owner[r] = d.inst /\ Clears(d, r)
    BY <1>1, <2>1, <2>2 DEF Leaves, Takes, Clears
  <2> QED BY <2>1, <2>2, <2>3, <2>4, <2>5, OneDeliveryOrder
<1> QED BY <1>2, <1>3, <1>4, <1>5

LEMMA RepositoryEventsOrder ==
  ASSUME TypeOK, OrderInv, NEW i \in Installs, NEW r \in Repos,
         AddRepository(i, r) \/ RemoveRepository(i, r) \/ PullRequest(r)
  PROVE  OrderInv'
<1>1. /\ app \in [Installs -> {"absent", "active", "suspended", "gone"}]
      /\ owner \in [Repos -> Installs \cup {None}]
  BY DEF TypeOK
<1>2. CASE AddRepository(i, r)
  <2> PICK d : d = Delivery("repositories", i, {r}, {})
    OBVIOUS
  <2>1. d \in Deliveries /\ d.stage = "new" /\ d.inst = i /\ d.add = {r} /\ d.added = {r} /\ d.removed = {}
        /\ d.kind = "repositories"
    BY DeliveryShape DEF Kinds, Delivery
  <2>2. app[i] = "active" /\ app' = app /\ owner' = [owner EXCEPT ![r] = i] /\ Happens(<<d>>)
    BY <1>2 DEF AddRepository
  <2>3. owner' \in [Repos -> Installs \cup {None}]
    BY <1>1, <2>2
  <2>4. \A j \in Installs : app'[j] = app[j] /\ Agrees(d, j)
    BY <2>1, <2>2 DEF Agrees, Tells
  <2>5. \A s \in Repos : \/ owner'[s] = None /\ owner[s] = None /\ s \notin d.added
                         \/ owner'[s] # None /\ owner'[s] = owner[s] /\ Leaves(d, s, owner[s])
                         \/ owner'[s] = d.inst /\ s \in d.add
    BY <1>1, <2>1, <2>2 DEF Leaves, Takes
  <2> QED BY <2>1, <2>2, <2>3, <2>4, <2>5, OneDeliveryOrder
<1>3. CASE RemoveRepository(i, r)
  <2> PICK d : d = Delivery("repositories", i, {}, {r})
    OBVIOUS
  <2>1. d \in Deliveries /\ d.stage = "new" /\ d.inst = i /\ d.added = {} /\ d.removed = {r} /\ d.remove = {r}
        /\ d.kind = "repositories"
    BY DeliveryShape DEF Kinds, Delivery
  <2>2. /\ app[i] = "active" /\ app' = app /\ owner' = [owner EXCEPT ![r] = None] /\ Happens(<<d>>)
        /\ owner[r] = i
    BY <1>3 DEF RemoveRepository
  <2>3. owner' \in [Repos -> Installs \cup {None}]
    BY <1>1, <2>2
  <2>4. \A j \in Installs : app'[j] = app[j] /\ Agrees(d, j)
    BY <2>1, <2>2 DEF Agrees, Tells
  <2>5. \A s \in Repos : \/ owner'[s] = None /\ owner[s] = None /\ s \notin d.added
                         \/ owner'[s] # None /\ owner'[s] = owner[s] /\ Leaves(d, s, owner[s])
                         \/ owner'[s] = None /\ owner[s] = d.inst /\ Clears(d, s)
    BY <1>1, <2>1, <2>2 DEF Leaves, Takes, Clears
  <2> QED BY <2>1, <2>2, <2>3, <2>4, <2>5, OneDeliveryOrder
<1>4. CASE PullRequest(r)
  <2> PICK d : d = Delivery("pull_request", owner[r], {r}, {})
    OBVIOUS
  <2>1. /\ app' = app /\ owner' = owner /\ owner[r] \in Installs /\ Happens(<<d>>)
    BY <1>1, <1>4 DEF PullRequest
  <2>2. d \in Deliveries /\ d.stage = "new" /\ d.inst = owner[r] /\ d.added = {r} /\ d.removed = {}
        /\ d.kind = "pull_request"
    BY <2>1, DeliveryShape DEF Kinds, Delivery
  <2>3. \A j \in Installs : app'[j] = app[j] /\ Agrees(d, j)
    BY <2>1, <2>2 DEF Agrees, Tells
  <2>4. \A s \in Repos : \/ owner'[s] = None /\ owner[s] = None /\ s \notin d.added
                         \/ owner'[s] # None /\ owner'[s] = owner[s] /\ Leaves(d, s, owner[s])
    BY <1>1, <2>1, <2>2, NoneAssumption DEF Leaves, Takes
  <2> QED BY <1>1, <2>1, <2>2, <2>3, <2>4, OneDeliveryOrder
<1> QED BY <1>2, <1>3, <1>4

\* A transfer, told by two deliveries of which the one at q brings.
LEMMA TransferOrder ==
  ASSUME TypeOK, OrderInv, NEW j \in Installs, NEW r \in Repos,
         NEW ds \in Seq(Deliveries), Happens(ds), app' = app, owner' = [owner EXCEPT ![r] = j],
         \A k \in 1..Len(ds) : /\ ds[k].stage = "new" /\ ds[k].kind = "repositories"
                               /\ app[ds[k].inst] = "active"
                               /\ ds[k].added \subseteq {r} /\ ds[k].removed \subseteq {r},
         NEW q \in 1..Len(ds), r \in ds[q].add, ds[q].inst = j,
         \A k \in 1..Len(ds) : k > q => Leaves(ds[k], r, j)
  PROVE  OrderInv'
<1>1. inbox' = inbox \o ds /\ inst' = inst /\ row' = row /\ late' = late /\ orderly' = orderly
  BY DEF Happens, tables
<1>2. owner \in [Repos -> Installs \cup {None}]
  BY DEF TypeOK
<1> SUFFICES ASSUME orderly
             PROVE  /\ (\A k \in 2..Len(inbox) : inbox[k].stage = "new")'
                    /\ \A i \in Installs \ late : InstallationShown(i)'
                    /\ \A s \in Repos \ late : RowSays(s)'
  BY <1>1 DEF OrderInv, RowSays
<1>3. /\ \A k \in 2..Len(inbox) : inbox[k].stage = "new"
      /\ \A i \in Installs \ late : InstallationShown(i)
      /\ \A s \in Repos \ late : RowSays(s)
  BY OrderParts
<1>4. (\A k \in 2..Len(inbox) : inbox[k].stage = "new")'
  BY <1>1, <1>3, NewSent
<1>5. ASSUME NEW i \in Installs \ late PROVE InstallationShown(i)'
  <2>1. \A k \in 1..Len(ds) : Agrees(ds[k], i)
    BY DEF Agrees, Tells
  <2>2. InstallationShown(i) /\ UNCHANGED inst /\ app'[i] = app[i]
    BY <1>1, <1>3
  <2> QED BY <1>1, <2>1, <2>2, ShownBefore
<1>6. ASSUME NEW s \in Repos \ late PROVE RowSays(s)'
  <2>1. CASE s = r
    <3>1. Placed(s, j, Len(inbox))'
      BY <1>1, <2>1, PlacedBySent
    <3>2. owner'[s] = j /\ j # None
      BY <1>2, <2>1, NoneAssumption
    <3> QED BY <3>1, <3>2 DEF RowSays
  <2>2. CASE s # r /\ owner[s] = None
    <3>1. Displaced(s) /\ \A k \in 1..Len(ds) : s \notin ds[k].added
      BY <1>3, <2>2 DEF RowSays
    <3>2. Displaced(s)'
      BY <1>1, <3>1, DisplacedBefore
    <3>3. owner'[s] = None
      BY <1>2, <2>2
    <3> QED BY <3>2, <3>3 DEF RowSays
  <2>3. CASE s # r /\ owner[s] # None
    <3> PICK i \in Installs : i = owner[s]
      BY <1>2, <2>3
    <3>1. Placed(s, i, Len(inbox)) /\ \A k \in 1..Len(ds) : Leaves(ds[k], s, i)
      BY <1>3, <2>3 DEF RowSays, Leaves, Takes
    <3>2. Placed(s, i, Len(inbox))'
      BY <1>1, <3>1, PlacedSent
    <3>3. owner'[s] = i /\ i # None
      BY <1>2, <2>3
    <3> QED BY <3>2, <3>3 DEF RowSays
  <2> QED BY <2>1, <2>2, <2>3
<1> QED BY <1>4, <1>5, <1>6

LEMMA TransferEventOrder ==
  ASSUME TypeOK, OrderInv, NEW i \in Installs, NEW j \in Installs, NEW r \in Repos,
         Transfer(r, i, j)
  PROVE  OrderInv'
<1> PICK goes : goes = Delivery("repositories", i, {}, {r})
  OBVIOUS
<1> PICK comes : comes = Delivery("repositories", j, {r}, {})
  OBVIOUS
<1>1. goes \in Deliveries /\ comes \in Deliveries
  BY DeliveryShape DEF Kinds
<1>2. /\ app[i] = "active" /\ app[j] = "active" /\ i # j
      /\ owner' = [owner EXCEPT ![r] = j] /\ app' = app
      /\ Happens(<<goes, comes>>) \/ Happens(<<comes, goes>>)
  BY DEF Transfer
<1>3. /\ goes.stage = "new" /\ goes.kind = "repositories" /\ goes.inst = i
      /\ goes.added = {} /\ goes.removed = {r}
      /\ comes.stage = "new" /\ comes.kind = "repositories" /\ comes.inst = j
      /\ comes.added = {r} /\ comes.removed = {} /\ comes.add = {r}
  BY DEF Delivery
<1>4. CASE Happens(<<goes, comes>>)
  <2> PICK ds : ds = <<goes, comes>>
    OBVIOUS
  <2>1. ds \in Seq(Deliveries) /\ Len(ds) = 2 /\ ds[1] = goes /\ ds[2] = comes
    BY <1>1, TwoSent
  <2>2. \A k \in 1..Len(ds) : k = 1 \/ k = 2
    BY <2>1
  <2>3. Happens(ds)
    BY <1>4
  <2>4. \A k \in 1..Len(ds) : /\ ds[k].stage = "new" /\ ds[k].kind = "repositories"
                              /\ app[ds[k].inst] = "active"
                              /\ ds[k].added \subseteq {r} /\ ds[k].removed \subseteq {r}
    <3>1. \A k \in 1..Len(ds) : ds[k] \in {goes, comes}
      BY ONLY <2>1, <2>2
    <3>2. \A d \in {goes, comes} : /\ d.stage = "new" /\ d.kind = "repositories"
                                   /\ app[d.inst] = "active"
                                   /\ d.added \subseteq {r} /\ d.removed \subseteq {r}
      BY ONLY <1>2, <1>3
    <3> QED BY ONLY <3>1, <3>2
  <2> PICK q \in 1..Len(ds) : q = 2
    BY <2>1
  <2>5. /\ r \in ds[q].add /\ ds[q].inst = j
        /\ \A k \in 1..Len(ds) : k > q => Leaves(ds[k], r, j)
    BY <1>3, <2>1
  <2>6. app' = app /\ owner' = [owner EXCEPT ![r] = j] /\ ds \in Seq(Deliveries)
    BY <1>2, <2>1
  <2>7. TypeOK /\ OrderInv /\ q \in 1..Len(ds) /\ j \in Installs /\ r \in Repos
    OBVIOUS
  <2> QED BY ONLY <2>3, <2>4, <2>5, <2>6, <2>7, TransferOrder
<1>5. CASE Happens(<<comes, goes>>)
  <2> PICK ds : ds = <<comes, goes>>
    OBVIOUS
  <2>1. ds \in Seq(Deliveries) /\ Len(ds) = 2 /\ ds[1] = comes /\ ds[2] = goes
    BY <1>1, TwoSent
  <2>2. \A k \in 1..Len(ds) : k = 1 \/ k = 2
    BY <2>1
  <2>3. Happens(ds)
    BY <1>5
  <2>4. \A k \in 1..Len(ds) : /\ ds[k].stage = "new" /\ ds[k].kind = "repositories"
                              /\ app[ds[k].inst] = "active"
                              /\ ds[k].added \subseteq {r} /\ ds[k].removed \subseteq {r}
    <3>1. \A k \in 1..Len(ds) : ds[k] \in {goes, comes}
      BY ONLY <2>1, <2>2
    <3>2. \A d \in {goes, comes} : /\ d.stage = "new" /\ d.kind = "repositories"
                                   /\ app[d.inst] = "active"
                                   /\ d.added \subseteq {r} /\ d.removed \subseteq {r}
      BY ONLY <1>2, <1>3
    <3> QED BY ONLY <3>1, <3>2
  <2>5. Leaves(goes, r, j)
    BY <1>2, <1>3 DEF Leaves, Takes
  <2> PICK q \in 1..Len(ds) : q = 1
    BY <2>1
  <2>6. /\ r \in ds[q].add /\ ds[q].inst = j
        /\ \A k \in 1..Len(ds) : k > q => Leaves(ds[k], r, j)
    BY <1>3, <2>1, <2>2, <2>5
  <2>7. app' = app /\ owner' = [owner EXCEPT ![r] = j] /\ ds \in Seq(Deliveries)
    BY <1>2, <2>1
  <2>8. TypeOK /\ OrderInv /\ q \in 1..Len(ds) /\ j \in Installs /\ r \in Repos
    OBVIOUS
  <2> QED BY ONLY <2>3, <2>4, <2>6, <2>7, <2>8, TransferOrder
<1> QED BY <1>2, <1>4, <1>5

LEMMA GitHubOrder == ASSUME TypeOK, OrderInv, GitHub PROVE OrderInv'
<1>1. \A r \in Repos : PullRequest(r) => owner[r] \in Installs
  BY DEF PullRequest, TypeOK
<1> QED BY <1>1, InstallationEventsOrder, RepositoryEventsOrder, TransferEventOrder DEF GitHub

\* The first delivery is being handled.
LEMMA HandlingOrder ==
  ASSUME TypeOK, KnowledgeInv, OrderInv, orderly, 1 \in DOMAIN inbox,
         NEW f, f = inbox[1], NEW d \in Deliveries, Progress(1, d), Kept(f, d),
         UNCHANGED <<github, late>>,
         \A r \in Repos : RowEffect(f, d, r),
         \A i \in Installs : InstEffect(f, d, i)
  PROVE  OrderInv'
<1> PICK n \in Nat : n = Len(inbox)
  BY InboxShape
<1>1. n \in Nat \ {0} /\ n = Len(inbox)
  BY InboxShape
<1>2. /\ Len(inbox') = n /\ inbox'[1] = d
      /\ \A x \in 2..n : inbox'[x] = inbox[x]
  BY ProgressShape
<1>3. app' = app /\ owner' = owner /\ late' = late /\ orderly' = orderly
  BY DEF github
<1>4. /\ \A k \in 2..n : inbox[k].stage = "new"
      /\ \A i \in Installs \ late : InstallationShown(i)
      /\ \A r \in Repos \ late : RowSays(r)
  BY OrderParts
<1>5. (\A k \in 2..Len(inbox) : inbox[k].stage = "new")'
  BY <1>2, <1>4
<1>6. ASSUME NEW i \in Installs \ late PROVE InstallationShown(i)'
  <2>1. InstallationShown(i) /\ InstEffect(f, d, i)
    BY <1>4
  <2>2. d = inbox'[1] /\ \A x \in 2..n : inbox'[x] = inbox[x] /\ inbox[x].stage = "new"
    BY <1>2, <1>4
  <2> QED BY <1>1, <1>2, <1>3, <2>1, <2>2, ShownHandling
<1>7. DeliveryIsSane(f)
  BY DEF KnowledgeInv
<1>8. ASSUME NEW r \in Repos \ late PROVE RowSays(r)'
  <2>1. d = inbox'[1] /\ RowEffect(f, d, r)
    BY <1>2
  <2>2. CASE owner[r] = None
    <3>1. Displaced(r)
      BY <1>4, <2>2 DEF RowSays
    <3>2. Displaced(r)'
      BY <1>1, <1>2, <1>7, <2>1, <3>1, DisplacedHandling
    <3> QED BY <1>3, <2>2, <3>2 DEF RowSays
  <2>3. CASE owner[r] # None
    <3> PICK i \in Installs : i = owner[r]
      BY <2>3 DEF TypeOK
    <3>1. Placed(r, i, n)
      BY <1>4, <2>3 DEF RowSays
    <3>2. Placed(r, i, n)'
      BY <1>1, <1>2, <1>7, <2>1, <3>1, PlacedHandling
    <3>3. Len(inbox') = n /\ owner'[r] = i /\ i # None
      BY <1>2, <1>3, <2>3
    <3> QED BY <3>2, <3>3 DEF RowSays
  <2> QED BY <2>2, <2>3
<1> QED BY <1>3, <1>5, <1>6, <1>8 DEF OrderInv, RowSays

LEMMA DoneOrder ==
  ASSUME TypeOK, KnowledgeInv, OrderInv, orderly, 1 \in DOMAIN inbox,
         HandleEnd(1), UNCHANGED <<github, late>>
  PROVE  OrderInv'
<1> PICK n \in Nat : n = Len(inbox)
  BY InboxShape
<1>1. n \in Nat \ {0} /\ n = Len(inbox)
  BY InboxShape
<1> PICK f \in Deliveries : f = inbox[1]
  BY InboxShape
<1>2. inbox' = RemoveAt(inbox, 1) /\ inst' = inst /\ row' = row
  BY DEF HandleEnd, tables
<1>3. Len(inbox') = n - 1 /\ \A x \in 1..(n - 1) : inbox'[x] = inbox[x + 1]
  <2>1. /\ Len(inbox') = n - 1
        /\ \A x \in 1..(n - 1) : inbox'[x] = inbox[IF x < 1 THEN x ELSE x + 1]
    BY <1>2, RemoveShape
  <2>2. \A x \in 1..(n - 1) : ~(x < 1)
    OBVIOUS
  <2> QED BY <2>1, <2>2
<1>4. app' = app /\ owner' = owner /\ late' = late /\ orderly' = orderly
  BY DEF github
<1>5. /\ \A k \in 2..n : inbox[k].stage = "new"
      /\ \A i \in Installs \ late : InstallationShown(i)
      /\ \A r \in Repos \ late : RowSays(r)
  BY OrderParts
<1>6. /\ DeliveryIsSane(f)
      /\ \/ f.stage = "done"
         \/ f.stage = "begun" /\ f.kind # "suspend" /\ f.add = {} /\ f.remove = {}
  BY DEF KnowledgeInv, HandleEnd
<1>7. f.add = {} /\ f.remove = {} /\ f.stage # "new" /\ ~WillTell(f)
  BY <1>6 DEF DeliveryIsSane, WillTell
<1>8. (\A k \in 2..Len(inbox) : inbox[k].stage = "new")'
  BY <1>3, <1>5
<1>9. ASSUME NEW i \in Installs \ late PROVE InstallationShown(i)'
  <2>1. InstallationShown(i) /\ ~WillTell(inbox[1])
    BY <1>5, <1>7
  <2> QED BY <1>1, <1>2, <1>3, <1>4, <2>1, ShownDone
<1>10. ASSUME NEW r \in Repos \ late PROVE RowSays(r)'
  <2>1. inbox[1].add = {} /\ ~Clears(inbox[1], r) /\ r \notin inbox[1].add /\ row'[r] = row[r]
    BY <1>2, <1>7 DEF Clears
  <2>2. CASE owner[r] = None
    <3>1. Displaced(r)
      BY <1>5, <2>2 DEF RowSays
    <3>2. Displaced(r)'
      BY <1>1, <1>3, <2>1, <3>1, DisplacedDone
    <3> QED BY <1>4, <2>2, <3>2 DEF RowSays
  <2>3. CASE owner[r] # None
    <3> PICK i \in Installs : i = owner[r]
      BY <2>3 DEF TypeOK
    <3>1. Placed(r, i, n)
      BY <1>5, <2>3 DEF RowSays
    <3>2. Placed(r, i, n - 1)'
      BY <1>1, <1>3, <2>1, <3>1, PlacedDone
    <3>3. Len(inbox') = n - 1 /\ owner'[r] = i /\ i # None
      BY <1>3, <1>4, <2>3
    <3> QED BY <3>2, <3>3 DEF RowSays
  <2> QED BY <2>2, <2>3
<1> QED BY <1>4, <1>8, <1>9, <1>10 DEF OrderInv, RowSays

\* A login writes, or does nothing to the tables.
LEMMA WriteOrder ==
  ASSUME TypeOK, OrderInv, UNCHANGED <<github, inbox>>, late \subseteq late',
         \A i \in Installs \ late' : inst'[i] = inst[i] \/ (inst'[i] = RowFor("active") /\ app[i] = "active"),
         \A r \in Repos \ late' : row'[r] = row[r] \/ (row'[r] = owner[r] /\ owner[r] # None)
  PROVE  OrderInv'
<1> SUFFICES ASSUME orderly PROVE OrderInv'
  BY DEF OrderInv, github
<1>1. app' = app /\ owner' = owner /\ orderly' = orderly /\ inbox' = inbox
  BY DEF github
<1> PICK n \in Nat : n = Len(inbox)
  BY InboxShape
<1>2. /\ \A k \in 2..n : inbox[k].stage = "new"
      /\ \A i \in Installs \ late : InstallationShown(i)
      /\ \A r \in Repos \ late : RowSays(r)
  BY OrderParts
<1>3. ASSUME NEW i \in Installs \ late' PROVE InstallationShown(i)'
  <2>1. InstallationShown(i) /\ (inst'[i] = inst[i] \/ (inst'[i] = RowFor("active") /\ app[i] = "active"))
    BY <1>2
  <2> QED BY <1>1, <2>1, ShownStays
<1>4. ASSUME NEW r \in Repos \ late' PROVE RowSays(r)'
  <2>1. RowSays(r) /\ (row'[r] = row[r] \/ (row'[r] = owner[r] /\ owner[r] # None))
    BY <1>2
  <2>2. CASE owner[r] = None
    <3>1. Displaced(r) /\ row'[r] = row[r]
      BY <2>1, <2>2 DEF RowSays
    <3>2. Displaced(r)'
      BY <1>1, <3>1, DisplacedStays
    <3> QED BY <1>1, <2>2, <3>2 DEF RowSays
  <2>3. CASE owner[r] # None
    <3> PICK i \in Installs : i = owner[r]
      BY <2>3 DEF TypeOK
    <3>1. Placed(r, i, n) /\ (row'[r] = row[r] \/ row'[r] = i)
      BY <2>1, <2>3 DEF RowSays
    <3>2. \A x \in 1..n : inbox'[x] = inbox[x]
      BY <1>1
    <3>3. Placed(r, i, n)'
      BY <3>1, <3>2, PlacedBefore
    <3>4. Len(inbox') = n /\ owner'[r] = i /\ i # None
      BY <1>1, <2>3
    <3> QED BY <3>3, <3>4 DEF RowSays
  <2> QED BY <2>2, <2>3
<1>5. (\A k \in 2..Len(inbox) : inbox[k].stage = "new")'
  BY <1>1, <1>2
<1> QED BY <1>3, <1>4, <1>5 DEF OrderInv, RowSays

LEMMA LoginOrder == ASSUME TypeOK, KnowledgeInv, OrderInv, Login PROVE OrderInv'
<1>1. /\ UNCHANGED <<github, inbox>>
      /\ inst \in [Installs -> [there : BOOLEAN, suspended : BOOLEAN, deleted : BOOLEAN]]
      /\ row \in [Repos -> Installs \cup {None}]
  BY DEF Login, ListInstallations, ReadRepositories, LoginUpserts, LoginEnsures, LoginContinues, LoginEnds,
         TypeOK
<1>2. CASE LoginUpserts
  <2>1. login.at \in Installs /\ UpsertInstallation(login.at) /\ row' = row
        /\ late' = late \cup (IF app[login.at] = "active" THEN {} ELSE {login.at})
    BY <1>2 DEF LoginUpserts, KnowledgeInv
  <2>2. inst'[login.at] = RowFor("active") /\ \A j \in Installs : j # login.at => inst'[j] = inst[j]
    BY <2>1, UpsertShape
  <2>3. \A i \in Installs \ late' : inst'[i] = inst[i] \/ (inst'[i] = RowFor("active") /\ app[i] = "active")
    BY <2>1, <2>2
  <2> QED BY <1>1, <2>1, <2>3, WriteOrder
<1>3. ASSUME NEW s \in Repos, LoginEnsures(s) PROVE OrderInv'
  <2>1. login.at \in Installs /\ row' = [row EXCEPT ![s] = login.at] /\ inst' = inst
        /\ late' = late \cup (IF owner[s] = login.at THEN {} ELSE {s})
    BY <1>3 DEF LoginEnsures, EnsureRepository, KnowledgeInv
  <2>2. \A r \in Repos \ late' : row'[r] = row[r] \/ (row'[r] = owner[r] /\ owner[r] # None)
    BY <1>1, <2>1, NoneAssumption
  <2>3. late \subseteq late' /\ \A i \in Installs \ late' : inst'[i] = inst[i]
    BY <2>1
  <2> QED BY <1>1, <2>2, <2>3, WriteOrder
<1>4. ASSUME inst' = inst, row' = row, late' = late PROVE OrderInv'
  BY <1>1, <1>4, WriteOrder
<1> QED BY <1>2, <1>3, <1>4 DEF Login, ListInstallations, ReadRepositories, LoginContinues, LoginEnds, tables

\* In orderly mode the first delivery is the one that is handled.
LEMMA HandleOrder ==
  ASSUME TypeOK, KnowledgeInv, OrderInv, orderly, 1 \in DOMAIN inbox, Handle(1) \/ HandleFails(1)
  PROVE  OrderInv'
<1> PICK f \in Deliveries : f = inbox[1]
  BY InboxShape
<1>1. DeliveryIsSane(f)
  BY DEF KnowledgeInv
<1>2. /\ f.kind \in Kinds /\ f.inst \in Installs /\ f.added \subseteq Repos /\ f.removed \subseteq Repos
      /\ f.stage \in {"new", "begun", "done"} /\ f.add \subseteq Repos /\ f.remove \subseteq Repos
  BY DEF Deliveries
<1>3. /\ inst \in [Installs -> [there : BOOLEAN, suspended : BOOLEAN, deleted : BOOLEAN]]
      /\ row \in [Repos -> Installs \cup {None}]
      /\ app \in [Installs -> {"absent", "active", "suspended", "gone"}]
  BY DEF TypeOK
<1>4. UNCHANGED <<github, late>>
  BY DEF Handle, HandleFails
<1>5. CASE HandleUpsert(1)
  <2> PICK d : d = [f EXCEPT !.stage = "begun"]
    OBVIOUS
  <2>1. /\ d \in Deliveries /\ Kept(f, d) /\ d.add = f.add /\ d.remove = f.remove /\ d.stage = "begun"
        /\ d.kind = f.kind /\ d.inst = f.inst
    BY DEF Deliveries, Kept
  <2>2. /\ f.kind \in {"created", "suspend", "repositories"} /\ f.stage = "new"
        /\ UpsertInstallation(f.inst) /\ Progress(1, d) /\ row' = row
    BY <1>5 DEF HandleUpsert
  <2>3. /\ inst'[f.inst] = RowFor("active")
        /\ \A i \in Installs : i # f.inst => inst'[i] = inst[i]
    BY <1>2, <2>2, UpsertShape
  <2>4. ASSUME NEW r \in Repos PROVE RowEffect(f, d, r)
    BY <2>1, <2>2 DEF RowEffect, Clears, Leaves
  <2>5. ASSUME NEW i \in Installs PROVE InstEffect(f, d, i)
    <3>1. CASE f.inst # i
      BY <2>3, <3>1 DEF InstEffect
    <3>2. CASE f.inst = i /\ f.kind = "suspend"
      <4>1. Tells(f) = "suspended" /\ WillTell(d)'
        BY <2>1, <2>3, <3>2 DEF Tells, WillTell
      <4> QED BY <3>2, <4>1 DEF InstEffect
    <3>3. CASE f.inst = i /\ f.kind # "suspend"
      <4>1. Tells(f) = "active"
        BY <2>2, <3>3 DEF Tells
      <4> QED BY <2>3, <3>3, <4>1 DEF InstEffect
    <3> QED BY <3>1, <3>2, <3>3
  <2> QED BY <1>4, <2>1, <2>2, <2>4, <2>5, HandlingOrder
<1>6. CASE HandleSuspend(1)
  <2> PICK d : d = [f EXCEPT !.stage = "done"]
    OBVIOUS
  <2>1. d \in Deliveries /\ Kept(f, d) /\ d.add = f.add /\ d.remove = f.remove
    BY DEF Deliveries, Kept
  <2>2. /\ f.kind = "suspend" /\ f.stage = "begun"
        /\ SuspendInstallation(f.inst) /\ Progress(1, d) /\ row' = row
    BY <1>6 DEF HandleSuspend
  <2>3. /\ inst[f.inst] = RowFor("active") => inst'[f.inst] = RowFor("suspended")
        /\ \A i \in Installs : i # f.inst => inst'[i] = inst[i]
    BY <1>2, <2>2, SuspendShape
  <2>4. inst[f.inst] = RowFor("suspended") => inst'[f.inst] = RowFor("suspended")
    <3>1. inst[f.inst] \in [there : BOOLEAN, suspended : BOOLEAN, deleted : BOOLEAN]
      BY <1>2, <1>3
    <3> QED BY <1>2, <1>3, <2>2, <3>1 DEF SuspendInstallation, RowFor
  <2>5. ASSUME NEW r \in Repos PROVE RowEffect(f, d, r)
    BY <2>1, <2>2 DEF RowEffect, Clears, Leaves
  <2>6. ASSUME NEW i \in Installs PROVE InstEffect(f, d, i)
    <3>1. CASE f.inst # i
      BY <2>3, <3>1 DEF InstEffect
    <3>2. CASE f.inst = i
      <4>1. Tells(f) = "suspended" /\ (WillTell(f) => inst[i] = RowFor("active"))
        BY <2>2, <3>2 DEF Tells, WillTell
      <4>2. app[i] = "suspended" /\ (inst[i] = RowFor(app[i]) \/ WillTell(f)) => inst'[i] = RowFor(app[i])
        BY <2>3, <2>4, <3>2, <4>1
      <4> QED BY <3>2, <4>1, <4>2 DEF InstEffect
    <3> QED BY <3>1, <3>2
  <2> QED BY <1>4, <2>1, <2>2, <2>5, <2>6, HandlingOrder
<1>7. CASE HandleDeleted(1)
  <2> PICK d : d = [f EXCEPT !.stage = "done"]
    OBVIOUS
  <2>1. d \in Deliveries /\ Kept(f, d) /\ d.add = f.add /\ d.remove = f.remove
    BY DEF Deliveries, Kept
  <2>2. f.kind = "deleted" /\ DeleteInstallation(f.inst) /\ Progress(1, d)
    BY <1>7 DEF HandleDeleted
  <2>3. /\ inst'[f.inst] = RowFor("gone")
        /\ \A i \in Installs : i # f.inst => inst'[i] = inst[i]
        /\ \A r \in Repos : row'[r] = IF row[r] = f.inst THEN None ELSE row[r]
    BY <1>2, <2>2, DeleteShape
  <2>4. ASSUME NEW r \in Repos PROVE RowEffect(f, d, r)
    BY <1>2, <2>1, <2>2, <2>3 DEF RowEffect, Clears, Leaves, Takes
  <2>5. ASSUME NEW i \in Installs PROVE InstEffect(f, d, i)
    <3>1. CASE f.inst # i
      BY <2>3, <3>1 DEF InstEffect
    <3>2. CASE f.inst = i
      <4>1. Tells(f) = "gone"
        BY <2>2 DEF Tells
      <4> QED BY <2>3, <3>2, <4>1 DEF InstEffect
    <3> QED BY <3>1, <3>2
  <2> QED BY <1>4, <2>1, <2>2, <2>4, <2>5, HandlingOrder
<1>8. ASSUME NEW s \in Repos, HandleAdded(1, s) PROVE OrderInv'
  <2> PICK d : d = [f EXCEPT !.stage = "begun", !.add = @ \ {s}]
    OBVIOUS
  <2>1. d \in Deliveries /\ Kept(f, d) /\ d.add = f.add \ {s} /\ d.remove = f.remove
    BY DEF Deliveries, Kept
  <2>2. /\ s \in f.add
        /\ f.stage = "begun" \/ f.kind = "pull_request"
        /\ row' = [row EXCEPT ![s] = f.inst] /\ Progress(1, d) /\ inst' = inst
    BY <1>8 DEF HandleAdded, EnsureRepository
  <2>3. s \in f.added /\ f.kind \notin {"suspend", "deleted"} /\ s \notin f.remove
    BY <1>1, <2>2 DEF DeliveryIsSane
  <2>4. ASSUME NEW r \in Repos PROVE RowEffect(f, d, r)
    BY <1>2, <1>3, <2>1, <2>2, <2>3 DEF RowEffect, Clears, Leaves, Takes
  <2>5. ASSUME NEW i \in Installs PROVE InstEffect(f, d, i)
    <3>1. Tells(f) = app[i] => ~WillTell(f)
      BY <1>3, <2>2, <2>3 DEF Tells, WillTell
    <3> QED BY <2>2, <3>1 DEF InstEffect
  <2> QED BY <1>4, <2>1, <2>2, <2>4, <2>5, HandlingOrder
<1>9. ASSUME NEW s \in Repos, HandleRemoved(1, s) PROVE OrderInv'
  <2> PICK d : d = [f EXCEPT !.remove = @ \ {s}]
    OBVIOUS
  <2>1. d \in Deliveries /\ Kept(f, d) /\ d.add = f.add /\ d.remove = f.remove \ {s} /\ d.stage = f.stage
        /\ d.kind = f.kind
    BY DEF Deliveries, Kept
  <2>2. /\ f.stage = "begun" /\ f.add = {} /\ s \in f.remove /\ Progress(1, d) /\ inst' = inst
        /\ row' = [row EXCEPT ![s] = IF @ = f.inst THEN None ELSE @]
    BY <1>9 DEF HandleRemoved, DeleteRepositoryByGitHubID
  <2>3. s \in f.removed /\ f.kind \notin {"suspend", "deleted"}
    BY <1>1, <2>2 DEF DeliveryIsSane
  <2>4. ASSUME NEW r \in Repos PROVE RowEffect(f, d, r)
    BY <1>2, <1>3, <2>1, <2>2, <2>3 DEF RowEffect, Clears, Leaves, Takes
  <2>5. ASSUME NEW i \in Installs PROVE InstEffect(f, d, i)
    <3>1. ~WillTell(f)
      BY <2>2, <2>3 DEF WillTell
    <3> QED BY <2>2, <3>1 DEF InstEffect
  <2> QED BY <1>4, <2>1, <2>2, <2>4, <2>5, HandlingOrder
<1>10. CASE HandleEnd(1)
  BY <1>4, <1>10, DoneOrder
<1>11. CASE HandleFails(1)
  <2> PICK d : d = Delivery(f.kind, f.inst, f.added, f.removed)
    OBVIOUS
  <2>1. /\ d \in Deliveries /\ Kept(f, d) /\ d.add = f.added /\ d.remove = f.removed /\ d.stage = "new"
        /\ d.kind = f.kind
    BY <1>2, DeliveryShape DEF Delivery, Kept
  <2>2. Progress(1, d) /\ inst' = inst /\ row' = row
    BY <1>11 DEF HandleFails, tables
  <2>3. f.add \subseteq f.added /\ f.remove \subseteq f.removed
    BY <1>1 DEF DeliveryIsSane
  <2>4. ASSUME NEW r \in Repos PROVE RowEffect(f, d, r)
    BY <2>1, <2>2, <2>3 DEF RowEffect, Clears, Leaves
  <2>5. ASSUME NEW i \in Installs PROVE InstEffect(f, d, i)
    <3>1. WillTell(d)'
      BY <2>1 DEF WillTell
    <3> QED BY <2>2, <3>1 DEF InstEffect
  <2> QED BY <1>4, <2>1, <2>2, <2>4, <2>5, HandlingOrder
<1> QED BY <1>2, <1>5, <1>6, <1>7, <1>8, <1>9, <1>10, <1>11 DEF Handle

LEMMA NextOrder == ASSUME TypeOK, KnowledgeInv, OrderInv, [Next]_vars PROVE OrderInv'
<1>1. CASE UNCHANGED vars
  <2>1. /\ UNCHANGED <<github, inbox>> /\ late' = late /\ inst' = inst /\ row' = row
    BY <1>1 DEF vars, tables
  <2> QED BY <2>1, WriteOrder
<1>2. ASSUME NEW k \in Handled, Handle(k) \/ HandleFails(k) PROVE OrderInv'
  <2>1. orderly' = orderly
    BY <1>2 DEF Handle, HandleFails, github
  <2>2. CASE ~orderly
    BY <2>1, <2>2 DEF OrderInv
  <2>3. CASE orderly
    <3>1. k = 1 /\ 1 \in DOMAIN inbox
      BY <2>3 DEF Handled
    <3> QED BY <1>2, <2>3, <3>1, HandleOrder
  <2> QED BY <2>2, <2>3
<1> QED BY <1>1, <1>2, GitHubOrder, LoginOrder DEF Next

-----------------------------------------------------------------------------
(* The theorems *)

\* The inductive invariant of the tables, the deliveries and what GitHub knows.
THEOREM InstallationsInvariance == Spec => []IInv
<1>1. Init => IInv
  BY InitKnowledge, InitOrder DEF IInv
<1>2. IInv /\ [Next]_vars => IInv'
  BY TypesAndKnowledge, NextOrder DEF IInv
<1> QED BY <1>1, <1>2, PTL DEF Spec

\* The content of a repository is deleted for an installation it has left, or
\* that is gone: however late a delivery is, and however often it is repeated.
THEOREM DeletedOnlyWhenLeft == Spec => DeletedWhenLeft
<1>1. ASSUME IInv, [Next]_vars
      PROVE  [\A r \in Repos : row[r] # None /\ row'[r] = None => <<r, row[r]>> \in left']_vars
  BY <1>1, NextDeletes DEF IInv
<1> QED BY <1>1, InstallationsInvariance, PTL DEF Spec, DeletedWhenLeft

\* Deliveries that are handled in the order they were sent leave the rows that
\* GitHub's own state calls for, whatever failed and whoever logged in.
THEOREM SettledRows == Spec => []SettledRowsAgree
<1>1. ASSUME IInv PROVE SettledRowsAgree
  <2> SUFFICES ASSUME orderly, Settled
               PROVE  /\ \A i \in Installs \ late : inst[i] = RowFor(app[i])
                      /\ \A r \in Repos \ late : row[r] = owner[r]
    BY DEF SettledRowsAgree, RowFor
  <2>1. Len(inbox) = 0 /\ 0..Len(inbox) = {0}
    BY DEF Settled
  <2>2. OrderInv
    BY <1>1 DEF IInv
  <2>3. ASSUME NEW i \in Installs \ late PROVE inst[i] = RowFor(app[i])
    <3>1. InstallationShown(i)
      BY <2>2 DEF OrderInv
    <3> QED BY <2>1, <3>1 DEF InstallationShown
  <2>4. ASSUME NEW r \in Repos \ late PROVE row[r] = owner[r]
    <3>1. RowSays(r)
      BY <2>2, OrderParts
    <3> QED BY <2>1, <3>1 DEF RowSays, Displaced, Placed
  <2> QED BY <2>3, <2>4
<1> QED BY <1>1, InstallationsInvariance, PTL
=============================================================================
