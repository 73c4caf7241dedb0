-------------------------- MODULE CredentialsProofs -------------------------
(***************************************************************************)
(* Proofs about module Credentials, for every set of processes, arguments  *)
(* and contents of Connect's storage, and about the list of profiles that  *)
(* is made of them.                                                        *)
(***************************************************************************)
EXTENDS Credentials, Induction

-----------------------------------------------------------------------------
(* Profiles: the list discovery makes, by induction over their number. *)

Listed == [id : Nat \ {0}, name : Nat, username : Nat, saved_password : BOOLEAN]

\* Profiles of distinct identifiers.
Distinct(S) == S \in SUBSET Listed /\ IsFiniteSet(S) /\ \A p, q \in S : p.id = q.id => p = q

Enumerates(s, S) ==
    s \in [1 .. Cardinality(S) -> S] /\ \A i, j \in DOMAIN s : i < j => Before(s[i], s[j])

\* Before is a strict order of such profiles, and total.
LEMMA BeforeOrders ==
  ASSUME NEW S, Distinct(S)
  PROVE  /\ \A p \in S : ~ Before(p, p)
         /\ \A p, q \in S : p # q => Before(p, q) \/ Before(q, p)
         /\ \A p, q, r \in S : Before(p, q) /\ Before(q, r) => Before(p, r)
<1>1. \A p \in S : p.id \in Nat /\ p.name \in Nat
  BY DEF Distinct, Listed
<1>2. \A p, q \in S : p # q => p.id # q.id
  BY DEF Distinct
<1>3. \A p \in S : ~ Before(p, p)
  BY <1>1 DEF Before
<1>4. \A p, q \in S : p # q => Before(p, q) \/ Before(q, p)
  BY <1>1, <1>2 DEF Before
<1>5. \A p, q, r \in S : Before(p, q) /\ Before(q, r) => Before(p, r)
  BY <1>1 DEF Before
<1> QED BY <1>3, <1>4, <1>5

\* Taking one out of a finite set of distinct profiles leaves one of them fewer.
LEMMA DistinctSubset ==
  ASSUME NEW S, Distinct(S), NEW x
  PROVE  Distinct(S \ {x}) /\ (x \in S => Cardinality(S \ {x}) + 1 = Cardinality(S))
         /\ Cardinality(S) \in Nat
<1>1. IsFiniteSet(S)
  BY DEF Distinct
<1>2. IsFiniteSet(S \ {x}) /\ Cardinality(S) \in Nat
      /\ Cardinality(S \ {x}) = IF x \in S THEN Cardinality(S) - 1 ELSE Cardinality(S)
  BY <1>1, FS_RemoveElement, FS_CardinalityType
<1> QED BY <1>2 DEF Distinct

\* One of them is the last.
LastIn(S) == \E m \in S : \A p \in S \ {m} : Before(p, m)

\* Every such set that is not empty has a last one in the order of the list.
LEMMA LastExists == \A S : Distinct(S) /\ S # {} => LastIn(S)
<1> DEFINE T == { n \in Nat : \A S : Distinct(S) /\ Cardinality(S) = n /\ S # {} => LastIn(S) }
<1>1. 0 \in T
  <2>1. \A S : Distinct(S) /\ Cardinality(S) = 0 => S = {}
    BY FS_EmptySet DEF Distinct
  <2> QED BY <2>1
<1>2. ASSUME NEW n \in T PROVE n + 1 \in T
  <2> SUFFICES ASSUME NEW S, Distinct(S), Cardinality(S) = n + 1, S # {} PROVE LastIn(S)
    OBVIOUS
  <2>1. PICK x : x \in S
    OBVIOUS
  <2>2. Distinct(S \ {x}) /\ Cardinality(S \ {x}) = n
    <3>1. Cardinality(S \ {x}) + 1 = n + 1 /\ Distinct(S \ {x})
      BY <2>1, DistinctSubset
    <3>2. Cardinality(S \ {x}) \in Nat
      BY <3>1, FS_CardinalityType DEF Distinct
    <3> QED BY <3>1, <3>2
  <2>3. CASE S \ {x} = {}
    BY <2>1, <2>3 DEF LastIn
  <2>4. CASE S \ {x} # {}
    <3>1. PICK m \in S \ {x} : \A p \in (S \ {x}) \ {m} : Before(p, m)
      BY <2>2, <2>4 DEF LastIn
    <3>2. CASE Before(x, m)
      BY <2>1, <3>1, <3>2 DEF LastIn
    <3>3. CASE Before(m, x)
      <4>1. \A p \in S \ {x} : Before(p, x)
        BY <2>1, <3>1, <3>3, BeforeOrders
      <4> QED BY <2>1, <4>1 DEF LastIn
    <3> QED BY <2>1, <3>1, <3>2, <3>3, BeforeOrders
  <2> QED BY <2>3, <2>4
<1>3. T = Nat
  <2>1. T \in SUBSET Nat /\ 0 \in T /\ \A n \in T : n + 1 \in T
    BY <1>1, <1>2
  <2> HIDE DEF T
  <2> QED BY <2>1, SetInduction
<1> QED BY <1>3, FS_CardinalityType DEF Distinct

\* So they can be put in order.
LEMMA EnumerationExists == \A S : Distinct(S) => \E s : Enumerates(s, S)
<1> DEFINE T == { n \in Nat : \A S : Distinct(S) /\ Cardinality(S) = n
                                       => \E s : Enumerates(s, S) }
<1>1. 0 \in T
  <2> SUFFICES ASSUME NEW S, Distinct(S), Cardinality(S) = 0 PROVE \E s : Enumerates(s, S)
    OBVIOUS
  <2> DEFINE s == [i \in 1 .. 0 |-> i]
  <2>1. 1 .. 0 = {}
    OBVIOUS
  <2>2. s \in [1 .. 0 -> S] /\ DOMAIN s = {}
    BY <2>1
  <2> HIDE DEF s
  <2>3. Enumerates(s, S)
    BY <2>2 DEF Enumerates
  <2> QED BY <2>3
<1>2. ASSUME NEW n \in T PROVE n + 1 \in T
  <2> SUFFICES ASSUME NEW S, Distinct(S), Cardinality(S) = n + 1
               PROVE  \E s : Enumerates(s, S)
    OBVIOUS
  <2>0. n \in Nat /\ S # {}
    BY FS_EmptySet DEF Distinct
  <2>1. PICK m \in S : \A p \in S \ {m} : Before(p, m)
    BY <2>0, LastExists DEF LastIn
  <2>2. Distinct(S \ {m}) /\ Cardinality(S \ {m}) = n
    <3>1. Cardinality(S \ {m}) + 1 = n + 1 /\ Distinct(S \ {m})
      BY DistinctSubset
    <3>2. Cardinality(S \ {m}) \in Nat
      BY <3>1, FS_CardinalityType DEF Distinct
    <3> QED BY <2>0, <3>1, <3>2
  <2>3. PICK t : Enumerates(t, S \ {m})
    BY <2>2
  <2>4. t \in [1 .. n -> S \ {m}] /\ \A i, j \in 1 .. n : i < j => Before(t[i], t[j])
    BY <2>2, <2>3 DEF Enumerates
  <2> DEFINE s == [i \in 1 .. n + 1 |-> IF i = n + 1 THEN m ELSE t[i]]
  <2>5. \A i \in 1 .. n + 1 : i = n + 1 \/ i \in 1 .. n
    BY <2>0
  <2>6. s \in [1 .. n + 1 -> S]
    BY <2>4, <2>5
  <2>7. ASSUME NEW i \in 1 .. n + 1, NEW j \in 1 .. n + 1, i < j PROVE Before(s[i], s[j])
    <3>1. i \in 1 .. n /\ i # n + 1
      BY <2>0, <2>7
    <3>2. s[i] = t[i] /\ t[i] \in S \ {m}
      BY <2>4, <3>1
    <3>3. CASE j = n + 1
      BY <2>1, <3>2, <3>3
    <3>4. CASE j # n + 1
      <4>1. j \in 1 .. n /\ s[j] = t[j]
        BY <2>5, <3>4
      <4> QED BY <2>4, <2>7, <3>1, <3>2, <4>1
    <3> QED BY <3>3, <3>4
  <2> HIDE DEF s
  <2>8. Enumerates(s, S)
    BY <2>6, <2>7 DEF Enumerates
  <2> QED BY <2>8
<1>3. T = Nat
  <2>1. T \in SUBSET Nat /\ 0 \in T /\ \A n \in T : n + 1 \in T
    BY <1>1, <1>2
  <2> HIDE DEF T
  <2> QED BY <2>1, SetInduction
<1> QED BY <1>3, FS_CardinalityType DEF Distinct

\* The list holds each of them once.
LEMMA SortedEnumerates ==
  ASSUME NEW S, Distinct(S)
  PROVE  /\ Sorted(S) \in Seq(S) /\ Len(Sorted(S)) = Cardinality(S)
         /\ \A i, j \in DOMAIN Sorted(S) : i < j => Before(Sorted(S)[i], Sorted(S)[j])
         /\ \A i, j \in DOMAIN Sorted(S) : Sorted(S)[i] = Sorted(S)[j] => i = j
         /\ ToSet(Sorted(S)) = S
<1> DEFINE s == Sorted(S)
           n == Cardinality(S)
<1>1. n \in Nat /\ IsFiniteSet(S)
  BY FS_CardinalityType DEF Distinct
<1>2. Enumerates(s, S)
  <2>1. \E u \in [1 .. n -> S] : \A i, j \in DOMAIN u : i < j => Before(u[i], u[j])
    BY EnumerationExists DEF Enumerates
  <2> QED BY <2>1 DEF Enumerates, Sorted
<1> HIDE DEF s
<1>3. s \in [1 .. n -> S] /\ DOMAIN s = 1 .. n
      /\ \A i, j \in 1 .. n : i < j => Before(s[i], s[j])
  BY <1>2 DEF Enumerates
<1> HIDE DEF n
<1>4. s \in Seq(S) /\ Len(s) = n
  BY <1>1, <1>3
<1>5. ASSUME NEW i \in 1 .. n, NEW j \in 1 .. n, s[i] = s[j] PROVE i = j
  <2>1. ~ (i < j) /\ ~ (j < i)
    BY <1>3, <1>5, BeforeOrders
  <2> QED BY <1>1, <2>1
<1>6. ASSUME NEW p \in S PROVE \E i \in 1 .. n : s[i] = p
  <2> SUFFICES ASSUME \A i \in 1 .. n : s[i] # p PROVE FALSE
    OBVIOUS
  <2>1. s \in [1 .. n -> S \ {p}]
    BY <1>3
  <2>2. IsFiniteSet(S \ {p}) /\ Cardinality(S \ {p}) = n - 1
    BY <1>1, FS_RemoveElement DEF n
  <2>3. IsFiniteSet(1 .. n) /\ Cardinality(1 .. n) = n /\ n > 0
    <3>1. n # 0
      BY <1>1, FS_EmptySet DEF n
    <3> QED BY <1>1, <3>1, FS_Interval
  <2>4. \E i, j \in 1 .. n : i # j /\ s[i] = s[j]
    BY <1>1, <2>1, <2>2, <2>3, FS_PigeonHole
  <2> QED BY <1>5, <2>4
<1>7. ToSet(s) = S
  BY <1>3, <1>6 DEF ToSet
<1> QED BY <1>3, <1>4, <1>5, <1>7 DEF n, s

\* find_map over the keys gives the first value there is, or the default.
LEMMA FirstIsFirst ==
  ASSUME NEW names \in Seq(Nat), NEW default \in Nat
  PROVE  FirstOf(names, default) \in Nat /\ IsFirst(FirstOf(names, default), names, default)
<1> DEFINE given == { i \in DOMAIN names : names[i] # 0 }
           least == Min(given)
<1>1. given \in SUBSET Nat /\ DOMAIN names = 1 .. Len(names)
  OBVIOUS
<1>2. FirstOf(names, default) = IF given = {} THEN default ELSE names[least]
  BY DEF FirstOf
<1>3. given # {} => least \in given /\ \A i \in given : least <= i
  <2> HIDE DEF given
  <2> QED BY <1>1, MinOf
<1> HIDE DEF least
<1>4. CASE given = {}
  BY <1>2, <1>4 DEF IsFirst
<1>5. CASE given # {}
  <2>1. \A j \in 1 .. least - 1 : names[j] = 0
    <3> SUFFICES ASSUME NEW j \in 1 .. least - 1, names[j] # 0 PROVE FALSE
      OBVIOUS
    <3>1. least \in 1 .. Len(names) /\ Len(names) \in Nat
      BY <1>1, <1>3, <1>5
    <3>2. j \in given /\ j < least
      BY <1>1, <3>1
    <3> QED BY <1>1, <1>3, <3>1, <3>2
  <2>2. /\ least \in DOMAIN names /\ FirstOf(names, default) = names[least]
        /\ names[least] # 0 /\ names[least] \in Nat
    BY <1>1, <1>2, <1>3, <1>5
  <2> QED BY <2>1, <2>2 DEF IsFirst
<1> QED BY <1>4, <1>5

\* A record of config.json gives a profile its name, user name and flag.
LEMMA ProfileTyped ==
  ASSUME NEW file, WellFormed(file), Absent(file) \/ Readable(file), NEW id \in Nat \ {0}
  PROVE  /\ ProfileOf(file, id) \in Listed /\ ProfileOf(file, id).id = id
         /\ ~ Absent(file) /\ id \in DOMAIN file.records =>
              /\ ProfileOf(file, id).saved_password = file.records[id].saved
              /\ IsFirst(ProfileOf(file, id).name, file.records[id].names, id)
              /\ IsFirst(ProfileOf(file, id).username,
                         <<file.records[id].username, file.records[id].locked>>, 0)
<1> DEFINE record == Record(file, id)
           name == FirstOf(record.names, id)
           username == FirstOf(<<record.username, record.locked>>, 0)
<1>1. NoRecord \in Records
  <2>1. <<>> \in Seq(Nat)
    OBVIOUS
  <2> QED BY <2>1 DEF NoRecord, Records
<1>2. record \in Records
  BY <1>1 DEF Record, WellFormed
<1> HIDE DEF record
<1>3. record.names \in Seq(Nat) /\ <<record.username, record.locked>> \in Seq(Nat)
      /\ record.saved \in BOOLEAN
  BY <1>2 DEF Records
<1>4. /\ name \in Nat /\ IsFirst(name, record.names, id)
      /\ username \in Nat /\ IsFirst(username, <<record.username, record.locked>>, 0)
  BY <1>3, FirstIsFirst
<1>5. ProfileOf(file, id) = [id |-> id, name |-> name, username |-> username,
                             saved_password |-> record.saved]
  BY DEF ProfileOf, record
<1> HIDE DEF name, username
<1>6. ~ Absent(file) /\ id \in DOMAIN file.records => record = file.records[id]
  BY DEF record, Record
<1>7. ProfileOf(file, id) \in Listed /\ ProfileOf(file, id).id = id
  BY <1>3, <1>4, <1>5 DEF Listed
<1>8. /\ ProfileOf(file, id).name = name /\ ProfileOf(file, id).username = username
      /\ ProfileOf(file, id).saved_password = record.saved
  BY <1>5
<1> QED BY <1>4, <1>6, <1>7, <1>8

\* What discovery lists: the profiles of the files of the directory, in order.
Found(entries, file) ==
    { ProfileOf(file, entry.id) : entry \in { e \in entries : IsProfile(e) } }

\* The files of a directory give as many distinct profiles, one for each identifier.
LEMMA FoundDistinct ==
  ASSUME NEW entries, IsDirectory(entries), NEW file, WellFormed(file),
         Absent(file) \/ Readable(file)
  PROVE  LET files == { e.id : e \in { e \in entries : IsProfile(e) } }
         IN  /\ Distinct(Found(entries, file)) /\ Cardinality(Found(entries, file)) = Cardinality(files)
             /\ { p.id : p \in Found(entries, file) } = files
<1> DEFINE E == { e \in entries : IsProfile(e) }
           files == { e.id : e \in E }
           P == Found(entries, file)
           f == [e \in E |-> e.id]
           g == [i \in files |-> ProfileOf(file, i)]
<1>1. E \in SUBSET entries /\ IsFiniteSet(E) /\ files \in SUBSET (Nat \ {0})
  <2>1. E \in SUBSET entries
    OBVIOUS
  <2> QED BY <2>1, FS_Subset DEF IsDirectory, Entries
<1>2. \A i \in files : ProfileOf(file, i) \in Listed /\ ProfileOf(file, i).id = i
  BY <1>1, ProfileTyped
<1>3. P = { ProfileOf(file, i) : i \in files }
  BY DEF Found
<1>4. f \in Surjection(E, files)
  BY DEF Surjection
<1>5. IsFiniteSet(files)
  <2> HIDE DEF f, E, files
  <2> QED BY <1>1, <1>4, FS_Surjection
<1> HIDE DEF files, P
<1>6. g \in Bijection(files, P)
  BY <1>2, <1>3 DEF Bijection, Injection, Surjection, IsInjective
<1>7. ExistsBijection(files, P)
  BY <1>6 DEF ExistsBijection
<1>8. IsFiniteSet(P) /\ Cardinality(P) = Cardinality(files)
  BY <1>5, <1>7, FS_Bijection
<1>9. Distinct(P)
  BY <1>2, <1>3, <1>8 DEF Distinct
<1>10. { p.id : p \in P } = files
  BY <1>2, <1>3
<1> QED BY <1>8, <1>9, <1>10 DEF files, P

\* Discover sorts what is found, unless the metadata cannot be read.
LEMMA DiscoverFinds ==
  ASSUME NEW entries, NEW file
  PROVE  Discover(entries, file) = IF Absent(file) \/ Readable(file)
                                   THEN Sorted(Found(entries, file)) ELSE <<>>
  BY DEF Discover, Found

\* The list holds each profile file once, in one order, with its own record.
THEOREM ListedOnceTheorem ==
  ASSUME NEW entries, IsDirectory(entries), NEW file, WellFormed(file)
  PROVE  ListedOnce(entries, file)
<1> DEFINE profiles == Discover(entries, file)
           files == { e.id : e \in { e \in entries : IsProfile(e) } }
           P == Found(entries, file)
<1>1. CASE Absent(file) \/ Readable(file)
  <2>1. profiles = Sorted(P)
    BY <1>1, DiscoverFinds
  <2>2. Distinct(P) /\ Cardinality(P) = Cardinality(files) /\ { p.id : p \in P } = files
    BY <1>1, FoundDistinct
  <2>3. /\ profiles \in Seq(P) /\ Len(profiles) = Cardinality(P) /\ ToSet(profiles) = P
        /\ \A i, j \in DOMAIN profiles : i < j => Before(profiles[i], profiles[j])
    <3> HIDE DEF P
    <3> QED BY <2>1, <2>2, SortedEnumerates
  <2>4. \A p \in P : /\ p.name \in Nat
                     /\ ~ Absent(file) /\ p.id \in DOMAIN file.records =>
                          /\ p.saved_password = file.records[p.id].saved
                          /\ IsFirst(p.name, file.records[p.id].names, p.id)
                          /\ IsFirst(p.username, <<file.records[p.id].username,
                                                   file.records[p.id].locked>>, 0)
    <3>1. ASSUME NEW e \in { e \in entries : IsProfile(e) }
          PROVE  LET p == ProfileOf(file, e.id)
                 IN  /\ p.name \in Nat
                     /\ ~ Absent(file) /\ p.id \in DOMAIN file.records =>
                          /\ p.saved_password = file.records[p.id].saved
                          /\ IsFirst(p.name, file.records[p.id].names, p.id)
                          /\ IsFirst(p.username, <<file.records[p.id].username,
                                                   file.records[p.id].locked>>, 0)
      <4>1. e.id \in Nat \ {0}
        BY DEF IsDirectory, Entries
      <4> DEFINE q == ProfileOf(file, e.id)
      <4>2. /\ q \in Listed /\ q.id = e.id
            /\ ~ Absent(file) /\ e.id \in DOMAIN file.records =>
                 /\ q.saved_password = file.records[e.id].saved
                 /\ IsFirst(q.name, file.records[e.id].names, e.id)
                 /\ IsFirst(q.username, <<file.records[e.id].username,
                                         file.records[e.id].locked>>, 0)
        BY <1>1, <4>1, ProfileTyped
      <4> HIDE DEF q
      <4>3. q.name \in Nat
        BY <4>2 DEF Listed
      <4> QED BY <4>2, <4>3 DEF q
    <3> QED BY <3>1 DEF Found
  <2> HIDE DEF profiles, files, P
  <2>5. \A i \in DOMAIN profiles : profiles[i] \in P
    BY <2>3
  <2>6. Len(profiles) = Cardinality(files) /\ { p.id : p \in ToSet(profiles) } = files
    BY <2>2, <2>3
  <2>7. \A i, j \in DOMAIN profiles : i < j =>
              /\ profiles[i].name <= profiles[j].name
              /\ profiles[i].name = profiles[j].name => profiles[i].id < profiles[j].id
    <3> SUFFICES ASSUME NEW i \in DOMAIN profiles, NEW j \in DOMAIN profiles, i < j
                 PROVE  /\ profiles[i].name <= profiles[j].name
                        /\ profiles[i].name = profiles[j].name => profiles[i].id < profiles[j].id
      OBVIOUS
    <3>1. Before(profiles[i], profiles[j]) /\ profiles[i].name \in Nat /\ profiles[j].name \in Nat
      BY <2>3, <2>4, <2>5
    <3> QED BY <3>1 DEF Before
  <2> QED BY <2>4, <2>5, <2>6, <2>7 DEF ListedOnce, profiles, files
<1>2. CASE ~ (Absent(file) \/ Readable(file))
  BY <1>2, DiscoverFinds DEF ListedOnce
<1> QED BY <1>1, <1>2

\* In a list without repetitions every profile can be selected.
LEMMA SelectsEach ==
  ASSUME NEW S, Distinct(S), NEW profiles \in Seq(S), ToSet(profiles) = S,
         \A i, j \in DOMAIN profiles : profiles[i] = profiles[j] => i = j
  PROVE  Resolvable(profiles)
<1>1. /\ DOMAIN profiles \in SUBSET Nat
      /\ \A i \in DOMAIN profiles : profiles[i] \in S
      /\ \A p \in S : \E i \in DOMAIN profiles : profiles[i] = p
  BY DEF ToSet
<1>2. \A i, j \in DOMAIN profiles : profiles[i].id = profiles[j].id => i = j
  BY <1>1 DEF Distinct
<1>0. ASSUME NEW i \in DOMAIN profiles PROVE Min({i}) = i
  <2>1. {i} \in SUBSET Nat /\ {i} # {}
    BY <1>1
  <2>2. Min({i}) \in {i}
    BY <2>1, MinOf
  <2> QED BY <2>2
<1>3. ASSUME NEW p \in S PROVE Select(profiles, p.id) = p
  <2>1. PICK i \in DOMAIN profiles : profiles[i] = p
    BY <1>1
  <2> DEFINE same == { j \in DOMAIN profiles : profiles[j].id = p.id }
  <2>2. same = {i}
    BY <1>2, <2>1
  <2>3. Min({i}) = i
    BY <1>0
  <2> QED BY <2>1, <2>2, <2>3 DEF Select
<1>4. ASSUME NEW p \in S
      PROVE  LET chosen == Select(profiles, p.name) IN
             \/ chosen.id = p.name
             \/ chosen = IF \E q \in S : q # p /\ q.name = p.name THEN NoProfile ELSE p
  <2> DEFINE same == { j \in DOMAIN profiles : profiles[j].id = p.name }
             named == { j \in DOMAIN profiles : profiles[j].name = p.name }
             unique == \E i \in named : named = {i}
             chosen == Select(profiles, p.name)
             ofSame == Min(same)
             ofNamed == Min(named)
             Right == \/ chosen.id = p.name
                      \/ chosen = IF \E q \in S : q # p /\ q.name = p.name THEN NoProfile ELSE p
  <2>1. chosen = IF same # {} THEN profiles[ofSame]
                 ELSE IF unique THEN profiles[ofNamed] ELSE NoProfile
    BY DEF Select
  <2>2. PICK i \in DOMAIN profiles : profiles[i] = p
    BY <1>1
  <2>3. i \in named
    BY <2>2
  <2>4. ASSUME same # {} PROVE Right
    <3>1. ofSame \in same
      <4>1. same \in SUBSET Nat
        BY <1>1
      <4> HIDE DEF same
      <4> QED BY <2>4, <4>1, MinOf
    <3> HIDE DEF ofSame, chosen
    <3> QED BY <2>1, <2>4, <3>1
  <2>5. ASSUME same = {}, unique PROVE Right
    <3>1. named = {i}
      BY <2>3, <2>5
    <3>2. Min({i}) = i
      BY <1>0
    <3>3. ofNamed = i
      BY <3>1, <3>2
    <3>4. \A q \in S : q.name = p.name => q = p
      <4> SUFFICES ASSUME NEW q \in S, q.name = p.name PROVE q = p
        OBVIOUS
      <4>1. PICK j \in DOMAIN profiles : profiles[j] = q
        BY <1>1
      <4>2. j \in named
        BY <4>1
      <4> QED BY <2>2, <3>1, <4>1, <4>2
    <3> HIDE DEF same, unique, ofNamed, chosen
    <3>5. chosen = p
      BY <2>1, <2>2, <2>5, <3>3
    <3> QED BY <3>4, <3>5
  <2>6. ASSUME same = {}, ~ unique PROVE Right
    <3>1. PICK j \in named : j # i
      BY <2>3, <2>6
    <3>2. profiles[j] \in S /\ profiles[j] # p /\ profiles[j].name = p.name
      BY <1>1, <2>2, <3>1
    <3> HIDE DEF same, unique, ofNamed, chosen
    <3>3. chosen = NoProfile
      BY <2>1, <2>6
    <3> QED BY <3>2, <3>3
  <2>7. Right
    BY <2>4, <2>5, <2>6
  <2> QED BY <2>7
<1> QED BY <1>3, <1>4 DEF Resolvable

\* Each profile of it can be selected by its identifier, a name selects none but its own.
THEOREM ResolvableTheorem ==
  ASSUME NEW entries, IsDirectory(entries), NEW file, WellFormed(file)
  PROVE  Resolvable(Discover(entries, file))
<1>1. CASE Absent(file) \/ Readable(file)
  <2> DEFINE P == Found(entries, file)
             profiles == Discover(entries, file)
  <2>1. profiles = Sorted(P) /\ Distinct(P)
    BY <1>1, DiscoverFinds, FoundDistinct
  <2> HIDE DEF P, profiles
  <2>2. /\ profiles \in Seq(P) /\ ToSet(profiles) = P
        /\ \A i, j \in DOMAIN profiles : profiles[i] = profiles[j] => i = j
    BY <2>1, SortedEnumerates
  <2>3. Resolvable(profiles)
    BY <2>1, <2>2, SelectsEach
  <2> QED BY <2>3 DEF profiles
<1>2. CASE ~ (Absent(file) \/ Readable(file))
  <2>1. Discover(entries, file) = <<>>
    BY <1>2, DiscoverFinds
  <2>2. Resolvable(<<>>)
    BY DEF Resolvable, ToSet
  <2> QED BY <2>1, <2>2
<1> QED BY <1>1, <1>2

\* So it is in every state, whatever Connect's directory and config.json hold.
THEOREM AllResolvableTheorem == Spec => []AllResolvable
<1>1. \A entries \in Directories, file \in Files :
        ListedOnce(entries, file) /\ Resolvable(Discover(entries, file))
  BY CredentialsAssumption, ListedOnceTheorem, ResolvableTheorem DEF CredentialsAssumption
<1>2. AllResolvable
  BY <1>1 DEF AllResolvable
<1> QED BY <1>2, PTL

-----------------------------------------------------------------------------
(* The processes.  The sets Given and Named are what the operators of Profiles
   return, whatever it is. *)

Given ==
    { FileProfile(args.selector) : args \in Invocations } \cup {NoProfile} \cup
    { Choose(Discover(st.entries, st.file), args.selector, args.non_interactive, terminal, typed) :
        st \in Storages, args \in Invocations, terminal \in BOOLEAN, typed \in Nat }

Named ==
    Users \cup {0} \cup { FirstOf(<<args.username, profile.username>>, 0) :
                            args \in Invocations, profile \in Given }

Runs == [step : Steps, args : Invocations \cup {NoArguments}, profile : Given, user : Named,
         password : Passwords \cup {0}, source : Sources, save : BOOLEAN,
         saved : {"no", "yes", "refused"}]

\* Until a source has given the password there is none to save.
Early == {"choose", "evaluate", "user", "typing_user", "password", "own", "connect",
          "typing_password"}

Unspoilt(r) == r.source = "none" /\ ~r.save

Lazy(r) ==
    /\ r.step \in Early => Unspoilt(r)
    /\ r.step \in Early \ {"choose", "evaluate"} => ~r.args.auth_file /\ ~r.args.check
    /\ r.step \in {"own", "connect", "typing_password"} => r.args.environment = 0
    /\ r.source \in {"own", "connect"} =>
         r.args.environment = 0 /\ ~r.args.auth_file /\ ~r.args.check
    /\ r.source = "connect" => r.profile.saved_password /\ r.profile.username = r.user

Entitled(r) ==
    r.save => /\ r.args.save_password /\ r.source \notin {"none", "own", "auth_file"}
            /\ r.password \in Passwords

Confirmed(r, acc) ==
    r.step = "up" /\ r.save => << <<r.profile.id, r.user>>, r.password >> \in acc

Good(r, acc) == Lazy(r) /\ Entitled(r) /\ Confirmed(r, acc)

\* The inductive invariant.
CredentialsInvariant ==
    /\ run \in [Processes -> Runs]
    /\ storage \in Storages
    /\ SavedWereAccepted
    /\ \A account \in DOMAIN keychain : keychain[account] \in Passwords
    /\ \A p \in Processes : Good(run[p], accepted)

-----------------------------------------------------------------------------
\* The user name of a connection is one that was given or that Connect has.
LEMMA FirstIsNamed ==
    ASSUME NEW args \in Invocations, NEW profile \in Given
    PROVE  FirstOf(<<args.username, profile.username>>, 0) \in Named
<1> DEFINE NameOf(a, c) == FirstOf(<<a.username, c.username>>, 0)
           Names == { NameOf(a, c) : a \in Invocations, c \in Given }
<1>1. NameOf(args, profile) \in Names OBVIOUS
<1>2. Named = Users \cup {0} \cup Names BY DEF Named
<1> HIDE DEF Names
<1> QED BY <1>1, <1>2

\* A process that becomes a good record disturbs no other, nor what is saved.
LEMMA OneRecord ==
    ASSUME CredentialsInvariant, NEW p \in Processes, NEW r \in Runs, Good(r, accepted'),
           Becomes(p, r), accepted \subseteq accepted', UNCHANGED keychain,
           storage' \in Storages
    PROVE  CredentialsInvariant'
<1> run' = [run EXCEPT ![p] = r] BY DEF Becomes
<1>1. run' \in [Processes -> Runs] BY DEF CredentialsInvariant
<1>2. \A q \in Processes : run'[q] = IF q = p THEN r ELSE run[q] BY DEF CredentialsInvariant
<1>3. ASSUME NEW q \in Processes PROVE Good(run'[q], accepted')
  <2>1. CASE q = p BY <2>1, <1>2
  <2>2. CASE q # p
    <3>1. Good(run[q], accepted) BY DEF CredentialsInvariant
    <3> QED BY <3>1, <2>2, <1>2 DEF Good, Confirmed
  <2> QED BY <2>1, <2>2
<1>4. SavedWereAccepted' BY DEF CredentialsInvariant, SavedWereAccepted
<1> QED BY <1>1, <1>3, <1>4 DEF CredentialsInvariant

\* A process that only goes to another step, with the same arguments and what it has.
LEMMA GoingOn ==
    ASSUME CredentialsInvariant, NEW p \in Processes, NEW next \in Steps,
           run[p].step \in Steps,
           next \in {"done", "killed"}
             \/ /\ next \in Early \ {"choose", "evaluate"}
                /\ ~run[p].args.auth_file /\ ~run[p].args.check
                /\ run[p].step \in Early
                /\ next \in {"own", "connect", "typing_password"} => run[p].args.environment = 0,
           GoesTo(p, next), UNCHANGED keychain, UNCHANGED accepted, UNCHANGED storage
    PROVE  CredentialsInvariant'
<1> DEFINE s == run[p]
           r == [s EXCEPT !.step = next]
<1>1. s \in Runs /\ Good(s, accepted) BY DEF CredentialsInvariant
<1>2. r \in Runs BY <1>1 DEF Runs
<1>3. /\ r.step = next /\ r.args = s.args /\ r.profile = s.profile /\ r.user = s.user
      /\ r.password = s.password /\ r.source = s.source /\ r.save = s.save
  BY <1>1 DEF Runs
<1>4. Lazy(r) BY <1>1, <1>3 DEF Good, Lazy, Early, Unspoilt
<1>5. Entitled(r) BY <1>1, <1>3 DEF Good, Entitled
<1>6. Confirmed(r, accepted') BY <1>3 DEF Confirmed, Early
<1>7. Becomes(p, r) BY <1>1 DEF GoesTo, Becomes, CredentialsInvariant
<1> QED BY <1>2, <1>4, <1>5, <1>6, <1>7, OneRecord DEF Good, CredentialsInvariant

\* A source gives the password.
LEMMA Using ==
    ASSUME CredentialsInvariant, NEW p \in Processes, NEW password \in Passwords,
           NEW source \in Sources \ {"none", "auth_file"},
           run[p].step \in Early \ {"choose", "evaluate"},
           source \in {"own", "connect"} => run[p].args.environment = 0,
           source = "connect" =>
             run[p].profile.saved_password /\ run[p].profile.username = run[p].user,
           Use(p, password, source),
           UNCHANGED keychain, UNCHANGED accepted, UNCHANGED storage
    PROVE  CredentialsInvariant'
<1> DEFINE s == run[p]
           kept == s.args.save_password /\ source # "own"
           r == [s EXCEPT !.step = "connecting", !.password = password, !.source = source,
                          !.save = kept]
<1>1. s \in Runs /\ Good(s, accepted) BY DEF CredentialsInvariant
<1>2. kept \in BOOLEAN OBVIOUS
<1> HIDE DEF kept
<1>3. r \in Runs BY <1>1, <1>2 DEF Runs, Steps
<1>4. /\ r.step = "connecting" /\ r.args = s.args /\ r.profile = s.profile /\ r.user = s.user
      /\ r.password = password /\ r.source = source
  BY <1>1 DEF Runs
<1>5. r.save = kept BY <1>1 DEF Runs
<1>6. Lazy(r) BY <1>1, <1>4 DEF Good, Lazy, Early
<1>7. Entitled(r) BY <1>4, <1>5 DEF kept, Entitled
<1>8. Confirmed(r, accepted') BY <1>4 DEF Confirmed
<1>9. Becomes(p, r) BY DEF Use, Becomes, kept
<1> QED BY <1>3, <1>6, <1>7, <1>8, <1>9, OneRecord DEF Good, CredentialsInvariant

-----------------------------------------------------------------------------
\* The initial state satisfies the invariant.
LEMMA InitInvariant == Init => CredentialsInvariant
<1> SUFFICES ASSUME Init PROVE CredentialsInvariant OBVIOUS
<1> DEFINE r == Run("done", NoArguments)
<1>1. r \in Runs BY DEF Run, Runs, Steps, Sources, Given, Named
<1>2. Good(r, accepted) BY DEF Run, Good, Lazy, Entitled, Confirmed, Early
<1>3. run = [p \in Processes |-> r] BY DEF Init
<1>4. run \in [Processes -> Runs] /\ \A p \in Processes : run[p] = r BY <1>1, <1>3
<1>5. DOMAIN keychain = {} BY DEF Init
<1>6. storage \in Storages BY DEF Init
<1> QED BY <1>2, <1>4, <1>5, <1>6 DEF CredentialsInvariant, SavedWereAccepted

\* The steps before there is a user name.
LEMMA ChoosingStep ==
    ASSUME CredentialsInvariant, NEW p \in Processes,
           Launch(p) \/ ChooseProfile(p) \/ Evaluate(p)
    PROVE  CredentialsInvariant'
<1> DEFINE s == run[p]
<1>r. s \in Runs /\ Good(s, accepted) /\ storage \in Storages BY DEF CredentialsInvariant
<1>1. CASE Launch(p)
  <2>1. PICK args \in Invocations : Becomes(p, Run("choose", args)) BY <1>1 DEF Launch
  <2> DEFINE r == Run("choose", args)
  <2>2. r \in Runs BY DEF Run, Runs, Steps, Sources, Given, Named
  <2>3. Good(r, accepted') BY DEF Run, Good, Lazy, Entitled, Confirmed, Early, Unspoilt
  <2> QED BY <1>1, <1>r, <2>1, <2>2, <2>3, OneRecord DEF Launch, world
<1>2. CASE ChooseProfile(p)
  <2>0. s.step = "choose" /\ UNCHANGED keychain /\ UNCHANGED accepted /\ UNCHANGED storage
    BY <1>2 DEF ChooseProfile, At, world
  <2>1. Unspoilt(s) BY <1>r, <2>0 DEF Good, Lazy, Early
  <2>2. ASSUME NEW profile \in Given, NEW user \in Named,
               Becomes(p, [s EXCEPT !.step = "evaluate", !.profile = profile, !.user = user])
        PROVE  CredentialsInvariant'
    <3> DEFINE r == [s EXCEPT !.step = "evaluate", !.profile = profile, !.user = user]
    <3>1. r \in Runs BY <1>r DEF Runs, Steps
    <3>2. r.step = "evaluate" /\ r.source = s.source /\ r.save = s.save BY <1>r DEF Runs
    <3>3. Good(r, accepted')
      BY <3>2, <2>1 DEF Good, Lazy, Entitled, Confirmed, Early, Unspoilt
    <3> QED BY <1>r, <2>0, <2>2, <3>1, <3>3, OneRecord
  <2>3. s.args \in Invocations \cup {NoArguments} BY <1>r DEF Runs
  <2>4. CASE ~s.args.connect
    <3>1. Becomes(p, [s EXCEPT !.step = "evaluate", !.user = s.args.username,
                               !.profile = FileProfile(s.args.selector)])
      BY <1>2, <2>4 DEF ChooseProfile
    <3>2. [s EXCEPT !.step = "evaluate", !.user = s.args.username,
                    !.profile = FileProfile(s.args.selector)]
          = [s EXCEPT !.step = "evaluate", !.profile = FileProfile(s.args.selector),
                      !.user = s.args.username]
      BY <1>r DEF Runs
    <3>3. FileProfile(s.args.selector) \in Given
      BY <2>3 DEF Given, NoArguments, FileProfile, NoProfile
    <3>4. s.args.username \in Named
      BY <2>3, CredentialsAssumption DEF CredentialsAssumption, Named, NoArguments
    <3> QED BY <3>1, <3>2, <3>3, <3>4, <2>2
  <2>5. CASE s.args.connect
    <3>1. s.args \in Invocations BY <2>3, <2>5 DEF NoArguments
    <3> DEFINE profiles == Discover(storage.entries, storage.file)
    <3>2. PICK terminal \in BOOLEAN, typed \in 0 .. Len(profiles) :
            LET chosen == Choose(profiles, s.args.selector, s.args.non_interactive,
                                 terminal, typed)
            IN IF chosen = NoProfile THEN GoesTo(p, "done")
               ELSE Becomes(p, [s EXCEPT !.step = "evaluate", !.profile = chosen,
                      !.user = FirstOf(<<s.args.username, chosen.username>>, 0)])
      BY <1>2, <2>5 DEF ChooseProfile
    <3> DEFINE chosen == Choose(profiles, s.args.selector, s.args.non_interactive,
                                terminal, typed)
    <3>3. typed \in Nat OBVIOUS
    <3>4. chosen \in Given BY <1>r, <3>1, <3>3 DEF Given
    <3> HIDE DEF chosen
    <3>5. FirstOf(<<s.args.username, chosen.username>>, 0) \in Named
      BY <3>1, <3>4, FirstIsNamed
    <3>6. CASE chosen = NoProfile
      <4>1. GoesTo(p, "done") BY <3>2, <3>6 DEF chosen
      <4> QED BY <4>1, <1>r, <2>0, GoingOn DEF Runs, Steps
    <3>7. CASE chosen # NoProfile
      <4>1. Becomes(p, [s EXCEPT !.step = "evaluate", !.profile = chosen,
                          !.user = FirstOf(<<s.args.username, chosen.username>>, 0)])
        BY <3>2, <3>7 DEF chosen
      <4> QED BY <4>1, <3>4, <3>5, <2>2
    <3> QED BY <3>6, <3>7
  <2> QED BY <2>4, <2>5
<1>3. CASE Evaluate(p)
  <2>0. s.step = "evaluate" /\ UNCHANGED keychain /\ UNCHANGED accepted /\ UNCHANGED storage
    BY <1>3 DEF Evaluate, At, world
  <2>1. Unspoilt(s) BY <1>r, <2>0 DEF Good, Lazy, Early
  <2>2. CASE GoesTo(p, "done") BY <2>2, <1>r, <2>0, GoingOn DEF Runs, Steps
  <2>3. CASE ~s.args.check /\ Becomes(p, [s EXCEPT !.step = "connecting", !.user = 0])
    <3> DEFINE r == [s EXCEPT !.step = "connecting", !.user = 0]
    <3>0. 0 \in Named BY DEF Named
    <3>1. r \in Runs BY <1>r, <3>0 DEF Runs, Steps
    <3>2. r.step = "connecting" /\ r.source = s.source /\ r.save = s.save BY <1>r DEF Runs
    <3>3. Good(r, accepted')
      BY <3>2, <2>1 DEF Good, Lazy, Entitled, Confirmed, Early, Unspoilt
    <3> QED BY <1>r, <2>0, <2>3, <3>1, <3>3, OneRecord
  <2>4. CASE ~s.args.check /\ ~s.args.auth_file /\ GoesTo(p, "user")
    BY <2>4, <1>r, <2>0, GoingOn DEF Runs, Steps, Early
  <2>5. ASSUME NEW u \in Users, NEW password \in Passwords,
               Becomes(p, [s EXCEPT !.step = "connecting", !.user = u,
                                    !.password = password, !.source = "auth_file"])
        PROVE  CredentialsInvariant'
    <3> DEFINE r == [s EXCEPT !.step = "connecting", !.user = u,
                              !.password = password, !.source = "auth_file"]
    <3>0. u \in Named BY DEF Named
    <3>1. r \in Runs BY <1>r, <3>0 DEF Runs, Steps, Sources
    <3>2. r.step = "connecting" /\ r.source = "auth_file" /\ r.save = s.save BY <1>r DEF Runs
    <3>3. Good(r, accepted')
      BY <3>2, <2>1 DEF Good, Lazy, Entitled, Confirmed, Early, Unspoilt
    <3> QED BY <1>r, <2>0, <2>5, <3>1, <3>3, OneRecord
  <2> QED BY <1>3, <2>2, <2>3, <2>4, <2>5 DEF Evaluate
<1> QED BY <1>1, <1>2, <1>3

\* The steps that find the user name and the password.
LEMMA ResolvingStep ==
    ASSUME CredentialsInvariant, NEW p \in Processes,
           ChooseUser(p) \/ TypeUser(p) \/ ReadEnvironment(p) \/ ReadOwn(p)
             \/ ReadConnect(p) \/ TypePassword(p)
    PROVE  CredentialsInvariant'
<1> DEFINE s == run[p]
<1>r. s \in Runs /\ Good(s, accepted) /\ storage \in Storages BY DEF CredentialsInvariant
<1>s. s.step \in Steps BY <1>r DEF Runs
<1>0. UNCHANGED keychain /\ UNCHANGED accepted /\ UNCHANGED storage
  BY DEF ChooseUser, TypeUser, ReadEnvironment, ReadOwn, ReadConnect, TypePassword, At, world
<1>1. s.step \in {"user", "typing_user", "password", "own", "connect", "typing_password"}
  BY DEF ChooseUser, TypeUser, ReadEnvironment, ReadOwn, ReadConnect, TypePassword, At
<1>2. s.step \in Early \ {"choose", "evaluate"} BY <1>1 DEF Early
<1>3. Unspoilt(s) /\ ~s.args.auth_file /\ ~s.args.check BY <1>r, <1>2 DEF Good, Lazy, Early
<1>d. CASE GoesTo(p, "done") BY <1>d, <1>s, <1>0, GoingOn DEF Steps
<1>u. ASSUME NEW u \in Users, Becomes(p, [s EXCEPT !.step = "password", !.user = u])
      PROVE  CredentialsInvariant'
  <2> DEFINE r == [s EXCEPT !.step = "password", !.user = u]
  <2>0. u \in Named BY DEF Named
  <2>1. r \in Runs BY <1>r, <2>0 DEF Runs, Steps
  <2>2. r.step = "password" /\ r.args = s.args /\ r.source = s.source /\ r.save = s.save
    BY <1>r DEF Runs
  <2>3. Good(r, accepted')
    BY <2>2, <1>3 DEF Good, Lazy, Entitled, Confirmed, Early, Unspoilt
  <2> QED BY <1>r, <1>0, <1>u, <2>1, <2>3, OneRecord
<1>4. CASE ChooseUser(p)
  <2>1. CASE GoesTo(p, "password") BY <2>1, <1>0, <1>2, <1>3, <1>s, GoingOn DEF Steps, Early
  <2>2. CASE GoesTo(p, "typing_user")
    BY <2>2, <1>0, <1>2, <1>3, <1>s, GoingOn DEF Steps, Early
  <2> QED BY <1>4, <1>d, <1>u, <2>1, <2>2 DEF ChooseUser, Ask
<1>5. CASE TypeUser(p) BY <1>5, <1>u DEF TypeUser
<1>6. CASE ReadEnvironment(p)
  <2>1. CASE s.args.environment = 0
    <3>1. GoesTo(p, "own") BY <1>6, <2>1 DEF ReadEnvironment
    <3> QED BY <3>1, <2>1, <1>0, <1>2, <1>3, <1>s, GoingOn DEF Steps, Early
  <2>2. CASE s.args.environment # 0
    <3>1. Use(p, s.args.environment, "environment") BY <1>6, <2>2 DEF ReadEnvironment
    <3>2. s.args.environment \in Passwords
      BY <1>r, <2>2, CredentialsAssumption DEF CredentialsAssumption, Runs, NoArguments
    <3> QED BY <3>1, <3>2, <1>0, <1>2, Using DEF Sources
  <2> QED BY <2>1, <2>2
<1>7. CASE ReadOwn(p)
  <2>0. s.step = "own" BY <1>7 DEF ReadOwn, At
  <2>1. s.args.environment = 0 BY <1>r, <2>0 DEF Good, Lazy
  <2>2. CASE GoesTo(p, "connect")
    BY <2>2, <2>1, <1>0, <1>2, <1>3, <1>s, GoingOn DEF Steps, Early
  <2>3. CASE Account(p) \in DOMAIN keychain /\ Use(p, keychain[Account(p)], "own")
    <3> DEFINE password == keychain[Account(p)]
    <3>1. password \in Passwords BY <2>3 DEF CredentialsInvariant
    <3> QED BY <3>1, <2>1, <2>3, <1>0, <1>2, Using DEF Sources
  <2> QED BY <1>7, <2>2, <2>3 DEF ReadOwn
<1>8. CASE ReadConnect(p)
  <2>0. s.step = "connect" BY <1>8 DEF ReadConnect, At
  <2>1. s.args.environment = 0 BY <1>r, <2>0 DEF Good, Lazy
  <2>2. CASE GoesTo(p, "typing_password")
    BY <2>2, <2>1, <1>0, <1>2, <1>3, <1>s, GoingOn DEF Steps, Early
  <2>3. ASSUME HasPassword(s.profile, s.user),
               NEW password \in Saved(s.profile.id), Use(p, password, "connect")
        PROVE  CredentialsInvariant'
    <3>1. password \in Passwords
      BY <2>3, <1>r, CredentialsAssumption DEF CredentialsAssumption, Saved
    <3>2. s.profile.saved_password /\ s.profile.username = s.user BY <2>3 DEF HasPassword
    <3> QED BY <3>1, <3>2, <2>1, <2>3, <1>0, <1>2, Using DEF Sources
  <2> QED BY <1>8, <1>d, <2>2, <2>3 DEF ReadConnect, Ask
<1>9. CASE TypePassword(p)
  <2>1. PICK password \in Typed : Use(p, password, "prompt") BY <1>9 DEF TypePassword
  <2>2. password \in Passwords BY CredentialsAssumption DEF CredentialsAssumption
  <2> QED BY <2>1, <2>2, <1>0, <1>2, Using DEF Sources
<1> QED BY <1>4, <1>5, <1>6, <1>7, <1>8, <1>9

\* The session and the task that saves.
LEMMA SessionStep ==
    ASSUME CredentialsInvariant, NEW p \in Processes,
           LetIn(p) \/ SavePassword(p) \/ Leave(p) \/ Kill(p)
    PROVE  CredentialsInvariant'
<1> DEFINE s == run[p]
<1>r. s \in Runs /\ Good(s, accepted) /\ storage \in Storages BY DEF CredentialsInvariant
<1>s. s.step \in Steps BY <1>r DEF Runs
<1>1. CASE LetIn(p)
  <2> DEFINE r == [s EXCEPT !.step = "up"]
  <2>1. r \in Runs BY <1>r DEF Runs, Steps
  <2>2. /\ r.step = "up" /\ r.args = s.args /\ r.profile = s.profile /\ r.user = s.user
        /\ r.password = s.password /\ r.source = s.source /\ r.save = s.save
    BY <1>r DEF Runs
  <2>3. Lazy(r) BY <1>r, <2>2 DEF Good, Lazy, Early
  <2>4. Entitled(r) BY <1>r, <2>2 DEF Good, Entitled
  <2>5. accepted \subseteq accepted' BY <1>1 DEF LetIn
  <2>6. r.save => << <<s.profile.id, s.user>>, s.password >> \in accepted'
    BY <1>1, <2>2, <2>4 DEF LetIn, Entitled, Account
  <2>7. Confirmed(r, accepted') BY <2>2, <2>6 DEF Confirmed
  <2>8. Becomes(p, r) BY <1>1 DEF LetIn, GoesTo, Becomes, CredentialsInvariant
  <2>9. UNCHANGED keychain /\ UNCHANGED storage BY <1>1 DEF LetIn, At, world
  <2> QED BY <1>r, <2>1, <2>3, <2>4, <2>5, <2>7, <2>8, <2>9, OneRecord DEF Good
<1>2. CASE SavePassword(p)
  <2>0. UNCHANGED accepted /\ UNCHANGED storage BY <1>2 DEF SavePassword, world
  <2>1. PICK answer \in {"yes", "refused"} : run' = [run EXCEPT ![p].saved = answer]
    BY <1>2 DEF SavePassword
  <2> DEFINE r == [s EXCEPT !.saved = answer]
  <2>2. r \in Runs BY <1>r DEF Runs
  <2>3. /\ r.step = s.step /\ r.args = s.args /\ r.profile = s.profile /\ r.user = s.user
        /\ r.password = s.password /\ r.source = s.source /\ r.save = s.save
    BY <1>r DEF Runs
  <2>4. Good(r, accepted) BY <1>r, <2>3 DEF Good, Lazy, Entitled, Confirmed, Unspoilt
  <2>5. run' = [run EXCEPT ![p] = r] BY <2>1
  <2>6. run' \in [Processes -> Runs] BY <2>2, <2>5 DEF CredentialsInvariant
  <2>7. \A q \in Processes : Good(run'[q], accepted)
    BY <2>4, <2>5 DEF CredentialsInvariant
  <2>8. /\ SavedWereAccepted'
        /\ \A account \in DOMAIN keychain' : keychain'[account] \in Passwords
    <3>1. CASE UNCHANGED keychain
      BY <3>1, <2>0 DEF CredentialsInvariant, SavedWereAccepted
    <3>2. CASE keychain' = [account \in DOMAIN keychain \cup {Account(p)} |->
                 IF account = Account(p) THEN s.password ELSE keychain[account]]
      <4>1. << Account(p), s.password >> \in accepted
        BY <1>2, <1>r DEF SavePassword, MaySave, Good, Confirmed, Account
      <4>p. s.password \in Passwords
        BY <1>2, <1>r DEF SavePassword, MaySave, Good, Entitled
      <4>2. ASSUME NEW account \in DOMAIN keychain'
            PROVE  /\ << account, keychain'[account] >> \in accepted
                   /\ keychain'[account] \in Passwords
        <5>1. CASE account = Account(p) BY <5>1, <4>1, <4>p, <3>2
        <5>2. CASE account # Account(p)
          <6>1. account \in DOMAIN keychain /\ keychain'[account] = keychain[account]
            BY <5>2, <3>2
          <6> QED BY <6>1 DEF CredentialsInvariant, SavedWereAccepted
        <5> QED BY <5>1, <5>2
      <4> QED BY <4>2, <2>0 DEF SavedWereAccepted
    <3> QED BY <1>2, <3>1, <3>2 DEF SavePassword
  <2> QED BY <1>r, <2>0, <2>6, <2>7, <2>8 DEF CredentialsInvariant
<1>3. CASE Leave(p)
  <2>1. GoesTo(p, "done") /\ UNCHANGED keychain /\ UNCHANGED accepted /\ UNCHANGED storage
    BY <1>3 DEF Leave, world
  <2> QED BY <2>1, <1>s, GoingOn DEF Steps
<1>4. CASE Kill(p)
  <2>1. GoesTo(p, "killed") /\ UNCHANGED keychain /\ UNCHANGED accepted /\ UNCHANGED storage
    BY <1>4 DEF Kill, world
  <2> QED BY <2>1, <1>s, GoingOn DEF Steps
<1> QED BY <1>1, <1>2, <1>3, <1>4

\* Every step keeps the invariant.
LEMMA NextInvariant == CredentialsInvariant /\ [Next]_vars => CredentialsInvariant'
<1> SUFFICES ASSUME CredentialsInvariant, [Next]_vars PROVE CredentialsInvariant' OBVIOUS
<1>1. CASE UNCHANGED vars
  BY <1>1 DEF vars, world, CredentialsInvariant, SavedWereAccepted
<1>2. CASE ConnectChanges
  BY <1>2 DEF ConnectChanges, CredentialsInvariant, SavedWereAccepted
<1>3. ASSUME NEW u \in Users, Rotate(u) PROVE CredentialsInvariant'
  BY <1>3 DEF Rotate, CredentialsInvariant, SavedWereAccepted
<1>4. ASSUME NEW p \in Processes,
             Launch(p) \/ Unattended(p) \/ Attended(p) \/ Session(p) \/ Kill(p)
      PROVE  CredentialsInvariant'
  BY <1>4, ChoosingStep, ResolvingStep, SessionStep DEF Unattended, Attended, Session
<1> QED BY <1>1, <1>2, <1>3, <1>4 DEF Next

\* So it holds at all times.
LEMMA InvariantHolds == Spec => []CredentialsInvariant
<1> QED BY InitInvariant, NextInvariant, PTL DEF Spec

-----------------------------------------------------------------------------
\* What the server accepts changes by Rotate alone.
ServerTyped == server \in [Users -> Passwords] /\ rotations \in 0 .. MaxRotations

\* The server accepts a known password of each user at all times.
LEMMA ServerKeepsTypes == Spec => []ServerTyped
<1>1. Init => ServerTyped
  BY CredentialsAssumption DEF Init, ServerTyped, Passwords, CredentialsAssumption
<1>2. ASSUME ServerTyped, [Next]_vars PROVE ServerTyped'
  <2>1. CASE UNCHANGED <<server, rotations>> BY <1>2, <2>1 DEF ServerTyped
  <2>2. CASE \E u \in Users : Rotate(u)
    <3>1. PICK u \in Users : Rotate(u) BY <2>2
    <3>2. Changed(u) \in Passwords BY DEF Passwords
    <3>3. rotations + 1 \in 0 .. MaxRotations
      BY <1>2, <3>1, CredentialsAssumption DEF ServerTyped, Rotate, CredentialsAssumption
    <3> QED BY <1>2, <3>1, <3>2, <3>3 DEF ServerTyped, Rotate
  <2>3. UNCHANGED <<server, rotations>> \/ \E u \in Users : Rotate(u)
    BY <1>2 DEF vars, world, Next, ConnectChanges, Launch, Unattended, Attended, Session, At,
       ChooseProfile, Evaluate, ChooseUser, TypeUser, ReadEnvironment, ReadOwn, ReadConnect,
       TypePassword, LetIn, SavePassword, Leave, Kill
  <2> QED BY <2>1, <2>2, <2>3
<1> QED BY <1>1, <1>2, PTL DEF Spec

\* Every variable keeps its type: what is sent and what is saved is a password.
THEOREM CredentialsTypes == Spec => []TypeOK
<1>1. CredentialsInvariant /\ ServerTyped => TypeOK
  BY DEF CredentialsInvariant, ServerTyped, TypeOK, Runs
<1> QED BY <1>1, InvariantHolds, ServerKeepsTypes, PTL

-----------------------------------------------------------------------------
\* A password in the keychain was accepted by the server for that account, for any
\* number of processes that read and save it.
THEOREM SavedTheorem == Spec => []SavedWereAccepted
<1>1. CredentialsInvariant => SavedWereAccepted BY DEF CredentialsInvariant
<1> QED BY <1>1, InvariantHolds, PTL

\* No keychain is opened where credentials were given otherwise.
THEOREM LazyTheorem == Spec => []NoNeedlessAccess
<1>1. CredentialsInvariant => NoNeedlessAccess
  BY DEF CredentialsInvariant, NoNeedlessAccess, Good, Lazy, Early
<1> QED BY <1>1, InvariantHolds, PTL

\* Entries change only by a run that was asked to save the password it used.
THEOREM RequestTheorem == Spec => SavedOnRequestOnly
<1> DEFINE Reason(p, account) ==
      /\ run[p].args.save_password /\ run[p].source \notin {"own", "auth_file"}
      /\ account = <<run[p].profile.id, run[p].user>>
    OnRequest == \A account \in DOMAIN keychain' :
      account \notin DOMAIN keychain \/ keychain'[account] # keychain[account] =>
        \E p \in Processes : Reason(p, account)
<1>1. ASSUME CredentialsInvariant, [Next]_vars PROVE [OnRequest]_vars
  <2> SUFFICES ASSUME NEW account \in DOMAIN keychain',
                      account \notin DOMAIN keychain \/ keychain'[account] # keychain[account]
               PROVE  \E p \in Processes : Reason(p, account)
    OBVIOUS
  <2>1. keychain' # keychain OBVIOUS
  <2>2. PICK p \in Processes : SavePassword(p)
    BY <1>1, <2>1 DEF vars, Next, ConnectChanges, Rotate, Launch, Unattended, Attended, Session,
       ChooseProfile, Evaluate, ChooseUser, TypeUser, ReadEnvironment, ReadOwn, ReadConnect,
       TypePassword, LetIn, Leave, Kill
  <2>3. keychain' = [a \in DOMAIN keychain \cup {Account(p)} |->
                       IF a = Account(p) THEN run[p].password ELSE keychain[a]]
    BY <2>1, <2>2 DEF SavePassword
  <2>4. account = Account(p) BY <2>3
  <2>5. run[p].save /\ Good(run[p], accepted)
    BY <1>1, <2>2 DEF SavePassword, MaySave, CredentialsInvariant
  <2>6. Reason(p, account) BY <2>4, <2>5 DEF Good, Entitled, Account
  <2> QED BY <2>6
<1> QED BY <1>1, InvariantHolds, PTL DEF Spec, SavedOnRequestOnly
=============================================================================
