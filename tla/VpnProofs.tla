------------------------------ MODULE VpnProofs ------------------------------
(***************************************************************************)
(* Theorems about Vpn, for every number of tunnels, every capacity and     *)
(* every set of pushed options, and about what Parse makes of them.        *)
(***************************************************************************)
EXTENDS Vpn, Induction, SequenceTheorems

-----------------------------------------------------------------------------
(* Settings: what Parse makes of a list, by induction over its lines. *)

\* A line turns settings into settings.
LEMMA ApplyTyped ==
  ASSUME NEW found \in Settings, NEW line \in Lines
  PROVE  ApplyLine(found, line) \in Settings
<1>1. CASE line.name = "ifconfig"
  <2>1. line.address \in Addresses
    BY <1>1 DEF Lines
  <2> QED BY <1>1, <2>1 DEF ApplyLine, Settings
<1>2. CASE line.name = "ifconfig-ipv6"
  <2>1. line.address \in Addresses
    BY <1>2 DEF Lines
  <2> QED BY <1>2, <2>1 DEF ApplyLine, Settings
<1>3. CASE line.name = "dns"
  <2>1. line.addresses \in Seq(Addresses) /\ found.dns \in Seq(Addresses)
    BY <1>3 DEF Lines, Settings
  <2>2. found.dns \o line.addresses \in Seq(Addresses)
    BY <2>1
  <2> QED BY <1>3, <2>2 DEF ApplyLine, Settings
<1>4. CASE line.name = "tun-mtu"
  <2>1. line.value \in Nat /\ found.mtu \in Nat
    BY <1>4 DEF Lines, Settings
  <2>2. Min({found.mtu, line.value}) \in Nat
    BY <2>1, MinOf
  <2> QED BY <1>4, <2>2 DEF ApplyLine, Settings
<1>5. CASE line.name \in {"other", "garbled"}
  BY <1>5 DEF ApplyLine
<1> QED BY <1>1, <1>2, <1>3, <1>4, <1>5 DEF Lines

\* So are the settings before the first line.
LEMMA NothingReadTyped == ASSUME NEW configured \in Nat PROVE Nothing(configured) \in Settings
<1>1. <<>> \in Seq(Addresses)
  OBVIOUS
<1> QED BY <1>1 DEF Nothing, Settings

\* ReadLines applies the lines one after another.
LEMMA ReadFold ==
  ASSUME NEW options \in Seq(Lines), NEW configured \in Nat
  PROVE  \E h : /\ h[0] = Nothing(configured)
                /\ \A k \in 0 .. Len(options) - 1 : h[k + 1] = ApplyLine(h[k], options[k + 1])
                /\ ReadLines(options, configured) = h[Len(options)]
<1> DEFINE n == Len(options)
           base == Nothing(configured)
           G == [p \in Settings \X (1 .. n) |-> ApplyLine(p[1], options[p[2]])]
           Folding(g) == g = [s \in SUBSET (DOMAIN options) |->
                               IF s = {} THEN base
                               ELSE ApplyLine(g[s \ {Max(s)}], options[Max(s)])]
<1>1. n \in Nat /\ DOMAIN options = 1 .. n /\ base \in Settings
      /\ \A i \in 1 .. n : options[i] \in Lines
  BY NothingReadTyped
<1>2. G \in [Settings \X (1 .. n) -> Settings]
  BY <1>1, ApplyTyped
<1> HIDE DEF n, base
<1>3. PICK f \in [SUBSET (1 .. n) -> Settings] : FoldsOver(f, base, G, n)
  <2> HIDE DEF G
  <2> QED BY <1>1, <1>2, FoldExists DEF HasFold
<1>4. Folding(f)
  <2>1. ASSUME NEW s \in SUBSET (1 .. n)
        PROVE  f[s] = IF s = {} THEN base ELSE ApplyLine(f[s \ {Max(s)}], options[Max(s)])
    <3>1. CASE s # {}
      <4>1. s \in SUBSET (0 .. n)
        BY <1>1
      <4> DEFINE m == Max(s)
                 r == s \ {m}
      <4>2. m \in s
        BY <1>1, <3>1, <4>1, MaxOf
      <4>3. m \in 1 .. n /\ r \in SUBSET (1 .. n)
        BY <4>2
      <4>4. f[s] = G[<<f[r], m>>]
        BY <1>3, <3>1 DEF FoldsOver
      <4> HIDE DEF m, r
      <4>5. f[r] \in Settings
        BY <4>3
      <4>6. f[s] = ApplyLine(f[r], options[m])
        BY <4>3, <4>4, <4>5
      <4> QED BY <3>1, <4>6 DEF m, r
    <3>2. CASE s = {}
      BY <1>3, <3>2 DEF FoldsOver
    <3> QED BY <3>1, <3>2
  <2> QED BY <1>1, <2>1
<1> DEFINE iter == CHOOSE g : Folding(g)
<1>5. Folding(iter)
  BY <1>4
<1>6. ReadLines(options, configured) = iter[DOMAIN options]
  BY DEF ReadLines, FoldLeft, MapThenFoldSet, base
<1> HIDE DEF iter, G
<1>7. ASSUME NEW s \in SUBSET (1 .. n)
      PROVE  iter[s] = IF s = {} THEN base ELSE ApplyLine(iter[s \ {Max(s)}], options[Max(s)])
  BY <1>1, <1>5
<1> HIDE DEF Folding
<1> DEFINE h == [k \in 0 .. n |-> iter[1 .. k]]
<1>8. h[0] = base /\ h[n] = iter[DOMAIN options]
  <2>1. {} \in SUBSET (1 .. n) /\ 1 .. 0 = {} /\ 0 \in 0 .. n /\ n \in 0 .. n
    BY <1>1
  <2> QED BY <1>1, <1>7, <2>1
<1>9. ASSUME NEW k \in 0 .. n - 1 PROVE h[k + 1] = ApplyLine(h[k], options[k + 1])
  <2>1. k \in 0 .. n /\ k + 1 \in 0 .. n
    BY <1>1
  <2>2. /\ 1 .. k + 1 \in SUBSET (1 .. n) /\ 1 .. k + 1 # {}
        /\ Max(1 .. k + 1) = k + 1 /\ (1 .. k + 1) \ {k + 1} = 1 .. k
    BY <1>1, PrefixSets
  <2>3. iter[1 .. k + 1] = ApplyLine(iter[1 .. k], options[k + 1])
    BY <1>7, <2>2
  <2> QED BY <2>1, <2>3
<1> HIDE DEF h
<1> QED BY <1>6, <1>8, <1>9 DEF n, base

\* KeepAt appends the elements at these positions one after another.
LEMMA KeepFold ==
  ASSUME NEW V, NEW s \in Seq(V), NEW positions
  PROVE  \E h : /\ h[0] = <<>>
                /\ \A k \in 0 .. Len(s) - 1 :
                     h[k + 1] = IF k + 1 \in positions THEN Append(h[k], s[k + 1]) ELSE h[k]
                /\ KeepAt(s, positions) = h[Len(s)]
<1> DEFINE n == Len(s)
           at == [i \in DOMAIN s |-> i]
           Keep(kept, i) == IF i \in positions THEN Append(kept, s[i]) ELSE kept
           G == [p \in Seq(V) \X (1 .. n) |-> Keep(p[1], p[2])]
           Folding(g) == g = [t \in SUBSET (DOMAIN at) |->
                               IF t = {} THEN <<>>
                               ELSE Keep(g[t \ {Max(t)}], at[Max(t)])]
<1>1. n \in Nat /\ DOMAIN s = 1 .. n /\ \A i \in 1 .. n : s[i] \in V
  OBVIOUS
<1>2. G \in [Seq(V) \X (1 .. n) -> Seq(V)]
  <2>1. ASSUME NEW kept \in Seq(V), NEW i \in 1 .. n PROVE Keep(kept, i) \in Seq(V)
    <3>1. Append(kept, s[i]) \in Seq(V)
      BY <1>1
    <3> QED BY <3>1
  <2> HIDE DEF Keep, n
  <2> QED BY <2>1
<1>0. DOMAIN at = 1 .. n /\ \A i \in 1 .. n : at[i] = i
  BY <1>1
<1> HIDE DEF n, Keep, at
<1>3. PICK f \in [SUBSET (1 .. n) -> Seq(V)] : FoldsOver(f, <<>>, G, n)
  <2> HIDE DEF G
  <2>1. <<>> \in Seq(V)
    OBVIOUS
  <2> QED BY <1>1, <1>2, <2>1, FoldExists DEF HasFold
<1>4. Folding(f)
  <2>1. ASSUME NEW t \in SUBSET (1 .. n)
        PROVE  f[t] = IF t = {} THEN <<>> ELSE Keep(f[t \ {Max(t)}], at[Max(t)])
    <3>1. CASE t # {}
      <4>1. t \in SUBSET (0 .. n)
        BY <1>1
      <4> DEFINE m == Max(t)
                 r == t \ {m}
      <4>2. m \in t
        BY <1>1, <3>1, <4>1, MaxOf
      <4>3. m \in 1 .. n /\ r \in SUBSET (1 .. n)
        BY <4>2
      <4>4. f[t] = G[<<f[r], m>>]
        BY <1>3, <3>1 DEF FoldsOver
      <4> HIDE DEF m, r
      <4>5. f[r] \in Seq(V)
        BY <4>3
      <4>6. f[t] = Keep(f[r], at[m])
        BY <1>0, <4>3, <4>4, <4>5
      <4> QED BY <3>1, <4>6 DEF m, r
    <3>2. CASE t = {}
      BY <1>3, <3>2 DEF FoldsOver
    <3> QED BY <3>1, <3>2
  <2> QED BY <1>0, <2>1
<1> DEFINE iter == CHOOSE g : Folding(g)
<1>5. Folding(iter)
  BY <1>4
<1>6. KeepAt(s, positions) = iter[DOMAIN at]
  BY DEF KeepAt, FoldLeftDomain, FoldLeft, MapThenFoldSet, Keep, at
<1> HIDE DEF iter, G
<1>7. ASSUME NEW t \in SUBSET (1 .. n)
      PROVE  iter[t] = IF t = {} THEN <<>> ELSE Keep(iter[t \ {Max(t)}], at[Max(t)])
  BY <1>0, <1>5
<1> HIDE DEF Folding
<1> DEFINE h == [k \in 0 .. n |-> iter[1 .. k]]
<1>8. h[0] = <<>> /\ h[n] = iter[DOMAIN at]
  <2>1. {} \in SUBSET (1 .. n) /\ 1 .. 0 = {} /\ 0 \in 0 .. n /\ n \in 0 .. n
    BY <1>1
  <2> QED BY <1>0, <1>7, <2>1
<1>9. ASSUME NEW k \in 0 .. n - 1 PROVE h[k + 1] = Keep(h[k], k + 1)
  <2>1. k \in 0 .. n /\ k + 1 \in 0 .. n /\ k + 1 \in 1 .. n
    BY <1>1
  <2>2. /\ 1 .. k + 1 \in SUBSET (1 .. n) /\ 1 .. k + 1 # {}
        /\ Max(1 .. k + 1) = k + 1 /\ (1 .. k + 1) \ {k + 1} = 1 .. k
    BY <1>1, PrefixSets
  <2>3. iter[1 .. k + 1] = Keep(iter[1 .. k], k + 1)
    BY <1>0, <1>7, <2>1, <2>2
  <2> QED BY <2>1, <2>3
<1> HIDE DEF h
<1> QED BY <1>6, <1>8, <1>9 DEF n, Keep

\* What the first k lines ask for.
Named(options, name, k) == { j \in 1 .. k : options[j].name = name }
LastOf(options, name, k) ==
    { options[i].address : i \in { j \in Named(options, name, k) :
        \A l \in Named(options, name, k) : l <= j } }
ResolversOf(options, k) == UNION { ToSet(options[i].addresses) : i \in Named(options, "dns", k) }
MtusOf(options, k, configured) ==
    {configured} \cup { options[i].value : i \in Named(options, "tun-mtu", k) }

ReadsTo(found, options, k, configured) ==
    /\ found \in Settings
    /\ found.ipv4 = LastOf(options, "ifconfig", k)
    /\ found.ipv6 = LastOf(options, "ifconfig-ipv6", k)
    /\ ToSet(found.dns) = ResolversOf(options, k)
    /\ found.mtu \in MtusOf(options, k, configured)
    /\ \A m \in MtusOf(options, k, configured) : found.mtu <= m

\* One line more is one position more among those of its name.
LEMMA NamedStep ==
  ASSUME NEW options \in Seq(Lines), NEW k \in 0 .. Len(options) - 1, NEW name
  PROVE  Named(options, name, k + 1) =
           Named(options, name, k) \cup (IF options[k + 1].name = name THEN {k + 1} ELSE {})
  BY DEF Named

\* The address of the last line of a name, one line further.
LEMMA LastStep ==
  ASSUME NEW options \in Seq(Lines), NEW k \in 0 .. Len(options) - 1, NEW name
  PROVE  LastOf(options, name, k + 1) =
           IF options[k + 1].name = name THEN {options[k + 1].address}
           ELSE LastOf(options, name, k)
<1> DEFINE A == Named(options, name, k)
           B == Named(options, name, k + 1)
<1>1. B = A \cup (IF options[k + 1].name = name THEN {k + 1} ELSE {})
      /\ \A j \in A : j \in Nat /\ j < k + 1
  BY NamedStep DEF Named
<1>2. CASE options[k + 1].name = name
  <2>1. { j \in B : \A l \in B : l <= j } = {k + 1}
    <3> HIDE DEF A, B
    <3>1. B = A \cup {k + 1} /\ k + 1 \in Nat /\ ~ (k + 1 <= k)
      BY <1>1, <1>2
    <3> QED BY <1>1, <3>1
  <2> QED BY <1>2, <2>1 DEF LastOf
<1>3. CASE options[k + 1].name # name
  BY <1>1, <1>3 DEF LastOf
<1> QED BY <1>2, <1>3

\* The resolvers pushed so far, one line further.
LEMMA ResolversStep ==
  ASSUME NEW options \in Seq(Lines), NEW k \in 0 .. Len(options) - 1
  PROVE  ResolversOf(options, k + 1) = ResolversOf(options, k) \cup
           (IF options[k + 1].name = "dns" THEN ToSet(options[k + 1].addresses) ELSE {})
<1>1. Named(options, "dns", k + 1) = Named(options, "dns", k)
        \cup (IF options[k + 1].name = "dns" THEN {k + 1} ELSE {})
  BY NamedStep
<1>2. \A x, j : x \in ResolversOf(options, j)
        <=> \E i \in Named(options, "dns", j) : x \in ToSet(options[i].addresses)
  BY DEF ResolversOf
<1>3. ASSUME NEW x
      PROVE  x \in ResolversOf(options, k + 1) <=>
               \/ x \in ResolversOf(options, k)
               \/ options[k + 1].name = "dns" /\ x \in ToSet(options[k + 1].addresses)
  BY <1>1, <1>2
<1> QED BY <1>3

\* The MTUs met so far, one line further.
LEMMA MtusStep ==
  ASSUME NEW options \in Seq(Lines), NEW k \in 0 .. Len(options) - 1, NEW configured \in Nat
  PROVE  MtusOf(options, k + 1, configured) = MtusOf(options, k, configured) \cup
           (IF options[k + 1].name = "tun-mtu" THEN {options[k + 1].value} ELSE {})
<1>1. Named(options, "tun-mtu", k + 1) = Named(options, "tun-mtu", k)
        \cup (IF options[k + 1].name = "tun-mtu" THEN {k + 1} ELSE {})
  BY NamedStep
<1>2. \A x, j : x \in MtusOf(options, j, configured)
        <=> x = configured \/ \E i \in Named(options, "tun-mtu", j) : x = options[i].value
  BY DEF MtusOf
<1>3. ASSUME NEW x
      PROVE  x \in MtusOf(options, k + 1, configured) <=>
               \/ x \in MtusOf(options, k, configured)
               \/ options[k + 1].name = "tun-mtu" /\ x = options[k + 1].value
  BY <1>1, <1>2
<1> QED BY <1>3

\* Sequences put together have the elements of both.
LEMMA Concatenated ==
  ASSUME NEW V, NEW s \in Seq(V), NEW t \in Seq(V)
  PROVE  ToSet(s \o t) = ToSet(s) \cup ToSet(t)
<1>1. s \o t \in Seq(V) /\ Len(s \o t) = Len(s) + Len(t)
      /\ \A i \in 1 .. Len(s) + Len(t) : (s \o t)[i] = IF i <= Len(s) THEN s[i] ELSE t[i - Len(s)]
  OBVIOUS
<1>2. \A i \in 1 .. Len(t) : t[i] = (s \o t)[i + Len(s)] /\ i + Len(s) \in 1 .. Len(s) + Len(t)
  OBVIOUS
<1>3. /\ ToSet(s) = { s[i] : i \in 1 .. Len(s) } /\ ToSet(t) = { t[i] : i \in 1 .. Len(t) }
      /\ ToSet(s \o t) = { (s \o t)[i] : i \in 1 .. Len(s) + Len(t) }
  BY <1>1 DEF ToSet
<1>4. Len(s) \in Nat /\ Len(t) \in Nat
  OBVIOUS
<1>5. ASSUME NEW i \in 1 .. Len(s) + Len(t) PROVE (s \o t)[i] \in ToSet(s) \cup ToSet(t)
  <2>1. CASE i <= Len(s)
    <3>1. i \in 1 .. Len(s) /\ (s \o t)[i] = s[i]
      BY <1>1, <1>4, <2>1
    <3> QED BY <1>3, <3>1
  <2>2. CASE ~(i <= Len(s))
    <3>1. i - Len(s) \in 1 .. Len(t) /\ (s \o t)[i] = t[i - Len(s)]
      BY <1>1, <1>4, <2>2
    <3> QED BY <1>3, <3>1
  <2> QED BY <2>1, <2>2
<1>6. ASSUME NEW i \in 1 .. Len(s) PROVE s[i] \in ToSet(s \o t)
  <2>1. i \in 1 .. Len(s) + Len(t) /\ s[i] = (s \o t)[i]
    BY <1>1, <1>4
  <2> QED BY <1>3, <2>1
<1>7. ASSUME NEW i \in 1 .. Len(t) PROVE t[i] \in ToSet(s \o t)
  BY <1>2, <1>3
<1> QED BY <1>3, <1>5, <1>6, <1>7

\* What a line does to each field.
LEMMA AppliedFields ==
  ASSUME NEW found \in Settings, NEW line \in Lines
  PROVE  LET next == ApplyLine(found, line)
         IN  /\ next.ipv4 = IF line.name = "ifconfig" THEN {line.address} ELSE found.ipv4
             /\ next.ipv6 = IF line.name = "ifconfig-ipv6" THEN {line.address} ELSE found.ipv6
             /\ next.dns = IF line.name = "dns" THEN found.dns \o line.addresses ELSE found.dns
             /\ next.mtu = IF line.name = "tun-mtu" THEN Min({found.mtu, line.value})
                           ELSE found.mtu
<1>1. CASE line.name = "ifconfig"
  BY <1>1 DEF ApplyLine, Settings
<1>2. CASE line.name = "ifconfig-ipv6"
  BY <1>2 DEF ApplyLine, Settings
<1>3. CASE line.name = "dns"
  BY <1>3 DEF ApplyLine, Settings
<1>4. CASE line.name = "tun-mtu"
  BY <1>4 DEF ApplyLine, Settings
<1>5. CASE line.name \in {"other", "garbled"}
  BY <1>5 DEF ApplyLine
<1> QED BY <1>1, <1>2, <1>3, <1>4, <1>5 DEF Lines

\* If the settings after k lines are what those lines ask for, so are those after k + 1.
LEMMA ReadStep ==
  ASSUME NEW options \in Seq(Lines), NEW k \in 0 .. Len(options) - 1, NEW configured \in Nat,
         NEW found, ReadsTo(found, options, k, configured)
  PROVE  ReadsTo(ApplyLine(found, options[k + 1]), options, k + 1, configured)
<1> DEFINE line == options[k + 1]
           next == ApplyLine(found, line)
<1>1. line \in Lines /\ found \in Settings
  BY DEF ReadsTo
<1>2. next \in Settings
  BY <1>1, ApplyTyped
<1>3. /\ LastOf(options, "ifconfig", k + 1) =
           IF line.name = "ifconfig" THEN {line.address} ELSE found.ipv4
      /\ LastOf(options, "ifconfig-ipv6", k + 1) =
           IF line.name = "ifconfig-ipv6" THEN {line.address} ELSE found.ipv6
      /\ ResolversOf(options, k + 1) =
           ToSet(found.dns) \cup (IF line.name = "dns" THEN ToSet(line.addresses) ELSE {})
      /\ MtusOf(options, k + 1, configured) = MtusOf(options, k, configured) \cup
           (IF line.name = "tun-mtu" THEN {line.value} ELSE {})
  <2>1. found.ipv4 = LastOf(options, "ifconfig", k)
        /\ found.ipv6 = LastOf(options, "ifconfig-ipv6", k)
        /\ ToSet(found.dns) = ResolversOf(options, k)
    BY DEF ReadsTo
  <2>2. LastOf(options, "ifconfig", k + 1) =
          IF line.name = "ifconfig" THEN {line.address} ELSE found.ipv4
    <3>1. LastOf(options, "ifconfig", k + 1) =
            IF line.name = "ifconfig" THEN {line.address} ELSE LastOf(options, "ifconfig", k)
      BY LastStep
    <3> QED BY <2>1, <3>1, Zenon
  <2>3. LastOf(options, "ifconfig-ipv6", k + 1) =
          IF line.name = "ifconfig-ipv6" THEN {line.address} ELSE found.ipv6
    <3>1. LastOf(options, "ifconfig-ipv6", k + 1) =
            IF line.name = "ifconfig-ipv6" THEN {line.address} ELSE LastOf(options, "ifconfig-ipv6", k)
      BY LastStep
    <3> QED BY <2>1, <3>1, Zenon
  <2>4. ResolversOf(options, k + 1) =
          ToSet(found.dns) \cup (IF line.name = "dns" THEN ToSet(line.addresses) ELSE {})
    <3>1. ResolversOf(options, k + 1) = ResolversOf(options, k) \cup
            (IF line.name = "dns" THEN ToSet(line.addresses) ELSE {})
      BY ResolversStep
    <3> QED BY <2>1, <3>1, Zenon
  <2>5. MtusOf(options, k + 1, configured) = MtusOf(options, k, configured) \cup
          (IF line.name = "tun-mtu" THEN {line.value} ELSE {})
    BY MtusStep
  <2> QED BY <2>2, <2>3, <2>4, <2>5
<1>4. /\ next.ipv4 = IF line.name = "ifconfig" THEN {line.address} ELSE found.ipv4
      /\ next.ipv6 = IF line.name = "ifconfig-ipv6" THEN {line.address} ELSE found.ipv6
      /\ next.dns = IF line.name = "dns" THEN found.dns \o line.addresses ELSE found.dns
      /\ next.mtu = IF line.name = "tun-mtu" THEN Min({found.mtu, line.value}) ELSE found.mtu
  BY <1>1, AppliedFields
<1> HIDE DEF line, next
<1>5. ToSet(next.dns) = ResolversOf(options, k + 1)
  <2>1. CASE line.name = "dns"
    <3>1. line.addresses \in Seq(Addresses) /\ found.dns \in Seq(Addresses)
      BY <1>1, <2>1 DEF Lines, Settings
    <3>2. ToSet(found.dns \o line.addresses) = ToSet(found.dns) \cup ToSet(line.addresses)
      BY <3>1, Concatenated
    <3> QED BY <1>3, <1>4, <2>1, <3>2
  <2>2. CASE line.name # "dns"
    BY <1>3, <1>4, <2>2
  <2> QED BY <2>1, <2>2
<1>6. next.mtu \in MtusOf(options, k + 1, configured)
      /\ \A m \in MtusOf(options, k + 1, configured) : next.mtu <= m
  <2>1. CASE line.name = "tun-mtu"
    <3>1. line.value \in Nat /\ found.mtu \in Nat
      BY <1>1, <2>1 DEF Lines, Settings
    <3>2. Min({found.mtu, line.value}) \in {found.mtu, line.value}
          /\ Min({found.mtu, line.value}) <= found.mtu
          /\ Min({found.mtu, line.value}) <= line.value
      BY <3>1, MinOf
    <3>3. MtusOf(options, k, configured) \subseteq Nat
      <4>1. ASSUME NEW i \in Named(options, "tun-mtu", k) PROVE options[i].value \in Nat
        <5>1. options[i] \in Lines /\ options[i].name = "tun-mtu"
          BY DEF Named
        <5> QED BY <5>1 DEF Lines
      <4> QED BY <4>1 DEF MtusOf
    <3>4. found.mtu \in MtusOf(options, k, configured)
          /\ \A m \in MtusOf(options, k, configured) : found.mtu <= m
      BY DEF ReadsTo
    <3> DEFINE least == Min({found.mtu, line.value})
    <3>5. next.mtu = least /\ least \in Nat
          /\ MtusOf(options, k + 1, configured) = MtusOf(options, k, configured) \cup {line.value}
      BY <1>3, <1>4, <2>1, <3>1, <3>2
    <3> HIDE DEF least
    <3>6. least \in {found.mtu, line.value} /\ least <= found.mtu /\ least <= line.value
      BY <3>2 DEF least
    <3> QED BY <3>1, <3>3, <3>4, <3>5, <3>6
  <2>2. CASE line.name # "tun-mtu"
    BY <1>3, <1>4, <2>2 DEF ReadsTo
  <2> QED BY <2>1, <2>2
<1>7. ReadsTo(next, options, k + 1, configured)
  BY <1>2, <1>3, <1>4, <1>5, <1>6 DEF ReadsTo
<1> QED BY <1>7 DEF line, next

\* Reading line by line gives what the whole list asks for.
LEMMA ReadAll ==
  ASSUME NEW options \in Seq(Lines), NEW configured \in Nat
  PROVE  ReadsTo(ReadLines(options, configured), options, Len(options), configured)
<1> DEFINE n == Len(options)
<1>1. PICK h : /\ h[0] = Nothing(configured)
               /\ \A k \in 0 .. n - 1 : h[k + 1] = ApplyLine(h[k], options[k + 1])
               /\ ReadLines(options, configured) = h[n]
  BY ReadFold
<1> DEFINE S == { k \in 0 .. n : ReadsTo(h[k], options, k, configured) }
<1>2. 0 \in S
  <2>1. \A name : Named(options, name, 0) = {}
    BY DEF Named
  <2>2. ToSet(<<>>) = {}
    BY DEF ToSet
  <2>3. ReadsTo(Nothing(configured), options, 0, configured)
    BY <2>1, <2>2, NothingReadTyped
       DEF ReadsTo, Nothing, LastOf, ResolversOf, MtusOf
  <2> QED BY <1>1, <2>3
<1>3. ASSUME NEW k \in 0 .. n - 1, k \in S PROVE k + 1 \in S
  BY <1>1, <1>3, ReadStep
<1>4. n \in Nat /\ n \in 0 .. n
  OBVIOUS
<1>6. \A k \in 0 .. n - 1 : k \in S => k + 1 \in S
  BY <1>3
<1> HIDE DEF S, n
<1>5. n \in S
  BY <1>2, <1>4, <1>6, PrefixInduction
<1> QED BY <1>1, <1>5 DEF S, n

\* What Append adds.
LEMMA Appended ==
  ASSUME NEW V, NEW s \in Seq(V), NEW e \in V
  PROVE  /\ Append(s, e) \in Seq(V) /\ ToSet(Append(s, e)) = ToSet(s) \cup {e}
         /\ Len(Append(s, e)) = Len(s) + 1 /\ Append(s, e)[Len(s) + 1] = e
         /\ \A i \in 1 .. Len(s) : Append(s, e)[i] = s[i]
<1>1. /\ Append(s, e) \in Seq(V)
      /\ Len(Append(s, e)) = Len(s) + 1 /\ Append(s, e)[Len(s) + 1] = e
      /\ \A i \in 1 .. Len(s) : Append(s, e)[i] = s[i]
  OBVIOUS
<1>2. DOMAIN Append(s, e) = 1 .. Len(s) + 1 /\ DOMAIN s = 1 .. Len(s) /\ Len(s) \in Nat
  OBVIOUS
<1>3. 1 .. Len(s) + 1 = (1 .. Len(s)) \cup {Len(s) + 1}
  BY <1>2
<1>4. ToSet(Append(s, e)) = ToSet(s) \cup {e}
  BY <1>1, <1>2, <1>3 DEF ToSet
<1> QED BY <1>1, <1>4

\* KeepAt keeps the elements at these positions and no other.
LEMMA KeptElements ==
  ASSUME NEW V, NEW s \in Seq(V), NEW positions \in SUBSET DOMAIN s
  PROVE  /\ KeepAt(s, positions) \in Seq(V)
         /\ ToSet(KeepAt(s, positions)) = { s[i] : i \in positions }
<1> DEFINE n == Len(s)
           Those(k) == { s[i] : i \in positions \cap (1 .. k) }
<1>1. PICK h : /\ h[0] = <<>>
               /\ \A k \in 0 .. n - 1 :
                    h[k + 1] = IF k + 1 \in positions THEN Append(h[k], s[k + 1]) ELSE h[k]
               /\ KeepAt(s, positions) = h[n]
  BY KeepFold
<1>2. n \in Nat /\ n \in 0 .. n /\ \A i \in 1 .. n : s[i] \in V
  OBVIOUS
<1>3. DOMAIN s = 1 .. n
  OBVIOUS
<1> DEFINE S == { k \in 0 .. n : h[k] \in Seq(V) /\ ToSet(h[k]) = Those(k) }
<1> HIDE DEF n
<1>4. 0 \in S
  <2>1. ToSet(<<>>) = {} /\ <<>> \in Seq(V) /\ 1 .. 0 = {}
    BY DEF ToSet
  <2>2. Those(0) = {}
    BY <2>1
  <2>3. 0 \in 0 .. n
    BY <1>2
  <2> HIDE DEF Those
  <2> QED BY <1>1, <2>1, <2>2, <2>3
<1>5. ASSUME NEW k \in 0 .. n - 1, k \in S PROVE k + 1 \in S
  <2>1. k + 1 \in 1 .. n /\ k + 1 \in 0 .. n
    BY <1>2
  <2>2. 1 .. k + 1 = (1 .. k) \cup {k + 1}
    BY <1>2
  <2>3. CASE k + 1 \in positions
    <3>1. Those(k + 1) = Those(k) \cup {s[k + 1]}
      BY <2>2, <2>3
    <3>2. Append(h[k], s[k + 1]) \in Seq(V)
          /\ ToSet(Append(h[k], s[k + 1])) = ToSet(h[k]) \cup {s[k + 1]}
      BY <1>2, <1>5, <2>1, Appended
    <3> QED BY <1>1, <1>5, <2>1, <2>3, <3>1, <3>2
  <2>4. CASE k + 1 \notin positions
    <3>1. Those(k + 1) = Those(k)
      BY <2>2, <2>4
    <3> QED BY <1>1, <1>5, <2>1, <2>4, <3>1
  <2> QED BY <2>3, <2>4
<1>6. \A k \in 0 .. n - 1 : k \in S => k + 1 \in S
  BY <1>5
<1>7. n \in S
  <2> HIDE DEF S
  <2> QED BY <1>2, <1>4, <1>6, PrefixInduction
<1>8. Those(n) = { s[i] : i \in positions }
  BY <1>3
<1> QED BY <1>1, <1>7, <1>8

\* Dedup leaves the same elements and no equal neighbours.
LEMMA Deduplicated ==
  ASSUME NEW V, NEW s \in Seq(V)
  PROVE  /\ Dedup(s) \in Seq(V)
         /\ ToSet(Dedup(s)) = ToSet(s)
         /\ \A i \in 2 .. Len(Dedup(s)) : Dedup(s)[i - 1] # Dedup(s)[i]
<1> DEFINE n == Len(s)
           positions == { i \in DOMAIN s : i = 1 \/ s[i] # s[i - 1] }
<1>1. PICK h : /\ h[0] = <<>>
               /\ \A k \in 0 .. n - 1 :
                    h[k + 1] = IF k + 1 \in positions THEN Append(h[k], s[k + 1]) ELSE h[k]
               /\ Dedup(s) = h[n]
  BY KeepFold DEF Dedup
<1>2. n \in Nat /\ n \in 0 .. n /\ \A i \in 1 .. n : s[i] \in V
  OBVIOUS
<1>3. DOMAIN s = 1 .. n
  OBVIOUS
<1> DEFINE Good(k) == /\ h[k] \in Seq(V)
                      /\ ToSet(h[k]) = { s[i] : i \in 1 .. k }
                      /\ \A i \in 2 .. Len(h[k]) : h[k][i - 1] # h[k][i]
                      /\ k > 0 => Len(h[k]) > 0 /\ h[k][Len(h[k])] = s[k]
           S == { k \in 0 .. n : Good(k) }
<1>9. \A k \in 0 .. n - 1 : k + 1 \in positions <=> k = 0 \/ s[k + 1] # s[k]
  BY <1>2, <1>3
<1> HIDE DEF n, positions
<1>4. 0 \in S
  <2>1. ToSet(<<>>) = {} /\ <<>> \in Seq(V) /\ 1 .. 0 = {} /\ Len(<<>>) = 0
    BY DEF ToSet
  <2>2. Good(0)
    BY <1>1, <2>1
  <2> QED BY <1>2, <2>2
<1>5. ASSUME NEW k \in 0 .. n - 1, k \in S PROVE k + 1 \in S
  <2>1. k + 1 \in 1 .. n /\ k + 1 \in 0 .. n /\ k \in Nat
    BY <1>2
  <2>2. { s[i] : i \in 1 .. k + 1 } = { s[i] : i \in 1 .. k } \cup {s[k + 1]}
    <3>1. 1 .. k + 1 = (1 .. k) \cup {k + 1}
      BY <2>1
    <3> QED BY <3>1
  <2>3. CASE k + 1 \in positions
    <3> DEFINE longer == Append(h[k], s[k + 1])
    <3>1. h[k + 1] = longer
      BY <1>1, <2>3
    <3>2. h[k] \in Seq(V) /\ s[k + 1] \in V
      BY <1>2, <1>5, <2>1
    <3>3. /\ longer \in Seq(V) /\ ToSet(longer) = ToSet(h[k]) \cup {s[k + 1]}
          /\ Len(longer) = Len(h[k]) + 1 /\ longer[Len(h[k]) + 1] = s[k + 1]
          /\ \A i \in 1 .. Len(h[k]) : longer[i] = h[k][i]
      BY <3>2, Appended
    <3>4. Len(h[k]) \in Nat
      BY <3>2
    <3> HIDE DEF longer
    <3>5. ASSUME NEW i \in 2 .. Len(longer) PROVE longer[i - 1] # longer[i]
      <4>1. CASE i \in 2 .. Len(h[k])
        <5>1. i - 1 \in 1 .. Len(h[k]) /\ i \in 1 .. Len(h[k])
          BY <3>4, <4>1
        <5> QED BY <1>5, <3>3, <4>1, <5>1
      <4>2. CASE i = Len(h[k]) + 1
        <5>1. Len(h[k]) \in 1 .. Len(h[k]) /\ i - 1 = Len(h[k])
          BY <3>4, <4>2
        <5>2. k # 0
          <6>1. k = 0 => Len(h[k]) = 0
            BY <1>1
          <6> QED BY <5>1, <6>1
        <5>3. k > 0
          BY <2>1, <5>2
        <5>4. h[k][Len(h[k])] = s[k] /\ s[k + 1] # s[k]
          BY <1>5, <1>9, <2>3, <5>2, <5>3
        <5> QED BY <3>3, <4>2, <5>1, <5>4
      <4> QED BY <3>3, <3>4, <4>1, <4>2
    <3>6. Len(longer) > 0
      BY <3>3, <3>4
    <3>7. ToSet(longer) = { s[i] : i \in 1 .. k + 1 }
      BY <1>5, <2>2, <3>3
    <3>8. Good(k + 1)
      BY <3>1, <3>3, <3>5, <3>6, <3>7
    <3> QED BY <2>1, <3>8
  <2>4. CASE k + 1 \notin positions
    <3>1. k # 0 /\ s[k + 1] = s[k] /\ h[k + 1] = h[k]
      BY <1>1, <1>9, <2>4
    <3>2. k > 0 /\ k \in 1 .. k
      BY <2>1, <3>1
    <3>3. { s[i] : i \in 1 .. k + 1 } = { s[i] : i \in 1 .. k }
      BY <2>2, <3>1, <3>2
    <3>4. Good(k + 1)
      BY <1>5, <3>1, <3>2, <3>3
    <3> QED BY <2>1, <3>4
  <2> QED BY <2>3, <2>4
<1>6. \A k \in 0 .. n - 1 : k \in S => k + 1 \in S
  BY <1>5
<1>7. n \in S
  <2> HIDE DEF S
  <2> QED BY <1>2, <1>4, <1>6, PrefixInduction
<1>8. ToSet(s) = { s[i] : i \in 1 .. n }
  BY <1>3 DEF ToSet
<1> QED BY <1>1, <1>7, <1>8

\* The prefixes are those of the whole list in the end.
LEMMA AskedByAll ==
  ASSUME NEW options \in Seq(Lines), NEW configured \in Nat
  PROVE  LET n == Len(options)
         IN  /\ \A name : LastAddress(options, name) = LastOf(options, name, n)
             /\ UNION { ToSet(line.addresses) : line \in LinesOf(options, "dns") }
                  = ResolversOf(options, n)
             /\ {configured} \cup { line.value : line \in LinesOf(options, "tun-mtu") }
                  = MtusOf(options, n, configured)
<1> DEFINE n == Len(options)
<1>1. DOMAIN options = 1 .. n /\ n \in Nat
  OBVIOUS
<1> HIDE DEF n
<1>2. \A name : { j \in DOMAIN options : options[j].name = name } = Named(options, name, n)
  BY <1>1 DEF Named
<1>3. ASSUME NEW name PROVE LastAddress(options, name) = LastOf(options, name, n)
  <2> DEFINE A == { j \in DOMAIN options : /\ options[j].name = name
                      /\ \A k \in j + 1 .. n : options[k].name # name }
             B == { j \in Named(options, name, n) : \A l \in Named(options, name, n) : l <= j }
  <2>1. ASSUME NEW j \in 1 .. n
        PROVE  (\A k \in j + 1 .. n : options[k].name # name)
                 <=> \A l \in 1 .. n : options[l].name = name => l <= j
    BY <1>1
  <2>2. A = B
    BY <1>1, <2>1 DEF Named
  <2>3. LastAddress(options, name) = { options[i].address : i \in A }
    BY DEF LastAddress, n
  <2> QED BY <2>2, <2>3 DEF LastOf
<1>4. \A name, line : line \in LinesOf(options, name)
                        <=> \E i \in Named(options, name, n) : line = options[i]
  BY <1>2 DEF LinesOf
<1>5. UNION { ToSet(line.addresses) : line \in LinesOf(options, "dns") } = ResolversOf(options, n)
  <2>1. \A x : x \in ResolversOf(options, n)
          <=> \E i \in Named(options, "dns", n) : x \in ToSet(options[i].addresses)
    BY DEF ResolversOf
  <2>2. \A x : x \in UNION { ToSet(line.addresses) : line \in LinesOf(options, "dns") }
          <=> \E line \in LinesOf(options, "dns") : x \in ToSet(line.addresses)
    OBVIOUS
  <2> QED BY <1>4, <2>1, <2>2
<1>6. {configured} \cup { line.value : line \in LinesOf(options, "tun-mtu") }
        = MtusOf(options, n, configured)
  <2>1. \A x : x \in MtusOf(options, n, configured)
          <=> x = configured \/ \E i \in Named(options, "tun-mtu", n) : x = options[i].value
    BY DEF MtusOf
  <2>2. \A x : x \in {configured} \cup { line.value : line \in LinesOf(options, "tun-mtu") }
          <=> x = configured \/ \E line \in LinesOf(options, "tun-mtu") : x = line.value
    OBVIOUS
  <2> QED BY <1>4, <2>1, <2>2
<1> QED BY <1>3, <1>5, <1>6 DEF n

\* What the lines of a list give is what the list asks for.
LEMMA ReadAsAsked ==
  ASSUME NEW options \in Seq(Lines), NEW configured \in Nat,
         NEW dns_override \in Seq(Addresses)
  PROVE  LET read == ReadLines(options, configured)
             asked == Asked(options, configured, dns_override)
             resolvers == Resolvers(read, dns_override)
         IN  /\ read \in Settings /\ resolvers \in Seq(Addresses)
             /\ read.ipv4 = asked.ipv4 /\ read.ipv6 = asked.ipv6 /\ read.mtu = asked.mtu
             /\ ToSet(resolvers) = asked.dns
<1> DEFINE read == ReadLines(options, configured)
           asked == Asked(options, configured, dns_override)
           resolvers == Resolvers(read, dns_override)
           n == Len(options)
           mtus == MtusOf(options, n, configured)
           smallest == Min(mtus)
<1>1. ReadsTo(read, options, n, configured)
  BY ReadAll
<1>2. read.ipv4 = asked.ipv4 /\ read.ipv6 = asked.ipv6
  BY <1>1, AskedByAll DEF ReadsTo, Asked
<1>3. read.mtu = asked.mtu
  <2>1. asked.mtu = smallest
    BY AskedByAll DEF Asked
  <2>2. mtus \in SUBSET Nat
    <3>1. ASSUME NEW i \in Named(options, "tun-mtu", n) PROVE options[i].value \in Nat
      <4>1. options[i] \in Lines /\ options[i].name = "tun-mtu"
        BY DEF Named
      <4> QED BY <4>1 DEF Lines
    <3> QED BY <3>1 DEF MtusOf
  <2>3. read.mtu \in mtus /\ \A m \in mtus : read.mtu <= m
    BY <1>1 DEF ReadsTo
  <2>4. smallest \in mtus /\ \A m \in mtus : smallest <= m
    <3> HIDE DEF mtus
    <3> QED BY <2>2, <2>3, MinOf
  <2> HIDE DEF mtus, smallest, read, asked
  <2>5. read.mtu <= smallest /\ smallest <= read.mtu /\ read.mtu \in Nat /\ smallest \in Nat
    BY <2>2, <2>3, <2>4
  <2> QED BY <2>1, <2>5
<1>4. read \in Settings /\ resolvers \in Seq(Addresses)
  BY <1>1 DEF ReadsTo, Resolvers, Settings
<1>5. ToSet(resolvers) = asked.dns
  <2>1. CASE dns_override = <<>>
    BY <1>1, <2>1, AskedByAll DEF ReadsTo, Asked, Resolvers
  <2>2. CASE dns_override # <<>>
    BY <2>2 DEF Asked, Resolvers
  <2> QED BY <2>1, <2>2
<1> QED BY <1>2, <1>3, <1>4, <1>5

\* In a readable list the address of an interface is of its family.
LEMMA ReadableFamilies ==
  ASSUME NEW options \in Seq(Lines), \A i \in DOMAIN options : ~ Unreadable(options[i])
  PROVE  /\ \A a \in LastAddress(options, "ifconfig") : a.family = 4
         /\ \A a \in LastAddress(options, "ifconfig-ipv6") : a.family = 6
  BY DEF LastAddress, Unreadable

\* The resolvers that stay, once the list has been read.
LEMMA ReachableResolvers ==
  ASSUME NEW all \in Settings
  PROVE  /\ Dedup(Reachable(all)) \in Seq(Addresses)
         /\ ToSet(Dedup(Reachable(all))) = { a \in ToSet(all.dns) : SupportsFamily(all, a) }
         /\ \A i \in 2 .. Len(Dedup(Reachable(all))) :
              Dedup(Reachable(all))[i - 1] # Dedup(Reachable(all))[i]
<1>1. all.dns \in Seq(Addresses)
  BY DEF Settings
<1> DEFINE positions == { i \in DOMAIN all.dns : SupportsFamily(all, all.dns[i]) }
<1>2. positions \in SUBSET DOMAIN all.dns
  OBVIOUS
<1>3. Reachable(all) \in Seq(Addresses)
      /\ ToSet(Reachable(all)) = { all.dns[i] : i \in positions }
  <2> HIDE DEF positions
  <2>1. KeepAt(all.dns, positions) \in Seq(Addresses)
        /\ ToSet(KeepAt(all.dns, positions)) = { all.dns[i] : i \in positions }
    BY <1>1, <1>2, KeptElements
  <2> QED BY <2>1 DEF Reachable, positions
<1>4. { all.dns[i] : i \in positions } = { a \in ToSet(all.dns) : SupportsFamily(all, a) }
  BY DEF ToSet
<1> HIDE DEF positions
<1> QED BY <1>3, <1>4, Deduplicated

\* Parse gives what the list asks for, whatever the list.
THEOREM ParseRightTheorem ==
  ASSUME NEW options \in Seq(Lines), NEW configured \in Nat,
         NEW dns_override \in Seq(Addresses)
  PROVE  ParsedRight(options, configured, dns_override)
<1> DEFINE read == ReadLines(options, configured)
           all == [read EXCEPT !.dns = Resolvers(read, dns_override)]
           asked == Asked(options, configured, dns_override)
           readable == \A i \in DOMAIN options : ~ Unreadable(options[i])
           left == Dedup(Reachable(all))
           parsed == Parse(options, configured, dns_override)
<1>1. all \in Settings /\ all.ipv4 = asked.ipv4 /\ all.ipv6 = asked.ipv6
      /\ all.mtu = asked.mtu /\ ToSet(all.dns) = asked.dns
  <2> HIDE DEF asked
  <2>1. read \in Settings /\ Resolvers(read, dns_override) \in Seq(Addresses)
        /\ read.ipv4 = asked.ipv4 /\ read.ipv6 = asked.ipv6 /\ read.mtu = asked.mtu
        /\ ToSet(Resolvers(read, dns_override)) = asked.dns
    BY ReadAsAsked DEF asked
  <2> HIDE DEF read
  <2> QED BY <2>1 DEF Settings
<1>2. readable => /\ \A a \in asked.ipv4 : a.family = 4
                  /\ \A a \in asked.ipv6 : a.family = 6
  BY ReadableFamilies DEF Asked
<1>3. parsed = IF readable /\ Acceptable(all) THEN [all EXCEPT !.dns = left] ELSE Refused
  <2>1. CASE readable
    BY <2>1 DEF Parse
  <2>2. CASE ~ readable
    BY <2>2 DEF Parse
  <2> QED BY <2>1, <2>2
<1> HIDE DEF asked, all, parsed, readable, left
<1>4. Acceptable(all) <=> MayBeUsed(asked)
  <2> DEFINE m == all.mtu
             six == asked.ipv6 # {}
             some == asked.ipv4 \cup asked.ipv6 # {}
             hosts == \A a \in asked.ipv4 \cup asked.ipv6 \cup asked.dns : a.kind = "host"
             least == IF asked.ipv6 = {} THEN 576 ELSE 1280
             within == m \in least .. 9000
             small == m \in 576 .. 9000
             enough == m >= 1280
             large == m \in 1280 .. 9000
  <2>1. Acceptable(all) <=> some /\ hosts /\ small /\ (six => enough)
    <3>1. all.ipv4 \cup all.ipv6 \cup ToSet(all.dns)
            = asked.ipv4 \cup asked.ipv6 \cup asked.dns
      BY <1>1
    <3>2. Acceptable(all) <=>
            /\ all.ipv4 \cup all.ipv6 # {} /\ small /\ (all.ipv6 # {} => enough)
            /\ \A a \in all.ipv4 \cup all.ipv6 \cup ToSet(all.dns) : a.kind = "host"
      BY DEF Acceptable
    <3> HIDE DEF m, small, enough
    <3> QED BY <1>1, <3>1, <3>2
  <2>2. m = asked.mtu /\ m \in Nat
    BY <1>1 DEF Settings
  <2>3. MayBeUsed(asked) <=> some /\ hosts /\ within
    <3>1. MayBeUsed(asked) <=> some /\ hosts /\ asked.mtu \in least .. 9000
      BY DEF MayBeUsed
    <3>2. m = asked.mtu
      BY <2>2
    <3> HIDE DEF m, least, some, hosts
    <3> QED BY <3>1, <3>2
  <2>4. ASSUME six PROVE within <=> large
    <3>1. least = 1280
      BY <2>4
    <3> HIDE DEF m, least
    <3> QED BY <3>1
  <2>5. ASSUME ~ six PROVE within <=> small
    <3>1. least = 576
      BY <2>5
    <3> HIDE DEF m, least
    <3> QED BY <3>1
  <2>6. small /\ enough <=> large
    <3>1. m \in Nat
      BY <2>2
    <3> HIDE DEF m
    <3>2. ASSUME small, enough PROVE large
      BY <3>1, <3>2, SMTT(30)
    <3>3. ASSUME large PROVE small
      BY <3>1, <3>3
    <3>4. ASSUME large PROVE enough
      BY <3>1, <3>4
    <3> HIDE DEF small, enough, large
    <3> QED BY <3>2, <3>3, <3>4
  <2> HIDE DEF six, some, hosts, within, small, enough, large
  <2> QED BY <2>1, <2>3, <2>4, <2>5, <2>6
<1>5. /\ left \in Seq(Addresses)
      /\ ToSet(left) = { a \in asked.dns : SupportsFamily(all, a) }
      /\ \A i \in 2 .. Len(left) : left[i - 1] # left[i]
  BY <1>1, ReachableResolvers DEF left
<1>6. \A a : SupportsFamily(all, a) <=> SupportsFamily(asked, a)
  BY <1>1 DEF SupportsFamily
<1>7. CASE readable /\ Acceptable(all)
  <2>1. /\ parsed.ok = TRUE /\ parsed \in Settings /\ parsed.ipv4 = asked.ipv4
        /\ parsed.ipv6 = asked.ipv6 /\ parsed.mtu = asked.mtu /\ parsed.dns = left
    BY <1>1, <1>3, <1>5, <1>7 DEF Settings
  <2>2. MayBeUsed(asked) /\ parsed.mtu \in Nat
    BY <1>4, <1>7, <2>1 DEF Settings
  <2>3. \A a : SupportsFamily(parsed, a) <=> SupportsFamily(asked, a)
    BY <2>1 DEF SupportsFamily
  <2>4. ToSet(left) = { a \in asked.dns : SupportsFamily(asked, a) }
    BY <1>5, <1>6
  <2>5. AsAsked(parsed, options, configured, dns_override)
    BY <1>7, <2>1, <2>2, <2>4 DEF AsAsked, asked, readable
  <2>6. Usable(parsed)
    <3>1. \A a \in asked.ipv4 \cup asked.ipv6 : SupportsFamily(asked, a)
      BY <1>2, <1>7 DEF SupportsFamily
    <3>2. \A a \in parsed.ipv4 \cup parsed.ipv6 \cup ToSet(parsed.dns) :
            a.kind = "host" /\ SupportsFamily(parsed, a)
      BY <2>1, <2>2, <2>3, <2>4, <3>1 DEF MayBeUsed
    <3> QED BY <1>5, <2>1, <2>2, <3>2 DEF Usable, MayBeUsed
  <2> QED BY <2>5, <2>6 DEF ParsedRight, parsed
<1>8. CASE ~ (readable /\ Acceptable(all))
  <2>1. parsed.ok = FALSE
    BY <1>3, <1>8 DEF Refused
  <2>2. ~ (readable /\ MayBeUsed(asked))
    BY <1>4, <1>8
  <2>3. AsAsked(parsed, options, configured, dns_override)
    BY <2>1, <2>2 DEF AsAsked, asked, readable
  <2> QED BY <2>1, <2>3 DEF ParsedRight, parsed
<1> QED BY <1>7, <1>8

-----------------------------------------------------------------------------

\* What the later proofs use of the constants.
LEMMA Bounds ==
    ConfiguredMtus \subseteq Nat /\ MaxTunnels \in Nat /\ MaxPackets \in Nat /\ MaxCommands \in Nat
  BY VpnAssumption DEF VpnAssumption

USE Bounds DEF state, core, channels, stack, history

-----------------------------------------------------------------------------
(* Types. *)

\* Refused settings, and no engine, are typed.
LEMMA NothingTyped == Refused \in Parsed /\ NoEngine \in Engines
<1>1. Refused \in Parsed
  BY DEF Parsed
<1> QED BY <1>1 DEF Engines, NoEngine

\* The initial state is well typed.
LEMMA InitTyped == Init => TypeOK
<1> SUFFICES ASSUME Init PROVE TypeOK OBVIOUS
<1>1. mtu \in Mtus
  BY DEF Init, Mtus
<1>2. commands \in Seq(Commands) /\ packets \in Seq([gen : Nat, from : Nat])
  BY DEF Init
<1>3. active \in BOOLEAN
  BY DEF Init
<1> QED BY <1>1, <1>2, <1>3, NothingTyped DEF Init, TypeOK

\* What start has parsed is what Parse makes of options the server may push.
LEMMA ParseTyped ==
  ASSUME TypeOK, NEW options \in PushedOptions
  PROVE  Parse(options, mtu, DnsOverride) \in Parsed
  BY DEF TypeOK, Parsed

\* Sending keeps the commands typed, and gone if the worker is.
LEMMA SendTyped ==
  ASSUME TypeOK, NEW c \in Commands, Send(c)
  PROVE  commands' \in Seq(Commands) /\ (worker = "stopped" => commands' = <<>>)
  BY DEF TypeOK, Send

\* Every callback keeps the types.
LEMMA CallbackTyped == ASSUME TypeOK, Callbacks PROVE TypeOK'
<1>1. ASSUME NEW configured \in ConfiguredMtus, NEW layer \in {2, 3},
             Configure(layer, configured)
      PROVE  TypeOK'
  BY <1>1 DEF Configure, TypeOK, Mtus
<1>2. ASSUME NEW options \in PushedOptions, StartParse(options) PROVE TypeOK'
  <2>1. Parse(options, mtu, DnsOverride) \in Parsed
    BY ParseTyped
  <2>2. settings' \in Parsed /\ step' \in {"idle", "publish"}
    BY <1>2, <2>1 DEF StartParse, TypeOK
  <2> QED BY <1>2, <2>2 DEF StartParse, TypeOK
<1>3. CASE Publish
  BY <1>3 DEF Publish, TypeOK
<1>4. CASE Announce
  <2>1. Online \in Commands
    BY DEF TypeOK, Online, Commands
  <2>2. commands' \in Seq(Commands) /\ (worker = "stopped" => commands' = <<>>)
    BY <1>4, <2>1, SendTyped DEF Announce
  <2>3. announced' \in Nat /\ active' \in BOOLEAN /\ step' \in {"activate", "idle"}
    BY <1>4 DEF Announce, TypeOK
  <2> QED BY <1>4, <2>2, <2>3 DEF Announce, TypeOK
<1>5. Offline \in Commands
  BY DEF TypeOK, Offline, Commands
<1>6. CASE Activate
  BY <1>5, <1>6, SendTyped DEF Activate, TypeOK
<1>7. CASE Stop
  <2>1. active' \in BOOLEAN
    BY <1>7 DEF Stop
  <2> QED BY <1>5, <1>7, <2>1, SendTyped DEF Stop, TypeOK
<1>8. CASE Receive
  BY <1>8 DEF Receive, TypeOK
<1> QED BY <1>1, <1>2, <1>3, <1>4, <1>6, <1>7, <1>8 DEF Callbacks, Start

\* A command leaves an Engine behind, or none.
LEMMA ObeyTyped ==
  ASSUME TypeOK, NEW c \in Commands
  PROVE  Obey(c) \in Engines
<1>1. CASE c.op = "online"
  BY <1>1 DEF Obey, Commands, Engines
<1>2. CASE c.op = "offline"
  BY <1>2, NothingTyped DEF Obey, TypeOK
<1> QED BY <1>1, <1>2 DEF Commands

\* So does the worker.
LEMMA WorkerTyped == ASSUME TypeOK, Worker PROVE TypeOK'
<1>1. CASE TakeCommand
  <2>1. Head(commands) \in Commands /\ Tail(commands) \in Seq(Commands)
    BY <1>1 DEF TakeCommand, TypeOK
  <2>2. engine' \in Engines
    BY <1>1, <2>1, ObeyTyped DEF TakeCommand
  <2> QED BY <1>1, <2>1, <2>2 DEF TakeCommand, TypeOK
<1>2. CASE TakePacket
  BY <1>2 DEF TakePacket, TypeOK
<1>3. NoEngine \in Engines
  BY NothingTyped
<1>4. CASE SinkFails
  BY <1>3, <1>4 DEF SinkFails, TypeOK
<1>5. CASE StopWorker
  <2>1. active' \in BOOLEAN
    BY <1>5 DEF StopWorker
  <2>2. commands' \in Seq(Commands) /\ packets' \in Seq([gen : Nat, from : Nat])
    BY <1>5 DEF StopWorker
  <2> QED BY <1>3, <1>5, <2>1, <2>2 DEF StopWorker, TypeOK
<1> QED BY <1>1, <1>2, <1>4, <1>5 DEF Worker

\* So does every step.
LEMMA NextTyped == TypeOK /\ [Next]_vars => TypeOK'
<1>1. ASSUME TypeOK, UNCHANGED vars PROVE TypeOK'
  BY <1>1 DEF vars, TypeOK
<1> QED BY <1>1, CallbackTyped, WorkerTyped DEF Next

\* Every variable keeps its type; a worker that has ended holds nothing.
THEOREM VpnTypes == Spec => []TypeOK
<1> QED BY InitTyped, NextTyped, PTL DEF Spec

-----------------------------------------------------------------------------
(* The core and its tunnel. *)

\* What a callback knows of the tunnel it is about.
CoreAgrees ==
    /\ io # 0 => io = tunnel
    /\ step \in {"publish", "announce"} => tunnel # 0 /\ ~active
    /\ step = "announce" => io = tunnel /\ generation # 0
    /\ active => tunnel # 0 /\ worker = "running"
    /\ worker = "running" =>
         announced = IF step = "announce" THEN generation - 1 ELSE generation

\* State and core agree at first.
LEMMA InitAgrees == Init => CoreAgrees
  BY DEF Init, CoreAgrees

\* Every step keeps them in agreement.
LEMMA NextAgrees == ASSUME TypeOK, CoreAgrees, [Next]_vars PROVE CoreAgrees'
<1>1. CASE UNCHANGED vars
  BY <1>1 DEF vars, CoreAgrees
<1>2. ASSUME NEW configured \in ConfiguredMtus, NEW layer \in {2, 3},
             Configure(layer, configured)
      PROVE  CoreAgrees'
  BY <1>2 DEF Configure, CoreAgrees
<1>3. ASSUME NEW options \in PushedOptions, StartParse(options) PROVE CoreAgrees'
  <2>1. tunnel = 0 /\ tunnel' # 0 /\ ~active /\ io = 0 /\ step' \in {"idle", "publish"}
    BY <1>3 DEF StartParse, CoreAgrees, TypeOK
  <2>2. UNCHANGED <<io, generation, worker, active, announced>> /\ step = "idle"
    BY <1>3 DEF StartParse
  <2> QED BY <2>1, <2>2 DEF CoreAgrees
<1>4. CASE Publish
  BY <1>4 DEF Publish, CoreAgrees, TypeOK
<1>5. CASE Announce
  BY <1>5 DEF Announce, CoreAgrees, TypeOK
<1>6. CASE Activate
  BY <1>6 DEF Activate, CoreAgrees, TypeOK
<1>7. CASE Stop
  BY <1>7 DEF Stop, MayCall, CoreAgrees, TypeOK
<1>8. CASE Receive
  BY <1>8 DEF Receive, CoreAgrees
<1>9. CASE Worker
  BY <1>9 DEF Worker, TakeCommand, TakePacket, SinkFails, StopWorker, CoreAgrees, TypeOK
<1> QED BY <1>1, <1>2, <1>3, <1>4, <1>5, <1>6, <1>7, <1>8, <1>9 DEF Next, Callbacks, Start

-----------------------------------------------------------------------------
(* Packets: a generation stands for one tunnel of the core. *)

\* Somewhere between the core and the engine, generation g is that of tunnel t.
Binds(g, t) ==
    \/ \E i \in DOMAIN packets : packets[i].gen = g /\ packets[i].from = t
    \/ \E i \in DOMAIN commands :
         commands[i].op = "online" /\ commands[i].gen = g /\ commands[i].sink = t
    \/ engine.gen # 0 /\ engine.gen = g /\ engine.sink = t
    \/ io # 0 /\ generation = g /\ io = t

OneTunnel ==
    /\ \A g, t, u \in Nat : Binds(g, t) /\ Binds(g, u) => t = u
    /\ \A g, t \in Nat : Binds(g, t) => 0 < g /\ g <= generation

\* After a send the commands are those before, and the one sent unless the worker is gone.
LEMMA CommandsGrow ==
  ASSUME TypeOK, NEW c \in Commands, Send(c), NEW i \in DOMAIN commands'
  PROVE  \/ i \in DOMAIN commands /\ commands'[i] = commands[i]
         \/ commands'[i] = c /\ worker = "running" /\ i = Len(commands) + 1
  BY DEF TypeOK, Send

\* Only Publish gives a generation to a tunnel.
LEMMA CallbackBinds ==
  ASSUME TypeOK, CoreAgrees, Callbacks, NEW g \in Nat, NEW t \in Nat, Binds(g, t)'
  PROVE  Binds(g, t) \/ (Publish /\ g = generation + 1 /\ t = tunnel)
<1>1. ASSUME NEW configured \in ConfiguredMtus, NEW layer \in {2, 3},
             Configure(layer, configured)
      PROVE  Binds(g, t)
  BY <1>1 DEF Configure, Binds
<1>2. ASSUME NEW options \in PushedOptions, StartParse(options) PROVE Binds(g, t)
  BY <1>2 DEF StartParse, Binds
<1>3. CASE Publish
  BY <1>3 DEF Publish, Binds
<1>4. CASE Announce
  <2>1. Online \in Commands
    BY DEF TypeOK, Online, Commands
  <2>2. Send(Online) /\ UNCHANGED <<packets, engine, io, generation>> /\ io = tunnel /\ tunnel # 0
    BY <1>4 DEF Announce, CoreAgrees
  <2> QED BY <2>1, <2>2, CommandsGrow DEF Binds, Online
<1>5. Offline \in Commands /\ Offline.op # "online"
  BY DEF TypeOK, Offline, Commands
<1>6. CASE Activate
  <2>1. UNCHANGED commands \/ Send(Offline)
    BY <1>6 DEF Activate
  <2> QED BY <1>5, <1>6, <2>1, CommandsGrow DEF Activate, Binds
<1>7. CASE Stop
  BY <1>5, <1>7, CommandsGrow DEF Stop, Binds
<1>8. CASE Receive
  <2>1. packets' = Append(packets, [gen |-> generation, from |-> tunnel]) /\ io = tunnel /\ io # 0
    BY <1>8 DEF Receive, CoreAgrees
  <2>2. ASSUME NEW i \in DOMAIN packets', packets'[i].gen = g, packets'[i].from = t
        PROVE  Binds(g, t)
    <3> DEFINE p == [gen |-> generation, from |-> tunnel]
    <3>1. p.gen = generation /\ p.from = tunnel
      OBVIOUS
    <3> HIDE DEF p
    <3>2. packets' = Append(packets, p) /\ packets \in Seq([gen : Nat, from : Nat])
      BY <2>1 DEF TypeOK, p
    <3>3. \/ i \in DOMAIN packets /\ packets'[i] = packets[i]
          \/ packets'[i] = p
      <4>1. i \in 1 .. Len(packets) + 1 /\ DOMAIN packets = 1 .. Len(packets) /\ Len(packets) \in Nat
        BY <3>2
      <4>2. CASE i = Len(packets) + 1
        BY <3>2, <4>1, <4>2
      <4>3. CASE i \in 1 .. Len(packets)
        BY <3>2, <4>1, <4>3
      <4> QED BY <4>1, <4>2, <4>3
    <3> QED BY <2>1, <2>2, <3>1, <3>3 DEF Binds
  <2> QED BY <1>8, <2>2 DEF Receive, Binds
<1> QED BY <1>1, <1>2, <1>3, <1>4, <1>6, <1>7, <1>8 DEF Callbacks, Start

\* What the command at the head of the channel leaves behind.
LEMMA ObeyCases ==
  ASSUME TypeOK, TakeCommand
  PROVE  LET c == commands[1] IN
         /\ 1 \in DOMAIN commands /\ c \in Commands
         /\ \A i \in DOMAIN commands' : i + 1 \in DOMAIN commands /\ commands'[i] = commands[i + 1]
         /\ \A i \in DOMAIN commands : i # 1 => i - 1 \in DOMAIN commands'
         /\ c.op = "online" => engine' = [gen |-> c.gen, sink |-> c.sink, settings |-> c.settings]
         /\ c.op = "offline" => engine' = IF engine.gen = c.gen THEN NoEngine ELSE engine
<1>1. commands \in Seq(Commands) /\ commands # <<>> /\ commands' = Tail(commands)
  BY DEF TakeCommand, TypeOK
<1>2. Head(commands) = commands[1] /\ 1 \in DOMAIN commands /\ commands[1] \in Commands
  BY <1>1
<1>3. /\ \A i \in DOMAIN commands' : i + 1 \in DOMAIN commands /\ commands'[i] = commands[i + 1]
      /\ \A i \in DOMAIN commands : i # 1 => i - 1 \in DOMAIN commands'
  BY <1>1
<1>4. engine' = Obey(commands[1])
  BY <1>2 DEF TakeCommand
<1>5. commands[1].op = "online" =>
        engine' = [gen |-> commands[1].gen, sink |-> commands[1].sink,
                   settings |-> commands[1].settings]
  BY <1>4 DEF Obey
<1>6. commands[1].op = "offline" =>
        engine' = IF engine.gen = commands[1].gen THEN NoEngine ELSE engine
  BY <1>4 DEF Obey
<1> QED BY <1>2, <1>3, <1>5, <1>6

\* The worker binds no generation to a tunnel that was not bound to it before.
LEMMA WorkerBinds ==
  ASSUME TypeOK, Worker, NEW g \in Nat, NEW t \in Nat, Binds(g, t)'
  PROVE  Binds(g, t)
<1>1. CASE TakeCommand
  <2>1. UNCHANGED <<packets, io, generation>>
    BY <1>1 DEF TakeCommand
  <2>2. \/ engine'.gen = 0
        \/ engine' = engine
        \/ commands[1].op = "online" /\ engine'.gen = commands[1].gen
           /\ engine'.sink = commands[1].sink
    BY <1>1, ObeyCases DEF Commands, NoEngine
  <2> QED BY <1>1, <2>1, <2>2, ObeyCases DEF Binds
<1>2. CASE TakePacket
  <2>1. \A i \in DOMAIN packets' : i + 1 \in DOMAIN packets /\ packets'[i] = packets[i + 1]
    BY <1>2 DEF TakePacket, TypeOK
  <2> QED BY <1>2, <2>1 DEF TakePacket, Binds
<1>3. CASE SinkFails
  BY <1>3 DEF SinkFails, NoEngine, Binds
<1>4. CASE StopWorker
  BY <1>4 DEF StopWorker, NoEngine, Binds
<1> QED BY <1>1, <1>2, <1>3, <1>4 DEF Worker

\* No step binds a generation to a second tunnel.
LEMMA NextOneTunnel ==
  ASSUME TypeOK, CoreAgrees, OneTunnel, [Next]_vars
  PROVE  OneTunnel'
<1>1. CASE UNCHANGED vars
  BY <1>1 DEF vars, OneTunnel, Binds
<1>2. CASE Next
  <2>1. generation' \in Nat /\ generation' >= generation
    BY <1>2 DEF TypeOK, Next, Callbacks, Start, Worker, Configure, StartParse, Publish, Announce,
       Activate, Stop, Receive, TakeCommand, TakePacket, SinkFails, StopWorker
  <2>2. \A g, t \in Nat : Binds(g, t)' =>
          Binds(g, t) \/ (Publish /\ g = generation + 1 /\ t = tunnel)
    BY <1>2, CallbackBinds, WorkerBinds DEF Next
  <2>3. Publish => generation' = generation + 1
    BY DEF Publish
  <2>4. generation \in Nat
    BY DEF TypeOK
  <2>5. \A g, t \in Nat : Binds(g, t) => 0 < g /\ g <= generation
    BY DEF OneTunnel
  <2>6. \A g, t, u \in Nat : Binds(g, t)' /\ Binds(g, u)' => t = u
    BY <2>2, <2>4, <2>5 DEF OneTunnel
  <2>7. \A g, t \in Nat : Binds(g, t)' => 0 < g /\ g <= generation'
    BY <2>1, <2>2, <2>3, <2>4, <2>5
  <2> QED BY <2>6, <2>7 DEF OneTunnel
<1> QED BY <1>1, <1>2

-----------------------------------------------------------------------------
(* The engine: what the commands that wait will leave of it. *)

IsOnline(i) == i \in DOMAIN commands /\ commands[i].op = "online"

LastOnline(i) == IsOnline(i) /\ \A j \in DOMAIN commands : i < j => ~IsOnline(j)

\* A tunnel of generation g that is announced at position i is taken down after it.
Undone(g, i) ==
    \E j \in DOMAIN commands : i < j /\ commands[j].op = "offline" /\ commands[j].gen = g

\* Tunnels wait in the order of their generations, behind the engine's own.
OnlinesAscend ==
    /\ engine.gen <= generation
    /\ step = "announce" => engine.gen < generation
    /\ \A i \in DOMAIN commands : IsOnline(i) =>
         /\ engine.gen < commands[i].gen /\ commands[i].gen <= generation
         /\ step = "announce" => commands[i].gen < generation
         /\ \A j \in DOMAIN commands : i < j /\ IsOnline(j) => commands[i].gen < commands[j].gen

\* The last tunnel announced is the core's, and stays.
Stays ==
    \/ \E i \in DOMAIN commands :
         /\ LastOnline(i) /\ ~Undone(generation, i)
         /\ commands[i].gen = generation /\ commands[i].sink = tunnel
         /\ commands[i].settings = settings
    \/ /\ \A i \in DOMAIN commands : ~IsOnline(i)
       /\ engine = [gen |-> generation, sink |-> tunnel, settings |-> settings]
       /\ ~Undone(generation, 0)

\* The last tunnel announced is taken down.
Goes ==
    /\ \A i \in DOMAIN commands : LastOnline(i) => Undone(commands[i].gen, i)
    /\ \/ \E i \in DOMAIN commands : IsOnline(i)
       \/ engine = NoEngine
       \/ Undone(engine.gen, 0)

CommandsFollow == (active => Stays) /\ (~active => Goes)

FollowInvariant == TypeOK /\ CoreAgrees /\ OnlinesAscend /\ CommandsFollow

\* Without a tunnel and without commands there is nothing to follow.
LEMMA InitFollows == Init => OnlinesAscend /\ CommandsFollow
  BY DEF Init, OnlinesAscend, CommandsFollow, Goes, IsOnline, LastOnline, Undone, NoEngine

\* Nothing that concerns the engine has changed.
LEMMA NothingFollows ==
  ASSUME FollowInvariant, UNCHANGED <<commands, engine, active, generation, step>>,
         active => UNCHANGED <<tunnel, settings>>
  PROVE  OnlinesAscend' /\ CommandsFollow'
<1>1. OnlinesAscend'
  BY DEF FollowInvariant, OnlinesAscend, IsOnline
<1>2. Goes => Goes'
  BY DEF Goes, IsOnline, LastOnline, Undone
<1>3. active /\ Stays => Stays'
  BY DEF Stays, IsOnline, LastOnline, Undone
<1> QED BY <1>1, <1>2, <1>3 DEF FollowInvariant, CommandsFollow

\* A tunnel is parsed and published while none is up.
LEMMA PublishFollows ==
  ASSUME FollowInvariant, ~active, ~active', UNCHANGED <<commands, engine>>,
         generation' \in Nat, step' # "announce" \/ generation < generation',
         generation <= generation'
  PROVE  OnlinesAscend' /\ CommandsFollow'
<1>1. generation \in Nat /\ engine.gen \in Nat
  BY DEF FollowInvariant, TypeOK, Engines, NoEngine
<1>2. \A i \in DOMAIN commands : IsOnline(i) => commands[i].gen \in Nat
  BY DEF FollowInvariant, TypeOK, Commands, IsOnline
<1>3. OnlinesAscend'
  BY <1>1, <1>2 DEF FollowInvariant, OnlinesAscend, IsOnline
<1>4. Goes => Goes'
  BY DEF Goes, IsOnline, LastOnline, Undone
<1> QED BY <1>3, <1>4 DEF FollowInvariant, CommandsFollow

\* Online is the last of the commands, for a generation after all of theirs.
LEMMA AnnounceFollows ==
  ASSUME FollowInvariant, Announce
  PROVE  OnlinesAscend' /\ CommandsFollow'
<1>1. CASE worker = "stopped"
  <2>1. UNCHANGED <<commands, engine, generation>> /\ ~active /\ ~active' /\ step' = "idle"
    BY <1>1 DEF Announce, Send, FollowInvariant, CoreAgrees
  <2> QED BY <2>1, PublishFollows DEF FollowInvariant, TypeOK
<1>2. CASE worker = "running"
  <2>0. PICK n \in Nat \ {0} : n = Len(commands) + 1
    BY DEF FollowInvariant, TypeOK
  <2>1. /\ commands \in Seq(Commands) /\ Online \in Commands
        /\ commands' = Append(commands, Online)
    BY <1>2 DEF Announce, Send, FollowInvariant, TypeOK, Online, Commands
  <2>2. /\ DOMAIN commands' = 1 .. n /\ DOMAIN commands = 1 .. n - 1 /\ n \in Nat \ {0}
        /\ \A i \in 1 .. n - 1 : commands'[i] = commands[i]
        /\ commands'[n] = Online
    BY <2>0, <2>1
  <2>3. /\ active' /\ step' = "activate"
        /\ UNCHANGED <<engine, generation, tunnel, settings>>
        /\ io = tunnel /\ step = "announce"
    BY <1>2 DEF Announce, FollowInvariant, CoreAgrees
  <2>4. generation \in Nat /\ engine.gen \in Nat /\ engine.gen < generation
    BY <2>3 DEF FollowInvariant, TypeOK, Engines, NoEngine, OnlinesAscend
  <2>5. \A i \in DOMAIN commands' : IsOnline(i)' => (IsOnline(i) /\ i # n) \/ i = n
    BY <2>2 DEF IsOnline
  <2>6. OnlinesAscend'
    BY <2>2, <2>3, <2>4, <2>5 DEF FollowInvariant, OnlinesAscend, IsOnline, Online
  <2>7. n \in DOMAIN commands' /\ LastOnline(n)' /\ ~Undone(generation, n)'
    BY <2>2 DEF LastOnline, IsOnline, Undone, Online
  <2>8. /\ commands'[n].gen = generation' /\ commands'[n].sink = tunnel'
        /\ commands'[n].settings = settings'
    BY <2>2, <2>3 DEF Online
  <2>9. Stays'
    BY <2>7, <2>8 DEF Stays
  <2> QED BY <2>3, <2>6, <2>9 DEF CommandsFollow
<1> QED BY <1>1, <1>2 DEF FollowInvariant, TypeOK

\* Offline takes down the tunnel that is up, wherever its Online is by then.
LEMMA OfflineFollows ==
  ASSUME FollowInvariant, Send(Offline), ~active', UNCHANGED <<engine, generation>>,
         step # "announce", step' # "announce"
  PROVE  OnlinesAscend' /\ CommandsFollow'
<1>1. CASE worker = "stopped"
  <2>1. commands = <<>> /\ commands' = <<>> /\ engine = NoEngine /\ generation \in Nat
    BY <1>1 DEF Send, FollowInvariant, TypeOK
  <2>2. OnlinesAscend' /\ Goes'
    BY <2>1 DEF OnlinesAscend, Goes, IsOnline, LastOnline, NoEngine
  <2> QED BY <2>2 DEF CommandsFollow
<1>2. CASE worker = "running"
  <2> DEFINE n == Len(commands) + 1
  <2>1. /\ commands \in Seq(Commands) /\ Offline \in Commands
        /\ commands' = Append(commands, Offline)
    BY <1>2 DEF Send, FollowInvariant, TypeOK, Offline, Commands
  <2>2. /\ DOMAIN commands' = 1 .. n /\ DOMAIN commands = 1 .. n - 1 /\ n \in Nat \ {0}
        /\ \A i \in 1 .. n - 1 : commands'[i] = commands[i]
        /\ commands'[n] = Offline
    BY <2>1
  <2>3. \A i : IsOnline(i)' <=> IsOnline(i)
    BY <2>2 DEF IsOnline, Offline
  <2>4. \A i : LastOnline(i)' <=> LastOnline(i)
    BY <2>2, <2>3 DEF LastOnline, IsOnline
  <2>5. \A g, i : Undone(g, i) => Undone(g, i)'
    BY <2>2 DEF Undone
  <2>6. \A i \in 0 .. n - 1 : Undone(generation, i)'
    BY <2>2 DEF Undone, Offline
  <2>7. OnlinesAscend'
    BY <2>2, <2>3 DEF FollowInvariant, OnlinesAscend, IsOnline
  <2>8. \A i \in DOMAIN commands : LastOnline(i) => Undone(commands[i].gen, i)'
    <3> SUFFICES ASSUME NEW i \in DOMAIN commands, LastOnline(i)
                 PROVE  Undone(commands[i].gen, i)'
      OBVIOUS
    <3>1. CASE ~active
      BY <3>1, <2>2, <2>5 DEF FollowInvariant, CommandsFollow, Goes, Undone
    <3>2. CASE active
      <4>1. PICK k \in DOMAIN commands : LastOnline(k) /\ commands[k].gen = generation
        BY <3>2 DEF FollowInvariant, CommandsFollow, Stays, LastOnline, IsOnline
      <4>2. k = i
        BY <2>2, <4>1 DEF LastOnline
      <4> QED BY <2>2, <2>6, <4>1, <4>2 DEF Undone
    <3> QED BY <3>1, <3>2
  <2>9. \/ \E i \in DOMAIN commands : IsOnline(i)
        \/ engine = NoEngine
        \/ Undone(engine.gen, 0)'
    <3>1. CASE ~active
      BY <3>1, <2>5 DEF FollowInvariant, CommandsFollow, Goes
    <3>2. CASE active
      <4>1. \/ \E i \in DOMAIN commands : IsOnline(i)
            \/ engine = [gen |-> generation, sink |-> tunnel, settings |-> settings]
        BY <3>2 DEF FollowInvariant, CommandsFollow, Stays, LastOnline, IsOnline
      <4> QED BY <2>2, <2>6, <4>1
    <3> QED BY <3>1, <3>2
  <2>10. Goes'
    BY <2>2, <2>3, <2>4, <2>8, <2>9 DEF Goes, IsOnline, LastOnline, Undone
  <2> QED BY <2>7, <2>10 DEF CommandsFollow
<1> QED BY <1>1, <1>2 DEF FollowInvariant, TypeOK

\* The worker takes the command at the head; those behind it move up.
LEMMA TakeFollows ==
  ASSUME FollowInvariant, TakeCommand
  PROVE  OnlinesAscend' /\ CommandsFollow'
<1>1. /\ 1 \in DOMAIN commands /\ commands[1] \in Commands
      /\ \A i \in DOMAIN commands' : i + 1 \in DOMAIN commands /\ commands'[i] = commands[i + 1]
      /\ \A i \in DOMAIN commands : i # 1 => i - 1 \in DOMAIN commands'
      /\ commands[1].op = "online" =>
           engine' = [gen |-> commands[1].gen, sink |-> commands[1].sink,
                      settings |-> commands[1].settings]
      /\ commands[1].op = "offline" =>
           engine' = IF engine.gen = commands[1].gen THEN NoEngine ELSE engine
  BY ObeyCases DEF FollowInvariant
<1>2. UNCHANGED <<generation, active, step, tunnel, settings>>
  BY DEF TakeCommand
<1>3. /\ generation \in Nat /\ engine.gen \in Nat
      /\ DOMAIN commands \subseteq Nat \ {0} /\ DOMAIN commands' \subseteq Nat \ {0}
      /\ \A i \in DOMAIN commands : commands[i].gen \in Nat
                                    /\ commands[i].op \in {"online", "offline"}
  <2>1. commands \in Seq(Commands) /\ commands' \in Seq(Commands)
    BY DEF TakeCommand, FollowInvariant, TypeOK
  <2>2. generation \in Nat /\ engine.gen \in Nat
    BY DEF FollowInvariant, TypeOK, Engines, NoEngine
  <2> QED BY <2>1, <2>2 DEF Commands
<1>4. OnlinesAscend'
  <2>1. commands[1].op = "online" => engine'.gen = commands[1].gen
    BY <1>1
  <2>2. commands[1].op = "offline" => engine'.gen = 0 \/ engine'.gen = engine.gen
    BY <1>1 DEF NoEngine
  <2>3. engine'.gen = engine.gen \/ engine'.gen = 0 \/ (IsOnline(1) /\ engine'.gen = commands[1].gen)
    BY <1>1, <1>3, <2>1, <2>2 DEF IsOnline
  <2>4. \A i \in DOMAIN commands' : IsOnline(i)' => IsOnline(i + 1) /\ 1 < i + 1
    BY <1>1, <1>3 DEF IsOnline
  <2> QED BY <1>1, <1>2, <1>3, <2>3, <2>4 DEF FollowInvariant, OnlinesAscend
<1>5. \A i \in DOMAIN commands : i # 1 => (LastOnline(i) <=> LastOnline(i - 1)')
  BY <1>1, <1>3 DEF LastOnline, IsOnline
<1>6. \A g : \A i \in DOMAIN commands : i # 1 => (Undone(g, i) <=> Undone(g, i - 1)')
  BY <1>1, <1>3 DEF Undone
<1>7. \A g : Undone(g, 1) <=> Undone(g, 0)'
  BY <1>1, <1>3 DEF Undone
<1>8. ASSUME active PROVE Stays'
  <2>1. CASE \E i \in DOMAIN commands :
              /\ LastOnline(i) /\ ~Undone(generation, i)
              /\ commands[i].gen = generation /\ commands[i].sink = tunnel
              /\ commands[i].settings = settings
    <3>1. PICK i \in DOMAIN commands :
              /\ LastOnline(i) /\ ~Undone(generation, i)
              /\ commands[i].gen = generation /\ commands[i].sink = tunnel
              /\ commands[i].settings = settings
      BY <2>1
    <3>2. CASE i # 1
      <4>1. i - 1 \in DOMAIN commands' /\ commands'[i - 1] = commands[i]
        BY <1>1, <1>3, <3>2
      <4>2. LastOnline(i - 1)' /\ ~Undone(generation, i - 1)'
        BY <1>2, <1>5, <1>6, <3>1, <3>2
      <4> QED BY <1>2, <3>1, <4>1, <4>2 DEF Stays
    <3>3. CASE i = 1
      <4>1. engine' = [gen |-> generation, sink |-> tunnel, settings |-> settings]
        BY <1>1, <3>1, <3>3 DEF LastOnline, IsOnline
      <4>2. \A j \in DOMAIN commands' : ~IsOnline(j)'
        BY <1>1, <1>3, <3>1, <3>3 DEF LastOnline, IsOnline
      <4> QED BY <1>2, <1>7, <3>1, <3>3, <4>1, <4>2 DEF Stays
    <3> QED BY <3>2, <3>3
  <2>2. CASE /\ \A i \in DOMAIN commands : ~IsOnline(i)
             /\ engine = [gen |-> generation, sink |-> tunnel, settings |-> settings]
             /\ ~Undone(generation, 0)
    <3>1. commands[1].op = "offline" /\ commands[1].gen # generation
      BY <1>1, <1>3, <2>2 DEF IsOnline, Undone
    <3>2. engine' = engine
      BY <1>1, <2>2, <3>1
    <3>3. ~Undone(generation, 0)'
      BY <1>1, <1>2, <1>3, <2>2 DEF Undone
    <3>4. \A j \in DOMAIN commands' : ~IsOnline(j)'
      BY <1>1, <2>2 DEF IsOnline
    <3> QED BY <1>2, <2>2, <3>2, <3>3, <3>4 DEF Stays
  <2>3. Stays
    BY <1>8 DEF FollowInvariant, CommandsFollow
  <2> QED BY <2>1, <2>2, <2>3 DEF Stays
<1>9. ASSUME ~active PROVE Goes'
  <2>0. Goes
    BY <1>9 DEF FollowInvariant, CommandsFollow
  <2>1. \A i \in DOMAIN commands' : LastOnline(i)' => Undone(commands[i].gen, i)'
    <3> SUFFICES ASSUME NEW i \in DOMAIN commands', LastOnline(i)'
                 PROVE  Undone(commands[i].gen, i)'
      OBVIOUS
    <3>1. i + 1 \in DOMAIN commands /\ i + 1 # 1 /\ (i + 1) - 1 = i
          /\ commands'[i] = commands[i + 1]
      BY <1>1, <1>3
    <3>2. Undone(commands[i + 1].gen, i + 1)
      BY <1>5, <2>0, <3>1 DEF Goes
    <3> QED BY <1>6, <3>1, <3>2
  <2>2. \/ \E i \in DOMAIN commands' : IsOnline(i)'
        \/ engine' = NoEngine
        \/ Undone(engine.gen, 0)'
    <3>1. CASE commands[1].op = "online"
      <4>1. CASE LastOnline(1)
        <5>1. Undone(commands[1].gen, 1) /\ engine'.gen = commands[1].gen
          BY <1>1, <2>0, <3>1, <4>1 DEF Goes
        <5> QED BY <1>7, <5>1
      <4>2. CASE ~LastOnline(1)
        <5>1. PICK j \in DOMAIN commands : 1 < j /\ IsOnline(j)
          BY <1>1, <3>1, <4>2 DEF LastOnline, IsOnline
        <5> QED BY <1>1, <1>3, <5>1 DEF IsOnline
      <4> QED BY <4>1, <4>2
    <3>2. CASE commands[1].op = "offline"
      <4>1. CASE engine.gen = commands[1].gen
        BY <1>1, <3>2, <4>1
      <4>2. CASE engine.gen # commands[1].gen
        <5>1. engine' = engine
          BY <1>1, <3>2, <4>2
        <5>2. CASE \E i \in DOMAIN commands : IsOnline(i)
          BY <1>1, <1>3, <3>2, <5>2 DEF IsOnline
        <5>3. CASE Undone(engine.gen, 0)
          BY <1>1, <1>3, <4>2, <5>1, <5>3 DEF Undone
        <5>4. CASE engine = NoEngine
          BY <5>1, <5>4
        <5> QED BY <2>0, <5>2, <5>3, <5>4 DEF Goes
      <4> QED BY <4>1, <4>2
    <3> QED BY <1>1, <1>3, <3>1, <3>2
  <2> QED BY <2>1, <2>2 DEF Goes
<1> QED BY <1>2, <1>4, <1>8, <1>9 DEF FollowInvariant, CommandsFollow

\* A sink that fails ends the tunnel if it is the core's; the worker's end ends it, too.
LEMMA LossFollows ==
  ASSUME FollowInvariant, SinkFails \/ StopWorker
  PROVE  OnlinesAscend' /\ CommandsFollow'
<1>0. generation \in Nat /\ engine.gen \in Nat
      /\ \A i \in DOMAIN commands : commands[i].gen \in Nat
  BY DEF FollowInvariant, TypeOK, Engines, NoEngine, Commands
<1>1. CASE StopWorker
  <2>1. OnlinesAscend'
    BY <1>0, <1>1 DEF StopWorker, FollowInvariant, OnlinesAscend, IsOnline, NoEngine
  <2>2. Goes'
    BY <1>1 DEF StopWorker, Goes, IsOnline, LastOnline
  <2>3. ~active'
    BY <1>1 DEF StopWorker
  <2> QED BY <2>1, <2>2, <2>3 DEF CommandsFollow
<1>2. CASE SinkFails
  <2>1. engine' = NoEngine /\ UNCHANGED <<commands, generation, tunnel, settings, step>>
    BY <1>2 DEF SinkFails
  <2>2. OnlinesAscend'
    BY <1>0, <2>1 DEF FollowInvariant, OnlinesAscend, IsOnline, NoEngine
  <2>3. active' => active /\ engine.gen # generation
    BY <1>2 DEF SinkFails
  <2>4. ~active' => ~active \/ engine.gen = generation
    BY <1>2 DEF SinkFails
  <2>5. active /\ engine.gen # generation => Stays'
    BY <2>1 DEF FollowInvariant, CommandsFollow, Stays, IsOnline, LastOnline, Undone
  <2>6. ~active => Goes'
    BY <2>1 DEF FollowInvariant, CommandsFollow, Goes, IsOnline, LastOnline, Undone
  <2>7. active /\ engine.gen = generation => Goes'
    <3> SUFFICES ASSUME active, engine.gen = generation PROVE Goes'
      OBVIOUS
    <3>1. \A i \in DOMAIN commands : ~IsOnline(i)
      <4>1. \A i \in DOMAIN commands : IsOnline(i) => commands[i].gen # generation
        BY <1>0 DEF FollowInvariant, OnlinesAscend
      <4> QED BY <4>1 DEF FollowInvariant, CommandsFollow, Stays, LastOnline
    <3> QED BY <2>1, <3>1 DEF Goes, IsOnline, LastOnline
  <2> QED BY <2>2, <2>3, <2>4, <2>5, <2>6, <2>7 DEF CommandsFollow
<1> QED BY <1>1, <1>2

\* Every step keeps the commands leading to the engine the core wants.
LEMMA NextFollows == FollowInvariant /\ [Next]_vars => FollowInvariant'
<1> SUFFICES ASSUME FollowInvariant, [Next]_vars PROVE OnlinesAscend' /\ CommandsFollow'
  BY NextTyped, NextAgrees DEF FollowInvariant
<1>0. TypeOK /\ CoreAgrees
  BY DEF FollowInvariant
<1>1. CASE UNCHANGED vars
  BY <1>1, NothingFollows DEF vars
<1>2. ASSUME NEW configured \in ConfiguredMtus, NEW layer \in {2, 3},
             Configure(layer, configured)
      PROVE  OnlinesAscend' /\ CommandsFollow'
  BY <1>2, NothingFollows DEF Configure
<1>3. ASSUME NEW options \in PushedOptions, StartParse(options)
      PROVE  OnlinesAscend' /\ CommandsFollow'
  <2>1. ~active /\ ~active' /\ UNCHANGED <<commands, engine, generation>> /\ step' # "announce"
        /\ generation \in Nat
    BY <1>0, <1>3 DEF StartParse, CoreAgrees, TypeOK
  <2> QED BY <2>1, PublishFollows
<1>4. CASE Publish
  <2>1. ~active /\ ~active' /\ UNCHANGED <<commands, engine>>
        /\ generation \in Nat /\ generation' = generation + 1
    BY <1>0, <1>4 DEF Publish, CoreAgrees, TypeOK
  <2> QED BY <2>1, PublishFollows
<1>5. CASE Announce
  BY <1>5, AnnounceFollows
<1>6. CASE Activate
  <2>1. CASE UNCHANGED <<commands, active>>
    <3>1. UNCHANGED <<engine, generation, tunnel, settings>> /\ step = "activate" /\ step' = "idle"
      BY <1>6 DEF Activate
    <3>2. OnlinesAscend'
      BY <2>1, <3>1 DEF FollowInvariant, OnlinesAscend, IsOnline
    <3>3. (Stays => Stays') /\ (Goes => Goes')
      BY <2>1, <3>1 DEF Stays, Goes, IsOnline, LastOnline, Undone
    <3> QED BY <2>1, <3>2, <3>3 DEF FollowInvariant, CommandsFollow
  <2>2. CASE Send(Offline) /\ ~active'
    BY <1>6, <2>2, OfflineFollows DEF Activate
  <2> QED BY <1>6, <2>1, <2>2 DEF Activate
<1>7. CASE Stop
  <2>1. Send(Offline) /\ ~active' /\ UNCHANGED <<engine, generation, step>> /\ step # "announce"
    BY <1>7 DEF Stop, MayCall
  <2> QED BY <2>1, OfflineFollows
<1>8. CASE Receive \/ TakePacket
  BY <1>8, NothingFollows DEF Receive, TakePacket
<1>9. CASE TakeCommand
  BY <1>9, TakeFollows
<1>10. CASE SinkFails \/ StopWorker
  BY <1>10, LossFollows
<1> QED BY <1>1, <1>2, <1>3, <1>4, <1>5, <1>6, <1>7, <1>8, <1>9, <1>10
     DEF Next, Callbacks, Start, Worker

-----------------------------------------------------------------------------
(* The channels as the stack sees them. *)

SentAll(s) == [i \in DOMAIN s |-> Sent(s[i])]
Tags(s) == [i \in DOMAIN s |-> s[i].gen]

SentCommands == [op : {"online", "offline"}, gen : Nat]

\* Stripping the commands keeps their number and places.
LEMMA SentTyped ==
  ASSUME NEW s \in Seq(Commands)
  PROVE  /\ SentAll(s) \in Seq(SentCommands) /\ Len(SentAll(s)) = Len(s)
         /\ \A i \in 1 .. Len(s) : SentAll(s)[i] = Sent(s[i])
<1>1. \A c \in Commands : Sent(c) \in SentCommands
  BY DEF Commands, Sent, SentCommands
<1>2. \A i \in 1 .. Len(s) : Sent(s[i]) \in SentCommands
  BY <1>1
<1>3. SentAll(s) = [i \in 1 .. Len(s) |-> Sent(s[i])] /\ Len(s) \in Nat
  BY DEF SentAll
<1>4. SentAll(s) \in [1 .. Len(s) -> SentCommands]
  BY <1>2, <1>3
<1>5. SentAll(s) \in Seq(SentCommands) /\ Len(SentAll(s)) = Len(s)
  BY <1>3, <1>4
<1> QED BY <1>3, <1>5

\* Stripping goes on with a command appended.
LEMMA SentAppend ==
  ASSUME NEW s \in Seq(Commands), NEW c \in Commands
  PROVE  SentAll(Append(s, c)) = Append(SentAll(s), Sent(c))
<1> DEFINE r == Append(s, c)
           B == Append(SentAll(s), Sent(c))
<1>1. r \in Seq(Commands) /\ Len(r) = Len(s) + 1 /\ r[Len(s) + 1] = c /\ Len(s) \in Nat
      /\ \A i \in 1 .. Len(s) : r[i] = s[i]
  OBVIOUS
<1>2. Sent(c) \in SentCommands
  BY DEF Commands, Sent, SentCommands
<1>3. B \in Seq(SentCommands) /\ Len(B) = Len(s) + 1 /\ B[Len(s) + 1] = Sent(c)
      /\ \A i \in 1 .. Len(s) : B[i] = Sent(s[i])
  BY <1>2, SentTyped
<1> HIDE DEF r, B
<1>4. SentAll(r) \in Seq(SentCommands) /\ Len(SentAll(r)) = Len(r)
      /\ \A i \in 1 .. Len(r) : SentAll(r)[i] = Sent(r[i])
  BY <1>1, SentTyped
<1>5. \A i \in 1 .. Len(r) : SentAll(r)[i] = B[i]
  <2> SUFFICES ASSUME NEW i \in 1 .. Len(r) PROVE SentAll(r)[i] = B[i]
    OBVIOUS
  <2>1. i \in 1 .. Len(s) \/ i = Len(s) + 1
    BY <1>1
  <2> QED BY <1>1, <1>3, <1>4, <2>1
<1>6. SentAll(r) = B
  BY <1>1, <1>3, <1>4, <1>5, SeqEqual
<1> QED BY <1>6 DEF r, B

\* And with the first one taken.
LEMMA SentTail ==
  ASSUME NEW s \in Seq(Commands), s # <<>>
  PROVE  SentAll(s) # <<>> /\ SentAll(Tail(s)) = Tail(SentAll(s))
<1>1. Tail(s) \in Seq(Commands) /\ Len(Tail(s)) = Len(s) - 1
      /\ \A i \in 1 .. Len(Tail(s)) : Tail(s)[i] = s[i + 1]
  BY HeadTailProperties
<1>2. SentAll(s) # <<>>
  BY SentTyped
<1>3. Tail(SentAll(s)) \in Seq(SentCommands) /\ Len(Tail(SentAll(s))) = Len(s) - 1
      /\ \A i \in 1 .. Len(s) - 1 : Tail(SentAll(s))[i] = SentAll(s)[i + 1]
  BY <1>2, SentTyped, HeadTailProperties
<1>4. Len(s) \in Nat
  OBVIOUS
<1> DEFINE r == Tail(s)
<1>5. SentAll(r) \in Seq(SentCommands) /\ Len(SentAll(r)) = Len(r)
      /\ \A i \in 1 .. Len(r) : SentAll(r)[i] = Sent(r[i])
  BY <1>1, SentTyped DEF r
<1>6. \A i \in 1 .. Len(s) : SentAll(s)[i] = Sent(s[i])
  BY SentTyped
<1> HIDE DEF r
<1>7. \A i \in 1 .. Len(r) : SentAll(r)[i] = Tail(SentAll(s))[i]
  <2> SUFFICES ASSUME NEW i \in 1 .. Len(r) PROVE SentAll(r)[i] = Tail(SentAll(s))[i]
    OBVIOUS
  <2>1. i \in 1 .. Len(s) - 1 /\ i + 1 \in 1 .. Len(s) /\ r[i] = s[i + 1]
    BY <1>1, <1>4 DEF r
  <2> QED BY <1>3, <1>5, <1>6, <2>1
<1>8. SentAll(r) = Tail(SentAll(s))
  BY <1>1, <1>3, <1>5, <1>7, SeqEqual DEF r
<1> QED BY <1>2, <1>8 DEF r

Packets == [gen : Nat, from : Nat]

\* Packets reduced to their generations keep their number and places.
LEMMA TagsTyped ==
  ASSUME NEW s \in Seq(Packets)
  PROVE  /\ Tags(s) \in Seq(Nat) /\ Len(Tags(s)) = Len(s)
         /\ \A i \in 1 .. Len(s) : Tags(s)[i] = s[i].gen
<1>0. \A i \in 1 .. Len(s) : s[i] \in Packets
  OBVIOUS
<1>1. \A i \in 1 .. Len(s) : s[i].gen \in Nat
  BY <1>0 DEF Packets
<1>2. Tags(s) = [i \in 1 .. Len(s) |-> s[i].gen] /\ Len(s) \in Nat
  BY DEF Tags
<1>3. Tags(s) \in [1 .. Len(s) -> Nat]
  BY <1>1, <1>2
<1>4. Tags(s) \in Seq(Nat) /\ Len(Tags(s)) = Len(s)
  BY <1>2, <1>3
<1> QED BY <1>2, <1>4

\* So they do with a packet appended.
LEMMA TagsAppend ==
  ASSUME NEW s \in Seq(Packets), NEW p \in Packets
  PROVE  Tags(Append(s, p)) = Append(Tags(s), p.gen)
<1> DEFINE r == Append(s, p)
           B == Append(Tags(s), p.gen)
<1>1. r \in Seq(Packets) /\ Len(r) = Len(s) + 1 /\ r[Len(s) + 1] = p /\ Len(s) \in Nat
      /\ \A i \in 1 .. Len(s) : r[i] = s[i]
  OBVIOUS
<1>2. p.gen \in Nat
  BY DEF Packets
<1>3. B \in Seq(Nat) /\ Len(B) = Len(s) + 1 /\ B[Len(s) + 1] = p.gen
      /\ \A i \in 1 .. Len(s) : B[i] = s[i].gen
  BY <1>2, TagsTyped
<1> HIDE DEF r, B
<1>4. Tags(r) \in Seq(Nat) /\ Len(Tags(r)) = Len(r)
      /\ \A i \in 1 .. Len(r) : Tags(r)[i] = r[i].gen
  BY <1>1, TagsTyped
<1>5. \A i \in 1 .. Len(r) : Tags(r)[i] = B[i]
  <2> SUFFICES ASSUME NEW i \in 1 .. Len(r) PROVE Tags(r)[i] = B[i]
    OBVIOUS
  <2>1. i \in 1 .. Len(s) \/ i = Len(s) + 1
    BY <1>1
  <2> QED BY <1>1, <1>3, <1>4, <2>1
<1>6. Tags(r) = B
  BY <1>1, <1>3, <1>4, <1>5, SeqEqual
<1> QED BY <1>6 DEF r, B

\* And with the first one taken.
LEMMA TagsTail ==
  ASSUME NEW s \in Seq(Packets), s # <<>>
  PROVE  Tags(s) # <<>> /\ Tags(Tail(s)) = Tail(Tags(s))
<1>1. Tail(s) \in Seq(Packets) /\ Len(Tail(s)) = Len(s) - 1
      /\ \A i \in 1 .. Len(Tail(s)) : Tail(s)[i] = s[i + 1]
  BY HeadTailProperties
<1>2. Tags(s) # <<>>
  BY TagsTyped
<1>3. Tail(Tags(s)) \in Seq(Nat) /\ Len(Tail(Tags(s))) = Len(s) - 1
      /\ \A i \in 1 .. Len(s) - 1 : Tail(Tags(s))[i] = Tags(s)[i + 1]
  BY <1>2, TagsTyped, HeadTailProperties
<1>4. Len(s) \in Nat
  OBVIOUS
<1> DEFINE r == Tail(s)
<1>5. Tags(r) \in Seq(Nat) /\ Len(Tags(r)) = Len(r)
      /\ \A i \in 1 .. Len(r) : Tags(r)[i] = r[i].gen
  BY <1>1, TagsTyped DEF r
<1>6. \A i \in 1 .. Len(s) : Tags(s)[i] = s[i].gen
  BY TagsTyped
<1> HIDE DEF r
<1>7. \A i \in 1 .. Len(r) : Tags(r)[i] = Tail(Tags(s))[i]
  <2> SUFFICES ASSUME NEW i \in 1 .. Len(r) PROVE Tags(r)[i] = Tail(Tags(s))[i]
    OBVIOUS
  <2>1. i \in 1 .. Len(s) - 1 /\ i + 1 \in 1 .. Len(s) /\ r[i] = s[i + 1]
    BY <1>1, <1>4 DEF r
  <2> QED BY <1>3, <1>5, <1>6, <2>1
<1>8. Tags(r) = Tail(Tags(s))
  BY <1>1, <1>3, <1>5, <1>7, SeqEqual DEF r
<1> QED BY <1>2, <1>8 DEF r

\* Empty channels are empty channels to the stack.
LEMMA NothingSent == SentAll(<<>>) = <<>> /\ Tags(<<>>) = <<>>
<1>1. <<>> \in Seq(Commands) /\ <<>> \in Seq(Packets)
  OBVIOUS
<1>2. SentAll(<<>>) \in Seq(SentCommands) /\ Len(SentAll(<<>>)) = 0
  BY <1>1, SentTyped
<1>3. Tags(<<>>) \in Seq(Nat) /\ Len(Tags(<<>>)) = 0
  BY <1>1, TagsTyped
<1> QED BY <1>2, <1>3

\* A command sent to a running worker is one appended for TunnelAdapter.
LEMMA SendSent ==
  ASSUME TypeOK, NEW c \in Commands, Send(c), worker = "running"
  PROVE  SentAll(commands)' = Append(SentAll(commands), Sent(c))
<1>1. commands' = Append(commands, c) /\ commands \in Seq(Commands)
  BY DEF Send, TypeOK
<1>2. SentAll(commands)' = SentAll(commands')
  BY DEF SentAll
<1> QED BY <1>1, <1>2, SentAppend

-----------------------------------------------------------------------------
(* The adapter implements what the stack assumes of it. *)

\* The initial states are those of TunnelAdapter.
LEMMA AdapterInit == Init => Adapter!Init
<1> SUFFICES ASSUME Init PROVE Adapter!Init
  OBVIOUS
<1>1. SentAll(commands) = <<>> /\ Tags(packets) = <<>> /\ announced = 0
  BY NothingSent DEF Init
<1> QED BY <1>1 DEF Adapter!Init, SentAll, Tags

\* An Offline is for a generation that has been announced.
LEMMA OfflineMaps ==
  ASSUME TypeOK, CoreAgrees, step # "announce", Send(Offline),
         UNCHANGED <<announced, packets>>
  PROVE  Adapter!Offline \/ UNCHANGED Adapter!vars
<1>1. CASE worker = "running"
  <2>1. Offline \in Commands /\ Sent(Offline) = [op |-> "offline", gen |-> generation]
    BY DEF TypeOK, Offline, Commands, Sent
  <2>2. generation \in 0 .. announced
    BY <1>1 DEF CoreAgrees, TypeOK
  <2>3. SentAll(commands)' = Append(SentAll(commands), [op |-> "offline", gen |-> generation])
    BY <1>1, <2>1, SendSent
  <2> QED BY <2>2, <2>3 DEF Adapter!Offline, SentAll
<1>2. CASE worker # "running"
  BY <1>2 DEF Send, Adapter!vars
<1> QED BY <1>1, <1>2

\* Every step is one of TunnelAdapter, or none.
LEMMA AdapterStep ==
  ASSUME TypeOK, CoreAgrees, [Next]_vars
  PROVE  [Adapter!Next]_(Adapter!vars)
<1>1. CASE UNCHANGED <<announced, commands, packets>>
  BY <1>1 DEF Adapter!vars
<1>2. CASE Announce /\ worker = "running"
  <2>1. Online \in Commands /\ Sent(Online) = [op |-> "online", gen |-> generation]
    BY DEF TypeOK, Online, Commands, Sent
  <2>2. announced' = generation /\ generation = announced + 1 /\ UNCHANGED packets
    BY <1>2 DEF Announce, CoreAgrees, TypeOK
  <2>3. SentAll(commands)' = Append(SentAll(commands), [op |-> "online", gen |-> generation])
    BY <1>2, <2>1, SendSent DEF Announce
  <2>4. Adapter!Online
    BY <2>2, <2>3 DEF Adapter!Online, SentAll
  <2> QED BY <2>4 DEF Adapter!Next
<1>3. CASE Announce /\ worker # "running"
  BY <1>1, <1>3 DEF Announce, Send
<1>4. CASE Activate
  <2>1. CASE UNCHANGED commands
    BY <1>1, <1>4, <2>1 DEF Activate
  <2>2. CASE Send(Offline)
    BY <1>4, <2>2, OfflineMaps DEF Activate, Adapter!Next
  <2> QED BY <1>4, <2>1, <2>2 DEF Activate
<1>5. CASE Stop
  BY <1>5, OfflineMaps DEF Stop, MayCall, Adapter!Next
<1>6. CASE Receive
  <2>1. packets \in Seq(Packets) /\ [gen |-> generation, from |-> tunnel] \in Packets
    BY DEF TypeOK, Packets
  <2>2. packets' = Append(packets, [gen |-> generation, from |-> tunnel])
        /\ UNCHANGED <<announced, commands>> /\ announced = generation
    BY <1>6 DEF Receive, MayCall, CoreAgrees
  <2>3. Tags(packets') = Append(Tags(packets), generation)
    BY <2>1, <2>2, TagsAppend
  <2>4. Adapter!Receive
    BY <2>2, <2>3 DEF Adapter!Receive, Tags
  <2> QED BY <2>4 DEF Adapter!Next
<1>7. CASE TakeCommand
  <2>1. commands \in Seq(Commands) /\ commands # <<>> /\ commands' = Tail(commands)
        /\ UNCHANGED <<announced, packets>>
    BY <1>7 DEF TakeCommand, TypeOK
  <2>2. SentAll(commands) # <<>> /\ SentAll(commands') = Tail(SentAll(commands))
    BY <2>1, SentTail
  <2>3. Adapter!Take
    BY <2>1, <2>2 DEF Adapter!Take, SentAll
  <2> QED BY <2>3 DEF Adapter!Next
<1>8. CASE TakePacket
  <2>1. packets \in Seq(Packets) /\ packets # <<>> /\ packets' = Tail(packets)
        /\ UNCHANGED <<announced, commands>>
    BY <1>8 DEF TakePacket, TypeOK, Packets
  <2>2. Tags(packets) # <<>> /\ Tags(packets') = Tail(Tags(packets))
    BY <2>1, TagsTail
  <2>3. Adapter!Take
    BY <2>1, <2>2 DEF Adapter!Take, Tags
  <2> QED BY <2>3 DEF Adapter!Next
<1>9. CASE StopWorker
  <2>1. SentAll(commands') = <<>> /\ Tags(packets') = <<>> /\ UNCHANGED announced
    BY <1>9, NothingSent DEF StopWorker
  <2>2. Adapter!Take
    BY <2>1 DEF Adapter!Take, SentAll, Tags
  <2> QED BY <2>2 DEF Adapter!Next
<1>10. CASE UNCHANGED vars
  BY <1>1, <1>10 DEF vars
<1>11. ASSUME NEW configured \in ConfiguredMtus, NEW layer \in {2, 3},
              Configure(layer, configured)
       PROVE  UNCHANGED <<announced, commands, packets>>
  BY <1>11 DEF Configure
<1>12. ASSUME NEW options \in PushedOptions, StartParse(options)
       PROVE  UNCHANGED <<announced, commands, packets>>
  BY <1>12 DEF StartParse
<1>13. CASE Publish \/ SinkFails
  BY <1>1, <1>13 DEF Publish, SinkFails
<1> QED BY <1>1, <1>2, <1>3, <1>4, <1>5, <1>6, <1>7, <1>8, <1>9, <1>10, <1>11, <1>12, <1>13
     DEF Next, Callbacks, Start, Worker

-----------------------------------------------------------------------------
(* The invariant, and what follows from it. *)

AdapterInvariant == FollowInvariant /\ OneTunnel

\* The invariant holds at first.
LEMMA InitInvariant == Init => AdapterInvariant
<1>1. Init => OneTunnel
  BY DEF Init, OneTunnel, Binds, NoEngine
<1> QED BY <1>1, InitTyped, InitAgrees, InitFollows DEF AdapterInvariant, FollowInvariant

\* Every step keeps it.
LEMMA NextInvariant == AdapterInvariant /\ [Next]_vars => AdapterInvariant'
  BY NextFollows, NextOneTunnel DEF AdapterInvariant, FollowInvariant

\* What waits in the channels and what runs in the engine are of the tunnels that
\* the callbacks announced.
THEOREM InvariantHolds == Spec => []AdapterInvariant
<1> QED BY InitInvariant, NextInvariant, PTL DEF Spec

\* It keeps the packets of another tunnel out of the engine.
LEMMA OneTunnelApart == AdapterInvariant => PacketsOfTheirTunnel
<1> SUFFICES ASSUME AdapterInvariant, NEW i \in DOMAIN packets, packets[i].gen = engine.gen
             PROVE  packets[i].from = engine.sink
  BY DEF PacketsOfTheirTunnel
<1>1. TypeOK /\ OneTunnel
  BY DEF AdapterInvariant, FollowInvariant
<1>2. packets[i].gen \in Nat /\ packets[i].from \in Nat
  <2>1. packets \in Seq(Packets)
    BY <1>1 DEF TypeOK, Packets
  <2>2. packets[i] \in Packets
    BY <2>1
  <2> QED BY <2>2 DEF Packets
<1>3. engine.gen \in Nat /\ engine.sink \in Nat
  BY <1>1 DEF TypeOK, Engines
<1>4. Binds(packets[i].gen, packets[i].from)
  BY DEF Binds
<1>5. engine.gen # 0
  BY <1>1, <1>2, <1>4 DEF OneTunnel
<1>6. Binds(packets[i].gen, engine.sink)
  BY <1>5 DEF Binds
<1> QED BY <1>1, <1>2, <1>3, <1>4, <1>6 DEF OneTunnel

\* With no command left to take, the engine is the one the core wants.
LEMMA QuietFollows == AdapterInvariant => EngineFollowsTunnel
<1> SUFFICES ASSUME AdapterInvariant, Quiet
             PROVE  engine = IF active
                             THEN [gen |-> generation, sink |-> tunnel, settings |-> settings]
                             ELSE NoEngine
  BY DEF EngineFollowsTunnel
<1>1. commands = <<>> /\ CommandsFollow
  BY DEF Quiet, AdapterInvariant, FollowInvariant
<1>2. \A i \in DOMAIN commands : FALSE
  BY <1>1
<1> QED BY <1>1, <1>2 DEF CommandsFollow, Stays, Goes, IsOnline, Undone

\* No packet gets into the engine of a tunnel it did not come through.
THEOREM PacketsTheorem == Spec => []PacketsOfTheirTunnel
<1> QED BY InvariantHolds, OneTunnelApart, PTL

\* Whenever all commands are taken, the engine is that of the core's tunnel.
THEOREM FollowsTheorem == Spec => []EngineFollowsTunnel
<1> QED BY InvariantHolds, QuietFollows, PTL

\* The callbacks announce and take down tunnels as the stack assumes.
THEOREM AdapterTheorem == Spec => ImplementsAdapter
<1>1. AdapterInvariant /\ [Next]_vars => [Adapter!Next]_(Adapter!vars)
  BY AdapterStep DEF AdapterInvariant, FollowInvariant
<1> QED BY <1>1, AdapterInit, InvariantHolds, PTL DEF Spec, ImplementsAdapter, Adapter!Spec

-----------------------------------------------------------------------------
(* What Parse accepts, in this system. *)

\* Lists are read as they ask to be, for every list, MTU and --dns.
THEOREM ParsedTheorem == Spec => []ParsedAsAsked
<1>1. \A options \in ParsedLists, configured \in ParsedMtus, dns \in ParsedOverrides :
        ParsedRight(options, configured, dns)
  BY VpnAssumption, ParseRightTheorem DEF VpnAssumption
<1>2. ParsedAsAsked
  BY <1>1 DEF ParsedAsAsked
<1> QED BY <1>2, PTL

\* What the worker builds an Engine of is usable, so that building it cannot fail:
\* only what was accepted is ever announced (vpn.rs:190-223).
Announced ==
    { commands[i].settings : i \in { j \in DOMAIN commands : commands[j].op = "online" } }
    \cup (IF step \in {"publish", "announce"} THEN {settings} ELSE {})
    \cup (IF engine = NoEngine THEN {} ELSE {engine.settings})

EnginesUsable == \A s \in Announced : Usable(s)

AcceptedOnly == \A s \in Announced : s.ok

\* What Parse accepts can be used.
LEMMA AcceptedUsable == ASSUME NEW s \in Parsed, s.ok PROVE Usable(s)
<1>1. PICK options \in PushedOptions, m \in Mtus : s = Parse(options, m, DnsOverride)
  BY DEF Parsed, Refused
<1>2. options \in Seq(Lines) /\ m \in Nat /\ DnsOverride \in Seq(Addresses)
  BY VpnAssumption DEF VpnAssumption, Mtus
<1>3. ParsedRight(options, m, DnsOverride)
  BY <1>2, ParseRightTheorem
<1> QED BY <1>1, <1>3 DEF ParsedRight

\* Settings on their way to an engine are results of Parse.
LEMMA AnnouncedTyped == TypeOK => Announced \subseteq Parsed
  BY DEF TypeOK, Announced, Commands, Engines

\* No step lets settings through that were refused.
LEMMA NextAccepted == ASSUME TypeOK, AcceptedOnly, [Next]_vars PROVE AcceptedOnly'
<1>1. CASE UNCHANGED <<commands, step, settings, engine>>
  BY <1>1 DEF AcceptedOnly, Announced
<1>2. ASSUME NEW options \in PushedOptions, StartParse(options) PROVE AcceptedOnly'
  <2>1. step' \in {"publish", "announce"} => settings'.ok
    BY <1>2 DEF StartParse
  <2>2. UNCHANGED <<commands, engine>>
    BY <1>2 DEF StartParse
  <2> QED BY <2>1, <2>2 DEF AcceptedOnly, Announced
<1>3. CASE Publish
  BY <1>3 DEF Publish, AcceptedOnly, Announced
<1>4. CASE Announce
  <2>1. Send(Online) /\ Online \in Commands
    BY <1>4 DEF Announce, TypeOK, Online, Commands
  <2>2. /\ step = "announce" /\ step' \notin {"publish", "announce"}
        /\ UNCHANGED <<settings, engine>>
    BY <1>4 DEF Announce
  <2>3. ASSUME NEW i \in DOMAIN commands', commands'[i].op = "online"
        PROVE  commands'[i].settings \in Announced
    BY <2>1, <2>2, <2>3, CommandsGrow DEF Announced, Online
  <2> QED BY <2>2, <2>3 DEF AcceptedOnly, Announced
<1>5. ASSUME Activate \/ Stop PROVE AcceptedOnly'
  <2>1. Offline \in Commands /\ (commands' = commands \/ Send(Offline))
    BY <1>5 DEF Activate, Stop, TypeOK, Offline, Commands
  <2>2. UNCHANGED <<settings, engine>>
        /\ (step' \in {"publish", "announce"} => step \in {"publish", "announce"})
    BY <1>5 DEF Activate, Stop
  <2>3. ASSUME NEW i \in DOMAIN commands', commands'[i].op = "online"
        PROVE  commands'[i].settings \in Announced
    BY <2>1, <2>3, CommandsGrow DEF Announced, Offline
  <2> QED BY <2>2, <2>3 DEF AcceptedOnly, Announced
<1>6. CASE TakeCommand
  <2>1. UNCHANGED <<step, settings>>
    BY <1>6 DEF TakeCommand
  <2>2. \/ engine' = NoEngine \/ engine' = engine
        \/ commands[1].op = "online" /\ engine'.settings = commands[1].settings
    BY <1>6, ObeyCases DEF Commands
  <2>3. 1 \in DOMAIN commands
        /\ \A i \in DOMAIN commands' : i + 1 \in DOMAIN commands /\ commands'[i] = commands[i + 1]
    BY <1>6, ObeyCases
  <2>4. Announced' \subseteq Announced
    BY <2>1, <2>2, <2>3 DEF Announced
  <2> QED BY <2>4 DEF AcceptedOnly
<1>7. ASSUME SinkFails \/ StopWorker PROVE AcceptedOnly'
  <2>1. UNCHANGED <<step, settings>> /\ engine' = NoEngine /\ commands' \in {commands, <<>>}
    BY <1>7 DEF SinkFails, StopWorker
  <2>2. Announced' \subseteq Announced
    BY <2>1 DEF Announced
  <2> QED BY <2>2 DEF AcceptedOnly
<1>8. CASE Receive \/ TakePacket
          \/ \E configured \in ConfiguredMtus, layer \in {2, 3} : Configure(layer, configured)
  BY <1>1, <1>8 DEF Receive, TakePacket, Configure
<1> QED BY <1>1, <1>2, <1>3, <1>4, <1>5, <1>6, <1>7, <1>8
        DEF Next, Callbacks, Start, Worker, vars

\* The stack only ever has an engine with settings that can be used: an address, an
\* MTU in range, resolvers of an assigned family (vpn.rs:203-232, netstack.rs:340-375).
THEOREM UsableTheorem == Spec => []EnginesUsable
<1>1. Init => AcceptedOnly
  BY DEF Init, AcceptedOnly, Announced
<1>2. TypeOK /\ AcceptedOnly => EnginesUsable
  BY AnnouncedTyped, AcceptedUsable DEF AcceptedOnly, EnginesUsable
<1> QED BY <1>1, <1>2, InitTyped, NextTyped, NextAccepted, PTL DEF Spec
=============================================================================
