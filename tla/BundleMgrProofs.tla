--------------------------- MODULE BundleMgrProofs ---------------------------
(***************************************************************************)
(* Proofs about BundleMgr, for any hosts, any bundles named in any order   *)
(* and number, and any number of runs, failed or broken plays and          *)
(* restarts.                                                               *)
(*                                                                         *)
(* The lists: install_list names every bundle once, each requirement       *)
(* before what requires it, and the plan of a run, the list of its         *)
(* playbooks, inherits that.  The host: a data disk that was in use is     *)
(* never overwritten (DataKept).  The runs: what has been played is the    *)
(* start of the plan (Progress), from which the other properties follow,   *)
(* and with them that every step is one HostPreparation allows.            *)
(***************************************************************************)
EXTENDS BundleMgrRefines, SequenceFacts

-----------------------------------------------------------------------------
(* The lists of bundles and playbooks.                                     *)

\* The list l is the first k elements of s without those mentioned before.
FirstsOf(l, s, k) ==
    /\ Distinct(l)
    /\ \A m \in 1..k : Contains(l, s[m])
    /\ \A i \in 1..Len(l) : \E m \in 1..k :
         l[i] = s[m] /\ \A m2 \in 1..(m - 1) : \E j \in 1..(i - 1) : l[j] = s[m2]

\* One more bundle: it is left out, or goes to the end.
LEMMA FirstsStep ==
    ASSUME NEW S, NEW s \in Seq(S), NEW k \in Nat, k + 1 <= Len(s),
           NEW l \in Seq(S), FirstsOf(l, s, k), NEW t,
           t = IF Contains(l, s[k + 1]) THEN l ELSE Append(l, s[k + 1])
    PROVE  t \in Seq(S) /\ FirstsOf(t, s, k + 1)
<1>1. /\ k + 1 \in 1..(k + 1) /\ s[k + 1] \in S /\ Len(l) \in Nat
      /\ \A m \in 1..(k + 1) : m \in 1..k \/ m = k + 1
      /\ \A m \in 1..k : m \in 1..(k + 1)
  OBVIOUS
<1>2. CASE Contains(l, s[k + 1])
  <2>1. t = l
    BY <1>2
  <2>2. \A m \in 1..(k + 1) : Contains(l, s[m])
    BY <1>1, <1>2 DEF FirstsOf
  <2>3. QED BY <1>1, <2>1, <2>2 DEF FirstsOf
<1>3. CASE ~Contains(l, s[k + 1])
  <2>1. /\ t \in Seq(S) /\ Len(t) = Len(l) + 1 /\ t[Len(l) + 1] = s[k + 1]
        /\ \A i \in 1..Len(l) : t[i] = l[i]
    BY <1>1, <1>3, AppendProperties
  <2>2. \A i \in 1..Len(l) : l[i] # s[k + 1]
    BY <1>3 DEF Contains
  <2>3. /\ Len(l) + 1 \in 1..Len(t)
        /\ \A i \in 1..Len(t) : i \in 1..Len(l) \/ i = Len(l) + 1
        /\ \A i \in 1..Len(l) : i \in 1..Len(t)
    BY <1>1, <2>1
  <2>4. Distinct(t)
    BY <2>1, <2>2, <2>3 DEF Distinct, FirstsOf
  <2>5. \A m \in 1..(k + 1) : Contains(t, s[m])
    <3>1. ASSUME NEW m \in 1..k PROVE Contains(t, s[m])
      <4>1. Contains(l, s[m])
        BY DEF FirstsOf
      <4>2. PICK i \in 1..Len(l) : l[i] = s[m]
        BY <4>1 DEF Contains
      <4>3. i \in 1..Len(t) /\ t[i] = s[m]
        BY <2>1, <2>3, <4>2
      <4>4. QED BY <4>3 DEF Contains
    <3>2. Contains(t, s[k + 1])
      BY <2>1, <2>3 DEF Contains
    <3>3. QED BY <1>1, <3>1, <3>2
  <2>6. ASSUME NEW i \in 1..Len(l)
        PROVE  \E m \in 1..(k + 1) : t[i] = s[m] /\
                 \A m2 \in 1..(m - 1) : \E j \in 1..(i - 1) : t[j] = s[m2]
    <3>1. PICK m \in 1..k : l[i] = s[m] /\
            \A m2 \in 1..(m - 1) : \E j \in 1..(i - 1) : l[j] = s[m2]
      BY DEF FirstsOf
    <3>2. \A j \in 1..(i - 1) : j \in 1..Len(l)
      BY <1>1
    <3>3. m \in 1..(k + 1) /\ t[i] = s[m]
          /\ \A m2 \in 1..(m - 1) : \E j \in 1..(i - 1) : t[j] = s[m2]
      BY <1>1, <2>1, <3>1, <3>2
    <3>4. QED BY <3>3
  <2>7. ASSUME NEW m2 \in 1..((k + 1) - 1)
        PROVE  \E j \in 1..((Len(l) + 1) - 1) : t[j] = s[m2]
    <3>1. m2 \in 1..k /\ (Len(l) + 1) - 1 = Len(l)
      BY <1>1
    <3>2. PICK j \in 1..Len(l) : l[j] = s[m2]
      BY <3>1 DEF FirstsOf, Contains
    <3>3. t[j] = s[m2]
      BY <2>1, <3>2
    <3>4. QED BY <3>1, <3>3
  <2>8. ASSUME NEW i \in 1..Len(t)
        PROVE  \E m \in 1..(k + 1) : t[i] = s[m] /\
                 \A m2 \in 1..(m - 1) : \E j \in 1..(i - 1) : t[j] = s[m2]
    BY <1>1, <2>1, <2>3, <2>6, <2>7
  <2>9. QED BY <2>1, <2>4, <2>5, <2>8 DEF FirstsOf
<1>4. QED BY <1>2, <1>3

\* What OnlyFirst returns, by induction over the length of the list.
LEMMA OnlyFirstFacts ==
    ASSUME NEW S, NEW s \in Seq(S)
    PROVE  OnlyFirst(s) \in Seq(S) /\ FirstsOf(OnlyFirst(s), s, Len(s))
<1> DEFINE len == Len(s)
           add(l, b) == IF Contains(l, b) THEN l ELSE Append(l, b)
           body(g) == [n \in 0..len |-> IF n = 0 THEN <<>> ELSE add(g[n - 1], s[n])]
           kept == CHOOSE g : g = body(g)
           F == [x \in (1..len) \X Seq(S) |-> add(x[2], s[x[1]])]
<1>1. OnlyFirst(s) = kept[len]
  BY DEF OnlyFirst
<1>2. len \in Nat /\ <<>> \in Seq(S)
  OBVIOUS
<1>3. F \in [(1..len) \X Seq(S) -> Seq(S)]
  <2>1. ASSUME NEW x \in (1..len) \X Seq(S) PROVE add(x[2], s[x[1]]) \in Seq(S)
    <3>1. x[2] \in Seq(S) /\ s[x[1]] \in S
      OBVIOUS
    <3>2. QED BY <3>1, AppendProperties
  <2> HIDE DEF add
  <2>2. QED BY <2>1
<1>4. PICK f \in [0..len -> Seq(S)] : Rounds(f, len, F, <<>>)
  <2> HIDE DEF F, len
  <2>1. QED BY <1>2, <1>3, RoundsExist
<1> HIDE DEF add
<1>5. f = body(f)
  <2>1. f[0] = <<>>
    BY <1>4 DEF Rounds
  <2>2. ASSUME NEW n \in 1..len PROVE f[n] = add(f[n - 1], s[n])
    <3>1. f[n] = F[<<n, f[n - 1]>>]
      <4> HIDE DEF F
      <4> QED BY <1>4 DEF Rounds
    <3>2. <<n, f[n - 1]>> \in (1..len) \X Seq(S)
      <4>1. n - 1 \in 0..len
        BY <1>2
      <4>2. QED BY <4>1
    <3>3. QED BY <3>1, <3>2
  <2>3. \A n \in 0..len : f[n] = IF n = 0 THEN <<>> ELSE add(f[n - 1], s[n])
    <3>1. \A n \in 0..len : n = 0 \/ n \in 1..len
      BY <1>2
    <3> HIDE DEF len
    <3>2. QED BY <2>1, <2>2, <3>1
  <2>4. QED BY <2>3
<1>6. kept = body(kept)
  <2>1. \E g : g = body(g)
    BY <1>5
  <2> HIDE DEF body
  <2>2. QED BY <2>1
<1> HIDE DEF kept, F
<1>7. kept[0] = <<>>
  <2>1. 0 \in 0..len
    BY <1>2
  <2>2. QED BY <1>6, <2>1
<1>8. ASSUME NEW n \in 1..len PROVE kept[n] = add(kept[n - 1], s[n])
  <2>1. n \in 0..len /\ n # 0
    BY <1>2
  <2>2. QED BY <1>6, <2>1
<1> DEFINE T == {n \in Nat : n <= len => kept[n] \in Seq(S) /\ FirstsOf(kept[n], s, n)}
<1>9. 0 \in T
  <2>1. Len(<<>>) = 0 /\ 1..0 = {}
    OBVIOUS
  <2>2. FirstsOf(<<>>, s, 0)
    BY <2>1 DEF FirstsOf, Distinct
  <2>3. QED BY <1>2, <1>7, <2>2
<1>10. ASSUME NEW n \in Nat, n \in T PROVE n + 1 \in T
  <2>1. CASE n + 1 <= len
    <3>1. n <= len /\ n + 1 \in 1..len /\ (n + 1) - 1 = n
      BY <1>2, <2>1
    <3>2. kept[n] \in Seq(S) /\ FirstsOf(kept[n], s, n)
      BY <1>10, <3>1
    <3>3. kept[n + 1] = add(kept[(n + 1) - 1], s[n + 1])
      <4> HIDE DEF T
      <4> QED BY <1>8, <3>1
    <3>4. kept[n + 1] = add(kept[n], s[n + 1])
      BY <3>1, <3>3
    <3>5. kept[n + 1] \in Seq(S) /\ FirstsOf(kept[n + 1], s, n + 1)
      <4> HIDE DEF T
      <4> QED BY <2>1, <3>2, <3>4, FirstsStep DEF add
    <3>6. QED BY <3>5
  <2>2. CASE ~(n + 1 <= len)
    BY <2>2
  <2>3. QED BY <2>1, <2>2
<1> HIDE DEF T
<1>11. len \in T
  BY <1>2, <1>9, <1>10, SetInduction
<1>12. kept[len] \in Seq(S) /\ FirstsOf(kept[len], s, len)
  BY <1>2, <1>11 DEF T
<1>13. QED BY <1>1, <1>12

\* The bundles that others require.
Required == {"Base", "Chrony", "Firewall", "THP", "Swappiness", "Swap"}

\* packages.json: requirements start with Base, which requires nothing and is
\* all that any of the others requires.
LEMMA RequiresFacts ==
    ASSUME NEW b \in Bundles
    PROVE  /\ Requires(b) \in Seq(Required)
           /\ Len(Requires(b)) # 0 => Requires(b)[1] = "Base"
           /\ Len(Requires(b)) \in Nat
           /\ ToSet(Requires(b)) \subseteq Required
           /\ Required \subseteq Bundles
           /\ Requires("Base") = <<>>
           /\ \A c \in Required : ToSet(Requires(c)) \subseteq {"Base"}
<1> DEFINE more == <<"Swappiness", "Swap">>
<1>1. /\ Host \in Seq(Required) /\ Len(Host) = 4 /\ Host[1] = "Base"
  BY DEF Host, Required
<1>2. more \in Seq(Required) /\ Len(more) = 2
  BY DEF Required
<1>3. /\ Host \o more \in Seq(Required)
      /\ (Host \o more)[1] = "Base"
  <2> HIDE DEF more
  <2>1. Host \o more \in Seq(Required)
    BY <1>1, <1>2, ConcatProperties
  <2>2. 1 \in 1..(Len(Host) + Len(more)) /\ 1 <= Len(Host)
    BY <1>1, <1>2
  <2>3. (Host \o more)[1] = Host[1]
    BY <1>1, <1>2, <2>2, ConcatProperties
  <2>4. QED BY <1>1, <2>1, <2>3
<1>4. <<"Base">> \in Seq(Required) /\ <<"Base">>[1] = "Base" /\ <<>> \in Seq(Required)
  BY DEF Required
<1>5. \/ Requires(b) = <<>>
      \/ Requires(b) = <<"Base">>
      \/ Requires(b) = Host
      \/ Requires(b) = Host \o more
  BY DEF Requires
<1>6. Requires("Base") = <<>>
  BY DEF Requires
<1>7. ASSUME NEW c \in Required PROVE ToSet(Requires(c)) \subseteq {"Base"}
  <2>1. Requires(c) = <<>> \/ Requires(c) = <<"Base">>
    BY DEF Requires, Required
  <2>2. ToSet(<<>>) = {} /\ ToSet(<<"Base">>) = {"Base"}
    BY DEF ToSet
  <2>3. QED BY <2>1, <2>2
<1>8. Required \subseteq Bundles
  BY DEF Bundles, Everywhere, NotOnArch, Required
<1> HIDE DEF more
<1>9. Requires(b) \in Seq(Required)
  BY <1>1, <1>3, <1>4, <1>5
<1>10. Len(Requires(b)) # 0 => Requires(b)[1] = "Base"
  <2>1. Len(<<>>) = 0
    OBVIOUS
  <2>2. QED BY <1>1, <1>3, <1>4, <1>5, <2>1
<1>11. ToSet(Requires(b)) \subseteq Required
  BY <1>9 DEF ToSet
<1>12. QED BY <1>6, <1>7, <1>8, <1>9, <1>10, <1>11

\* What install_list makes of one bundle: its requirements, then the bundle.
Chain(b) == Append(Requires(b), b)

\* A bundle comes after all that it requires, and they after what they require.
LEMMA ChainFacts ==
    ASSUME NEW b \in Bundles
    PROVE  /\ Chain(b) \in Seq(Bundles)
           /\ \E q \in 1..Len(Chain(b)) : Chain(b)[q] = b
           /\ \A q \in 1..Len(Chain(b)) : Chain(b)[q] \in {b} \cup ToSet(Requires(b))
           /\ \A q \in 1..Len(Chain(b)) : \A c \in ToSet(Requires(Chain(b)[q])) :
                \E p \in 1..Len(Chain(b)) : p < q /\ Chain(b)[p] = c
<1> DEFINE r == Requires(b)
           t == Chain(b)
<1>1. /\ r \in Seq(Bundles) /\ Len(r) \in Nat /\ ToSet(r) \subseteq Required
      /\ Len(r) # 0 => r[1] = "Base"
      /\ \A q \in 1..Len(r) : r[q] \in ToSet(r)
  <2>1. r \in Seq(Required) /\ Required \subseteq Bundles
    BY RequiresFacts
  <2>2. r \in Seq(Bundles)
    BY <2>1
  <2>3. \A q \in 1..Len(r) : r[q] \in ToSet(r)
    BY <2>2 DEF ToSet
  <2>4. QED BY <2>2, <2>3, RequiresFacts
<1>2. /\ t \in Seq(Bundles) /\ Len(t) = Len(r) + 1 /\ t[Len(r) + 1] = b
      /\ \A q \in 1..Len(r) : t[q] = r[q]
  <2>1. t = Append(r, b)
    BY DEF Chain
  <2> HIDE DEF r, t
  <2>2. QED BY <1>1, <2>1, AppendProperties
<1>3. ToSet(Requires("Base")) = {}
  <2>1. Requires("Base") = <<>>
    BY RequiresFacts
  <2>2. QED BY <2>1 DEF ToSet
<1>4. \A c \in Required : ToSet(Requires(c)) \subseteq {"Base"}
  BY RequiresFacts
<1>5. ToSet(r) = {r[p] : p \in 1..Len(r)}
  BY <1>1 DEF ToSet
<1> HIDE DEF r, t
<1>6. Len(r) + 1 \in 1..Len(t)
  BY <1>1, <1>2
<1>7. \A q \in 1..Len(t) : q = Len(r) + 1 \/ q \in 1..Len(r)
  BY <1>1, <1>2
<1>8. \A q \in 1..Len(t) : t[q] \in {b} \cup ToSet(r)
  BY <1>1, <1>2, <1>7
<1>9. ASSUME NEW q \in 1..Len(t), NEW c \in ToSet(Requires(t[q]))
      PROVE  \E p \in 1..Len(t) : p < q /\ t[p] = c
  <2>1. CASE q = Len(r) + 1
    <3>1. c \in ToSet(r)
      BY <1>2, <2>1 DEF r
    <3>2. PICK p \in 1..Len(r) : r[p] = c
      BY <1>5, <3>1
    <3>3. p \in 1..Len(t) /\ p < q /\ t[p] = c
      BY <1>1, <1>2, <2>1, <3>2
    <3>4. QED BY <3>3
  <2>2. CASE q \in 1..Len(r)
    <3>1. t[q] = r[q] /\ r[q] \in Required
      BY <1>1, <1>2, <2>2
    <3>2. c = "Base"
      BY <1>4, <3>1
    <3>3. r[q] # "Base"
      BY <1>3, <3>1
    <3>4. Len(r) # 0 /\ 1 \in 1..Len(r)
      BY <1>1, <2>2
    <3>5. r[1] = "Base"
      BY <1>1, <3>4
    <3>6. q # 1
      BY <3>3, <3>5
    <3>7. 1 \in 1..Len(t) /\ 1 < q
      BY <1>1, <1>2, <2>2, <3>6
    <3>8. t[1] = c
      BY <1>2, <3>2, <3>4, <3>5
    <3>9. QED BY <3>7, <3>8
  <2>3. QED BY <1>7, <2>1, <2>2
<1>10. QED BY <1>2, <1>6, <1>8, <1>9 DEF r, t

\* What a system offers it offers with all its requirements.
LEMMA OfferedFacts ==
    ASSUME NEW system \in Oses, NEW b \in Offered(system)
    PROVE  ToSet(Requires(b)) \subseteq Offered(system)
<1>1. b \in Bundles
  BY DEF Offered, Bundles, Everywhere, NotOnArch, SyncGateway, CloudCli
<1>2. ToSet(Requires(b)) \subseteq Required
  BY <1>1, RequiresFacts
<1>3. CASE system # "arch"
  BY <1>2, <1>3 DEF Offered, Everywhere, NotOnArch, Required
<1>4. CASE system = "arch"
  <2>1. b \in Everywhere
    BY <1>4 DEF Offered
  <2>2. Requires(b) \in {<<>>, <<"Base">>}
    BY <2>1 DEF Everywhere, Requires
  <2>3. ToSet(<<>>) = {} /\ ToSet(<<"Base">>) = {"Base"}
    BY DEF ToSet
  <2>4. "Base" \in Offered(system)
    BY DEF Offered, Everywhere
  <2>5. QED BY <2>2, <2>3, <2>4
<1>5. QED BY <1>3, <1>4

\* A requirement of any element is before it.
Closed(l) == \A i \in 1..Len(l) : \A c \in ToSet(Requires(l[i])) :
               \E j \in 1..(i - 1) : l[j] = c

\* The list before repetitions are left out.
LEMMA ToInstallFacts ==
    ASSUME NEW named \in Seq(Bundles)
    PROVE  /\ ToInstall(named) \in Seq(Bundles)
           /\ Closed(ToInstall(named))
           /\ \A i \in 1..Len(named) : Contains(ToInstall(named), named[i])
           /\ \A i \in 1..Len(ToInstall(named)) : \E m \in 1..Len(named) :
                ToInstall(named)[i] \in {named[m]} \cup ToSet(Requires(named[m]))
<1> DEFINE n == Len(named)
           ss == [i \in DOMAIN named |-> Chain(named[i])]
           t == ToInstall(named)
<1>1. n \in Nat /\ DOMAIN named = 1..n /\ \A m \in 1..n : named[m] \in Bundles
  OBVIOUS
<1>2. t = FlattenSeq(ss)
  BY DEF ToInstall, Chain
<1>3. ss \in Seq(Seq(Bundles)) /\ Len(ss) = n
  <2>1. \A m \in 1..n : Chain(named[m]) \in Seq(Bundles)
    BY <1>1, ChainFacts
  <2>2. ss \in [1..n -> Seq(Bundles)]
    BY <1>1, <2>1
  <2> HIDE DEF ss, n
  <2>3. QED BY <1>1, <2>2
<1>4. \A m \in 1..n : ss[m] = Chain(named[m])
  BY <1>1
<1> HIDE DEF ss, t, n
<1>5. t \in Seq(Bundles) /\ Covers(t, ss, n) /\ Ordered(t, ss, n)
  BY <1>2, <1>3, FlattenFacts
<1>6. Closed(t)
  <2> SUFFICES ASSUME NEW i \in 1..Len(t), NEW c \in ToSet(Requires(t[i]))
               PROVE  \E j \in 1..(i - 1) : t[j] = c
    BY DEF Closed
  <2>1. PICK m \in 1..n : \E q \in 1..Len(ss[m]) :
          /\ t[i] = ss[m][q]
          /\ \A m2 \in 1..m : \A q2 \in 1..Len(ss[m2]) :
               m2 < m \/ q2 < q => \E j \in 1..(i - 1) : t[j] = ss[m2][q2]
    BY <1>5 DEF Ordered, InPlace
  <2>2. PICK q \in 1..Len(ss[m]) :
          /\ t[i] = ss[m][q]
          /\ \A m2 \in 1..m : \A q2 \in 1..Len(ss[m2]) :
               m2 < m \/ q2 < q => \E j \in 1..(i - 1) : t[j] = ss[m2][q2]
    BY <2>1
  <2>3. PICK p \in 1..Len(ss[m]) : p < q /\ ss[m][p] = c
    <3>1. c \in ToSet(Requires(Chain(named[m])[q])) /\ q \in 1..Len(Chain(named[m]))
      BY <1>4, <2>2
    <3>2. \E p \in 1..Len(Chain(named[m])) : p < q /\ Chain(named[m])[p] = c
      BY <1>1, <3>1, ChainFacts
    <3>3. QED BY <1>4, <3>2
  <2>4. m \in 1..m
    BY <1>1
  <2>5. QED BY <2>2, <2>3, <2>4
<1>7. ASSUME NEW m \in 1..n PROVE Contains(t, named[m])
  <2>1. PICK q \in 1..Len(ss[m]) : ss[m][q] = named[m]
    BY <1>1, <1>4, ChainFacts
  <2>2. QED BY <1>5, <2>1 DEF Covers, Contains
<1>8. ASSUME NEW i \in 1..Len(t)
      PROVE  \E m \in 1..n : t[i] \in {named[m]} \cup ToSet(Requires(named[m]))
  <2>1. PICK m \in 1..n : \E q \in 1..Len(ss[m]) : t[i] = ss[m][q]
    BY <1>5 DEF Ordered, InPlace
  <2>2. t[i] \in {named[m]} \cup ToSet(Requires(named[m]))
    BY <1>1, <1>4, <2>1, ChainFacts
  <2>3. QED BY <2>2
<1>9. QED BY <1>5, <1>6, <1>7, <1>8 DEF t, n

\* install_list: each bundle once, every requirement before what requires it,
\* all that are named and only what they require besides.
LEMMA InstallListFacts ==
    ASSUME NEW named \in Seq(Bundles)
    PROVE  /\ InstallList(named) \in Seq(Bundles)
           /\ Distinct(InstallList(named))
           /\ Closed(InstallList(named))
           /\ \A i \in 1..Len(named) : Contains(InstallList(named), named[i])
           /\ \A i \in 1..Len(InstallList(named)) : \E m \in 1..Len(named) :
                InstallList(named)[i] \in {named[m]} \cup ToSet(Requires(named[m]))
<1> DEFINE s == ToInstall(named)
           l == InstallList(named)
<1>1. /\ s \in Seq(Bundles) /\ Closed(s)
      /\ \A i \in 1..Len(named) : Contains(s, named[i])
      /\ \A i \in 1..Len(s) : \E m \in 1..Len(named) :
           s[i] \in {named[m]} \cup ToSet(Requires(named[m]))
  BY ToInstallFacts
<1>2. l \in Seq(Bundles) /\ FirstsOf(l, s, Len(s))
  BY <1>1, OnlyFirstFacts DEF InstallList
<1> HIDE DEF s, l
<1>3. Distinct(l) /\ \A i \in 1..Len(named) : Contains(l, named[i])
  BY <1>1, <1>2 DEF FirstsOf, Contains
<1>4. Closed(l)
  <2> SUFFICES ASSUME NEW i \in 1..Len(l), NEW c \in ToSet(Requires(l[i]))
               PROVE  \E j \in 1..(i - 1) : l[j] = c
    BY DEF Closed
  <2>1. PICK m \in 1..Len(s) : l[i] = s[m] /\
          \A m2 \in 1..(m - 1) : \E j \in 1..(i - 1) : l[j] = s[m2]
    BY <1>2 DEF FirstsOf
  <2>2. PICK m2 \in 1..(m - 1) : s[m2] = c
    BY <1>1, <2>1 DEF Closed
  <2>3. QED BY <2>1, <2>2
<1>5. \A i \in 1..Len(l) : \E m \in 1..Len(named) :
        l[i] \in {named[m]} \cup ToSet(Requires(named[m]))
  BY <1>1, <1>2 DEF FirstsOf
<1>6. QED BY <1>2, <1>3, <1>4, <1>5 DEF l

\* The playbooks of one bundle.
Steps(b) == [j \in DOMAIN Playbooks(b) |-> <<b, Playbooks(b)[j]>>]

\* One bundle has no playbook twice.
LEMMA StepsFacts ==
    ASSUME NEW b \in Bundles
    PROVE  /\ Steps(b) \in Seq(Work) /\ Len(Steps(b)) = Len(Playbooks(b))
           /\ DOMAIN Playbooks(b) = 1..Len(Playbooks(b))
           /\ \A j \in 1..Len(Steps(b)) : Steps(b)[j] = <<b, Playbooks(b)[j]>>
           /\ \A j, k \in 1..Len(Playbooks(b)) : Playbooks(b)[j] = Playbooks(b)[k] => j = k
<1> DEFINE p == Playbooks(b)
<1>1. p = <<>> \/ p = <<"run">> \/ p = <<"run", "post">>
  BY DEF Playbooks
<1>2. p \in Seq({"run", "post"})
  <2>1. <<>> \in Seq({"run", "post"}) /\ <<"run">> \in Seq({"run", "post"})
    OBVIOUS
  <2>2. <<"run", "post">> \in Seq({"run", "post"})
    OBVIOUS
  <2> HIDE DEF p
  <2>3. QED BY <1>1, <2>1, <2>2
<1>3. \A j, k \in 1..Len(p) : p[j] = p[k] => j = k
  BY <1>1
<1>4. Len(p) \in Nat /\ DOMAIN p = 1..Len(p)
  BY <1>2
<1>5. Steps(b) = [j \in 1..Len(p) |-> <<b, p[j]>>]
  BY <1>4 DEF Steps
<1> HIDE DEF p
<1>6. \A j \in 1..Len(p) : <<b, p[j]>> \in Work
  BY <1>2 DEF Work
<1>7. Steps(b) \in Seq(Work) /\ Len(Steps(b)) = Len(p)
      /\ \A j \in 1..Len(p) : Steps(b)[j] = <<b, p[j]>>
  BY <1>4, <1>5, <1>6
<1>8. QED BY <1>3, <1>4, <1>7 DEF p

\* The list of playbooks of a run: all those of its bundles, each once, those
\* of a requirement before those of what requires it.
LEMMA PlaybooksFacts ==
    ASSUME NEW l \in Seq(Bundles), Distinct(l), Closed(l)
    PROVE  /\ PlaybooksOf(l) \in Seq(Work)
           /\ Distinct(PlaybooksOf(l))
           /\ \A m \in 1..Len(l) : \A j \in 1..Len(Playbooks(l[m])) :
                Contains(PlaybooksOf(l), <<l[m], Playbooks(l[m])[j]>>)
           /\ \A i \in 1..Len(PlaybooksOf(l)) :
                /\ Contains(l, PlaybooksOf(l)[i][1])
                /\ \E j \in 1..Len(Playbooks(PlaybooksOf(l)[i][1])) :
                     PlaybooksOf(l)[i] =
                       <<PlaybooksOf(l)[i][1], Playbooks(PlaybooksOf(l)[i][1])[j]>>
                /\ \A c \in ToSet(Requires(PlaybooksOf(l)[i][1])) :
                     \A j \in 1..Len(Playbooks(c)) :
                       \E k \in 1..(i - 1) :
                         PlaybooksOf(l)[k] = <<c, Playbooks(c)[j]>>
<1> DEFINE n == Len(l)
           ss == [m \in DOMAIN l |-> Steps(l[m])]
           t == PlaybooksOf(l)
<1>1. n \in Nat /\ DOMAIN l = 1..n /\ \A m \in 1..n : l[m] \in Bundles
  OBVIOUS
<1>2. t = FlattenSeq(ss)
  BY DEF PlaybooksOf, Steps
<1>3. ss \in Seq(Seq(Work)) /\ Len(ss) = n
  <2>1. \A m \in 1..n : Steps(l[m]) \in Seq(Work)
    BY <1>1, StepsFacts
  <2>2. ss \in [1..n -> Seq(Work)]
    BY <1>1, <2>1
  <2> HIDE DEF ss, n
  <2>3. QED BY <1>1, <2>2
<1>4. \A m \in 1..n : ss[m] = Steps(l[m])
  BY <1>1
<1>5. \A m \in 1..n : /\ Len(ss[m]) = Len(Playbooks(l[m]))
                      /\ \A j \in 1..Len(ss[m]) : ss[m][j] = <<l[m], Playbooks(l[m])[j]>>
  <2> HIDE DEF ss, n
  <2>1. QED BY <1>1, <1>4, StepsFacts
<1> HIDE DEF ss, t, n
<1>6. Separate(ss)
  <2> SUFFICES ASSUME NEW m \in 1..n, NEW m2 \in 1..n, NEW q \in 1..Len(ss[m]),
                      NEW q2 \in 1..Len(ss[m2]), ss[m][q] = ss[m2][q2]
               PROVE  m = m2 /\ q = q2
    BY <1>3 DEF Separate
  <2>1. l[m] = l[m2] /\ Playbooks(l[m])[q] = Playbooks(l[m2])[q2]
    BY <1>5
  <2>2. m = m2
    BY <2>1 DEF Distinct, n
  <2>3. q = q2
    BY <1>1, <1>5, <2>1, <2>2, StepsFacts
  <2>4. QED BY <2>2, <2>3
<1>7. t \in Seq(Work) /\ Covers(t, ss, n) /\ Ordered(t, ss, n) /\ Distinct(t)
  BY <1>2, <1>3, <1>6, FlattenFacts
<1>8. ASSUME NEW m \in 1..n, NEW j \in 1..Len(Playbooks(l[m]))
      PROVE  Contains(t, <<l[m], Playbooks(l[m])[j]>>)
  <2>1. j \in 1..Len(ss[m]) /\ ss[m][j] = <<l[m], Playbooks(l[m])[j]>>
    BY <1>5
  <2>2. PICK i \in 1..Len(t) : t[i] = ss[m][j]
    BY <1>7, <2>1 DEF Covers
  <2>3. QED BY <2>1, <2>2 DEF Contains
<1>9. ASSUME NEW i \in 1..Len(t)
      PROVE  /\ Contains(l, t[i][1])
             /\ \E j \in 1..Len(Playbooks(t[i][1])) :
                  t[i] = <<t[i][1], Playbooks(t[i][1])[j]>>
             /\ \A c \in ToSet(Requires(t[i][1])) : \A j \in 1..Len(Playbooks(c)) :
                  \E k \in 1..(i - 1) : t[k] = <<c, Playbooks(c)[j]>>
  <2>1. PICK m \in 1..n : \E q \in 1..Len(ss[m]) :
          /\ t[i] = ss[m][q]
          /\ \A m2 \in 1..m : \A q2 \in 1..Len(ss[m2]) :
               m2 < m \/ q2 < q => \E j \in 1..(i - 1) : t[j] = ss[m2][q2]
    BY <1>7 DEF Ordered, InPlace
  <2>2. PICK q \in 1..Len(ss[m]) :
          /\ t[i] = ss[m][q]
          /\ \A m2 \in 1..m : \A q2 \in 1..Len(ss[m2]) :
               m2 < m \/ q2 < q => \E j \in 1..(i - 1) : t[j] = ss[m2][q2]
    BY <2>1
  <2>3. t[i] = <<l[m], Playbooks(l[m])[q]>> /\ t[i][1] = l[m]
    BY <1>5, <2>2
  <2>4. Contains(l, t[i][1])
    BY <2>3 DEF Contains, n
  <2>5. ASSUME NEW c \in ToSet(Requires(t[i][1])), NEW j \in 1..Len(Playbooks(c))
        PROVE  \E k \in 1..(i - 1) : t[k] = <<c, Playbooks(c)[j]>>
    <3>1. PICK m2 \in 1..(m - 1) : l[m2] = c
      BY <2>3 DEF Closed, n
    <3>2. m2 \in 1..m /\ m2 \in 1..n /\ m2 < m
      BY <1>1
    <3>3. j \in 1..Len(ss[m2]) /\ ss[m2][j] = <<c, Playbooks(c)[j]>>
      BY <1>5, <3>1, <3>2
    <3>4. QED BY <2>2, <3>2, <3>3
  <2>6. \E j \in 1..Len(Playbooks(t[i][1])) : t[i] = <<t[i][1], Playbooks(t[i][1])[j]>>
    <3>1. q \in 1..Len(Playbooks(l[m]))
      BY <1>5
    <3>2. QED BY <2>3, <3>1
  <2>7. QED BY <2>4, <2>5, <2>6
<1>10. QED BY <1>7, <1>8, <1>9 DEF t, n

-----------------------------------------------------------------------------
(* The host.                                                               *)

\* Why data is safe: what is mounted is in fstab, data is mounted, and a disk
\* that is swap, now or after a restart, is not mounted anywhere.
Safe(h) ==
    /\ h.mounts = h.fstab \cap MountPoints
    /\ h.data => h.mounts # {}
    /\ h.swapOn => h.mounts = {}
    /\ "swap" \in h.fstab => h.swapOn

HostInv == host \in HostState /\ Safe(host)

\* What a play that may mount the disk at paths, and may make swap of it, can
\* make of a host: nothing unsafe, no data, mount or package lost.
Keeping(h, paths, swap) ==
    {g \in HostState : /\ Safe(g)
                       /\ h.data => g.data
                       /\ h.couchbase => g.couchbase
                       /\ h.gateway => g.gateway
                       /\ h.mounts \subseteq g.mounts
                       /\ g.mounts \subseteq h.mounts \cup paths
                       /\ g.swapOn => h.swapOn \/ swap}
MaySwap(m) == ~m.container /\ ~m.ownSwap /\ HasDevice(m, 2)

-----------------------------------------------------------------------------
\* A play leaves the host as it is after one of its tasks.
LEMMA PlayStates ==
    ASSUME NEW S, NEW after \in Seq(S), after # <<>>, NEW end,
           NEW play \in Play(after, end)
    PROVE  play.host \in S
<1>1. Len(after) \in Nat /\ Len(after) >= 1
  OBVIOUS
<1>2. \A i \in 1..Len(after) : after[i] \in S
  OBVIOUS
<1>3. CASE play = [host |-> after[Len(after)], end |-> end]
  BY <1>1, <1>2, <1>3
<1>4. CASE \E i \in {1} \cup 1..Len(after) - 1 :
              play = [host |-> after[i], end |-> "fault"]
  BY <1>1, <1>2, <1>4
<1>5. QED
  BY <1>3, <1>4 DEF Play

\* configure_swap.yaml: swap is only made of a disk that is not mounted.
LEMMA SwapKeeps ==
    ASSUME NEW m, NEW h \in HostState, Safe(h), NEW play \in Swap(m, h)
    PROVE  play.host \in Keeping(h, {}, MaySwap(m))
<1> DEFINE made == [h EXCEPT !.data = FALSE]
           on   == [made EXCEPT !.swapOn = TRUE]
           kept == [on EXCEPT !.fstab = @ \cup {"swap"}]
           K    == Keeping(h, {}, MaySwap(m))
<1> SUFFICES play.host \in K
  OBVIOUS
<1>1. h \in K
  BY DEF Keeping
<1>2. CASE play \in Play(<<h>>, "ok") \cup Play(<<h>>, "failed")
  <2> HIDE DEF K
  <2>1. <<h>> \in Seq(K) /\ <<h>> # <<>>
    BY <1>1
  <2>2. QED
    BY <2>1, <1>2, PlayStates
<1>3. CASE MaySwap(m) /\ h.mounts = {} /\ play \in Play(<<h, made, on, kept>>, "ok")
  <2>1. ~h.data
    BY <1>3 DEF Safe
  <2>2. made \in HostState /\ on \in HostState /\ kept \in HostState
    BY DEF HostState, MountPoints
  <2>3. made \in K /\ on \in K /\ kept \in K
    BY <1>3, <2>1, <2>2 DEF Keeping, Safe, HostState, MountPoints
  <2>4. <<h, made, on, kept>> \in Seq(K) /\ <<h, made, on, kept>> # <<>>
    <3> HIDE DEF made, on, kept, K
    <3> QED
      BY <1>1, <2>3
  <2>5. QED
    <3> HIDE DEF made, on, kept, K
    <3> QED
      BY <2>4, <1>3, PlayStates
<1>4. QED
  BY <1>2, <1>3 DEF Swap, MaySwap

\* configure_cbdata.yaml, configure_data_mnt.yaml: a mount is in fstab.
LEMMA DataDiskKeeps ==
    ASSUME NEW m, NEW h \in HostState, Safe(h), NEW path \in MountPoints,
           NEW play \in DataDisk(m, h, path)
    PROVE  play.host \in Keeping(h, {path}, FALSE)
<1> DEFINE cut     == [h EXCEPT !.partition = TRUE]
           made    == [cut EXCEPT !.filesystem = TRUE]
           mounted == Mounted(made, path)
           tasks   == <<h, cut, made, mounted>>
           owned   == [mounted EXCEPT !.owned = TRUE]
           K       == Keeping(h, {path}, FALSE)
<1> SUFFICES play.host \in K
  OBVIOUS
<1>1. h \in K
  BY DEF Keeping
<1>2. CASE play \in Play(<<h>>, "ok") \cup Play(<<h>>, "failed")
  <2> HIDE DEF K
  <2>1. <<h>> \in Seq(K) /\ <<h>> # <<>>
    BY <1>1
  <2>2. QED
    BY <2>1, <1>2, PlayStates
<1>3. CASE ~h.swapOn /\ play \in MakeDataDisk(h, path)
  <2>1. cut \in HostState /\ made \in HostState /\ mounted \in HostState
        /\ owned \in HostState
    BY DEF HostState, MountPoints, Mounted
  <2>2. cut \in K /\ made \in K
    BY <2>1 DEF Keeping, Safe, HostState
  <2>3. mounted \in K /\ owned \in K
    <3>1. /\ mounted.mounts = h.mounts \cup {path}
          /\ mounted.fstab = h.fstab \cup {path}
          /\ mounted.data = TRUE /\ mounted.swapOn = h.swapOn
      BY DEF HostState, Mounted
    <3>2. /\ owned.mounts = mounted.mounts /\ owned.fstab = mounted.fstab
          /\ owned.data = mounted.data /\ owned.swapOn = mounted.swapOn
      BY <2>1 DEF HostState
    <3>3. path # "swap"
      BY DEF MountPoints
    <3>4. Safe(mounted)
      <4> HIDE DEF mounted
      <4> QED
        BY <1>3, <3>1, <3>3 DEF Safe
    <3>5. Safe(owned)
      <4> HIDE DEF mounted, owned
      <4> QED
        BY <3>2, <3>4 DEF Safe
    <3>6. QED
      <4>1. /\ mounted.couchbase = h.couchbase /\ owned.couchbase = h.couchbase
            /\ mounted.gateway = h.gateway /\ owned.gateway = h.gateway
        BY DEF HostState, Mounted
      <4> HIDE DEF mounted, owned
      <4>2. mounted \in K
        BY <2>1, <3>1, <3>4, <4>1 DEF Keeping
      <4>3. owned \in K
        BY <2>1, <3>1, <3>2, <3>5, <4>1 DEF Keeping
      <4>4. QED
        BY <4>2, <4>3
  <2>4. tasks \in Seq(K) /\ tasks # <<>> /\ tasks[4] = mounted
    <3> HIDE DEF cut, made, mounted, owned, K
    <3> QED
      BY <1>1, <2>2, <2>3
  <2>5. Append(tasks, owned) \in Seq(K) /\ Append(tasks, owned) # <<>>
    <3> HIDE DEF tasks, owned, K
    <3> QED
      BY <2>3, <2>4
  <2>6. \/ play \in Play(tasks, "ok") \/ play \in Play(tasks, "failed")
        \/ play \in Play(Append(tasks, owned), "ok")
    BY <1>3, <2>4 DEF MakeDataDisk
  <2>7. QED
    <3> HIDE DEF tasks, owned, K
    <3> QED
      BY <2>4, <2>5, <2>6, PlayStates
<1>4. QED
  BY <1>2, <1>3 DEF DataDisk

\* The playbook of a bundle with a download: a package, with user or unit.
LEMMA InstallKeeps ==
    ASSUME HostInv, NEW b, NEW from, NEW play \in Install(b, from)
    PROVE  play.host \in {g \in Keeping(host, {}, FALSE) : g.swapOn = host.swapOn}
<1> DEFINE installed == [host EXCEPT !.couchbase = @ \/ b = "CBS",
                                     !.gateway = @ \/ b = "InstallSGW"]
           K == {g \in Keeping(host, {}, FALSE) : g.swapOn = host.swapOn}
<1> SUFFICES play.host \in K
  OBVIOUS
<1>1. host \in K
  BY DEF HostInv, Keeping
<1>2. installed \in K
  <2>1. /\ installed.mounts = host.mounts /\ installed.fstab = host.fstab
        /\ installed.data = host.data /\ installed.swapOn = host.swapOn
        /\ host.couchbase => installed.couchbase
        /\ host.gateway => installed.gateway
    BY DEF HostInv, HostState
  <2>2. installed \in HostState
    BY DEF HostInv, HostState
  <2> HIDE DEF installed
  <2>3. QED
    BY <2>1, <2>2 DEF HostInv, Keeping, Safe
<1>3. /\ <<host>> \in Seq(K) /\ <<host>> # <<>>
      /\ <<host, installed, installed>> \in Seq(K)
      /\ <<host, installed, installed>> # <<>>
  <2> HIDE DEF installed, K
  <2> QED
    BY <1>1, <1>2
<1>4. \/ play \in Play(<<host, installed, installed>>, "ok")
      \/ play \in Play(<<host>>, "ok") \/ play \in Play(<<host>>, "failed")
  BY DEF Install
<1>5. QED
  <2> HIDE DEF installed, K
  <2> QED
    BY <1>3, <1>4, PlayStates

\* A play of no task leaves the host as it is.
LEMMA IdlePlay ==
    ASSUME NEW h, NEW end, NEW play \in Play(<<h>>, end)
    PROVE  play.host = h
<1>1. <<h>> \in Seq({h}) /\ <<h>> # <<>>
  OBVIOUS
<1>2. play.host \in {h}
  BY <1>1, PlayStates
<1>3. QED
  BY <1>2

\* The kinds of playbook.
LEMMA PlaysCases ==
    ASSUME NEW work, NEW from, NEW play \in Plays(work, from)
    PROVE  \/ ~HasPlaybook(os, work) /\ play \in Play(<<host>>, "failed")
           \/ /\ HasPlaybook(os, work)
              /\ \/ work[1] = "Swap" /\ play \in Swap(machine, host)
                 \/ /\ work[1] # "Swap"
                    /\ \E path \in MountOf(work) : play \in DataDisk(machine, host, path)
                 \/ /\ MountOf(work) = {} /\ work[1] \in NeedsUrl
                    /\ play \in Install(work[1], from)
                 \/ /\ work[1] \in StartsGateway
                    /\ play \in StartGateway
                 \/ /\ MountOf(work) = {} /\ work[1] # "Swap"
                    /\ work[1] \notin NeedsUrl /\ work[1] \notin StartsGateway
                    /\ play \in Play(<<host>>, "ok")
<1>1. CASE MountOf(work) # {} /\ work[1] # "Swap" /\ HasPlaybook(os, work)
  <2>1. play \in UNION {DataDisk(machine, host, path) : path \in MountOf(work)}
    BY <1>1 DEF Plays
  <2>2. QED
    BY <1>1, <2>1
<1>2. CASE ~(MountOf(work) # {} /\ work[1] # "Swap" /\ HasPlaybook(os, work))
  BY <1>2 DEF Plays
<1>3. QED
  BY <1>1, <1>2

\* A wider bound on what a play does.
LEMMA KeepingMore ==
    ASSUME NEW h, NEW paths, NEW more, paths \subseteq more, NEW swap, NEW also,
           swap => also, NEW g \in Keeping(h, paths, swap)
    PROVE  g \in Keeping(h, more, also)
  BY DEF Keeping

\* What any play makes of the host.
LEMMA PlaysKeep ==
    ASSUME HostInv, NEW work, NEW from, NEW play \in Plays(work, from)
    PROVE  play.host \in Keeping(host, MountOf(work),
                                 work[1] = "Swap" /\ MaySwap(machine))
<1> DEFINE swap == work[1] = "Swap" /\ MaySwap(machine)
<1>1. MountOf(work) \subseteq MountPoints
  BY DEF MountOf, MountPoints
<1>2. CASE play.host = host
  BY <1>2 DEF HostInv, Keeping
<1>3. CASE work[1] = "Swap" /\ play \in Swap(machine, host)
  <2>1. play.host \in Keeping(host, {}, MaySwap(machine))
    BY <1>3, SwapKeeps DEF HostInv
  <2>2. QED
    BY <1>3, <2>1, KeepingMore
<1>4. CASE \E path \in MountOf(work) : play \in DataDisk(machine, host, path)
  <2>1. PICK path \in MountOf(work) : play \in DataDisk(machine, host, path)
    BY <1>4
  <2>2. play.host \in Keeping(host, {path}, FALSE) /\ {path} \subseteq MountOf(work)
    BY <1>1, <2>1, DataDiskKeeps DEF HostInv
  <2>3. QED
    BY <2>2, KeepingMore
<1>5. CASE play \in Install(work[1], from)
  <2>1. play.host \in Keeping(host, {}, FALSE)
    BY <1>5, InstallKeeps
  <2>2. QED
    BY <2>1, KeepingMore
<1>6. CASE \E end : play \in Play(<<host>>, end)
  BY <1>2, <1>6, IdlePlay
<1>7. QED
  BY <1>3, <1>4, <1>5, <1>6, PlaysCases DEF StartGateway

\* No play turns swap off that is on.
LEMMA SwapStays ==
    ASSUME HostInv, host.swapOn, NEW work, NEW from, NEW play \in Plays(work, from)
    PROVE  play.host.swapOn
<1>1. CASE \E end : play \in Play(<<host>>, end)
  BY <1>1, IdlePlay
<1>2. CASE play \in Swap(machine, host)
  BY <1>1, <1>2 DEF Swap
<1>3. CASE \E path : play \in DataDisk(machine, host, path)
  BY <1>1, <1>3 DEF DataDisk
<1>4. CASE play \in Install(work[1], from)
  BY <1>4, InstallKeeps
<1>5. QED
  BY <1>1, <1>2, <1>3, <1>4, PlaysCases DEF StartGateway

\* A restart brings back what was mounted.
LEMMA RebootKeeps ==
    ASSUME NEW h \in HostState, Safe(h)
    PROVE  Rebooted(h) \in Keeping(h, {}, FALSE)
<1> DEFINE g == Rebooted(h)
<1>1. g \in HostState
  <2>1. MountPoints \cap h.fstab \in SUBSET MountPoints
        /\ ("swap" \in h.fstab) \in BOOLEAN
    OBVIOUS
  <2>2. QED
    BY <2>1 DEF Rebooted, HostState
<1>2. /\ g.mounts = MountPoints \cap h.fstab /\ g.swapOn = ("swap" \in h.fstab)
      /\ g.fstab = h.fstab /\ g.data = h.data
  BY DEF Rebooted, HostState
<1>3. g.mounts = h.mounts /\ (g.swapOn => h.swapOn)
  BY <1>2 DEF Safe
<1>4. Safe(g)
  <2> HIDE DEF g
  <2> QED
    BY <1>2, <1>3 DEF Safe
<1>5. g \in Keeping(h, {}, FALSE)
  <2>1. g.couchbase = h.couchbase /\ g.gateway = h.gateway
    BY DEF Rebooted, HostState
  <2> HIDE DEF g
  <2>2. QED
    BY <1>1, <1>2, <1>3, <1>4, <2>1 DEF Keeping
<1>6. QED
  BY <1>5

-----------------------------------------------------------------------------
\* A new host is safe.
LEMMA InitSafe == Init => HostInv
  BY DEF Init, HostInv, HostState, BareHost, Safe, MountPoints

\* No step makes the host unsafe or loses its data.
LEMMA StepKeeps ==
    ASSUME HostInv, [Next]_vars
    PROVE  host' \in Keeping(host, MountPoints, TRUE)
<1>1. host \in Keeping(host, MountPoints, TRUE)
  BY DEF HostInv, Keeping
<1>2. CASE Invoke
  BY <1>1, <1>2 DEF Invoke
<1>3. CASE GetUrl
  BY <1>1, <1>3 DEF GetUrl
<1>4. CASE RunPlaybook
  <2>1. PICK play \in Plays(todo[1], url) : host' = play.host
    BY <1>4 DEF RunPlaybook
  <2>2. MountOf(todo[1]) \subseteq MountPoints
    BY DEF MountOf, MountPoints
  <2>3. host' \in Keeping(host, MountOf(todo[1]),
                          todo[1][1] = "Swap" /\ MaySwap(machine))
    BY <2>1, PlaysKeep
  <2>4. QED
    BY <2>2, <2>3, KeepingMore
<1>5. CASE Finish
  BY <1>1, <1>5 DEF Finish
<1>6. CASE Break
  BY <1>1, <1>6 DEF Break
<1>7. CASE Reboot
  <2>1. host' \in Keeping(host, {}, FALSE)
    BY <1>7, RebootKeeps DEF Reboot, HostInv
  <2>2. QED
    BY <2>1, KeepingMore
<1>8. CASE UNCHANGED vars
  BY <1>1, <1>8 DEF vars
<1>9. QED
  BY <1>2, <1>3, <1>4, <1>5, <1>6, <1>7, <1>8 DEF Next

\* Mounts, fstab and swap agree in every state that bundlemgr reaches.
THEOREM HostIsSafe == Spec => []HostInv
<1>1. HostInv /\ [Next]_vars => HostInv'
  BY StepKeeps DEF HostInv, Keeping, Safe
<1>2. QED
  BY InitSafe, <1>1, PTL DEF Spec

\* A disk with data is never made into swap: not by Swap after a data bundle,
\* not by a rerun, not after a restart, on any host and operating system.
THEOREM DataIsKept == Spec => DataKept
<1>1. HostInv /\ [Next]_vars => [host.data => host'.data]_vars
  BY StepKeeps DEF Keeping
<1>2. QED
  BY HostIsSafe, <1>1, PTL DEF Spec, DataKept

-----------------------------------------------------------------------------
(* How plays end.                                                          *)

\* Only a play that runs to its end leaves the host after the last task.
LEMMA PlayEnds ==
    ASSUME NEW after, NEW end, NEW play \in Play(after, end)
    PROVE  /\ play.end = end \/ play.end = "fault"
           /\ end # "fault" /\ play.end = end => play.host = after[Len(after)]
<1>1. CASE play = [host |-> after[Len(after)], end |-> end]
  BY <1>1
<1>2. CASE \E i \in {1} \cup 1..Len(after) - 1 :
              play = [host |-> after[i], end |-> "fault"]
  BY <1>2
<1>3. QED
  BY <1>1, <1>2 DEF Play

\* configure_swap.yaml ends well with swap.
LEMMA SwapEnds ==
    ASSUME NEW m, NEW h \in HostState, NEW play \in Swap(m, h), play.end = "ok"
    PROVE  m.container \/ m.ownSwap \/ play.host.swapOn
<1> DEFINE made  == [h EXCEPT !.data = FALSE]
           on    == [made EXCEPT !.swapOn = TRUE]
           kept  == [on EXCEPT !.fstab = @ \cup {"swap"}]
           after == <<h, made, on, kept>>
<1>1. CASE m.container \/ m.ownSwap
  BY <1>1
<1>2. CASE ~(m.container \/ m.ownSwap) /\ h.swapOn
  <2>1. play \in Play(<<h>>, "ok")
    BY <1>2 DEF Swap
  <2>2. QED
    BY <1>2, <2>1, IdlePlay
<1>3. CASE ~(m.container \/ m.ownSwap \/ h.swapOn)
  <2>1. \/ play \in Play(<<h>>, "failed")
        \/ play \in Play(after, "ok")
    BY <1>3 DEF Swap
  <2>2. kept.swapOn
    BY DEF HostState
  <2>3. Len(after) = 4 /\ after[4] = kept
    <3> HIDE DEF made, on, kept
    <3> QED
      OBVIOUS
  <2> HIDE DEF kept, after
  <2>4. play.host = after[Len(after)]
    BY <2>1, PlayEnds
  <2>5. QED
    BY <2>2, <2>3, <2>4
<1>4. QED
  BY <1>1, <1>2, <1>3

\* The playbooks of the data disk end well with the mount in place.
LEMMA DataDiskEnds ==
    ASSUME NEW m, NEW h \in HostState, NEW path, NEW play \in DataDisk(m, h, path),
           play.end = "ok", ~m.container
    PROVE  path \in play.host.mounts
<1> DEFINE cut     == [h EXCEPT !.partition = TRUE]
           made    == [cut EXCEPT !.filesystem = TRUE]
           mounted == Mounted(made, path)
           tasks   == <<h, cut, made, mounted>>
           owned   == [mounted EXCEPT !.owned = TRUE]
           all     == Append(tasks, owned)
<1>1. CASE path \in h.mounts
  <2>1. play \in Play(<<h>>, "ok")
    BY <1>1 DEF DataDisk
  <2>2. QED
    BY <1>1, <2>1, IdlePlay
<1>2. CASE path \notin h.mounts
  <2>1. path \in mounted.mounts /\ path \in owned.mounts
    BY DEF Mounted, HostState
  <2>2. play \in Play(<<h>>, "failed") \/ play \in MakeDataDisk(h, path)
    BY <1>2 DEF DataDisk
  <2>3. Len(tasks) = 4 /\ tasks[4] = mounted
    <3> HIDE DEF cut, made, mounted
    <3> QED
      OBVIOUS
  <2>4. Len(all) = 5 /\ all[5] = owned
    <3> HIDE DEF cut, made, mounted, owned
    <3> QED
      OBVIOUS
  <2>5. \/ play \in Play(<<h>>, "failed") \/ play \in Play(tasks, "failed")
        \/ play \in Play(tasks, "ok") \/ play \in Play(all, "ok")
    <3>1. \/ play \in Play(<<h>>, "failed") \/ play \in Play(tasks, "failed")
          \/ play \in Play(tasks, "ok")
          \/ play \in Play(Append(tasks, [tasks[4] EXCEPT !.owned = TRUE]), "ok")
      BY <2>2 DEF MakeDataDisk
    <3>2. [tasks[4] EXCEPT !.owned = TRUE] = owned
      BY <2>3
    <3> HIDE DEF tasks, owned
    <3>3. QED
      BY <3>1, <3>2
  <2> HIDE DEF tasks, owned, mounted, all
  <2>6. play.host = tasks[Len(tasks)] \/ play.host = all[Len(all)]
    BY <2>5, PlayEnds
  <2>7. QED
    BY <2>1, <2>3, <2>4, <2>6
<1>3. QED
  BY <1>1, <1>2

\* With a download the package is installed.
LEMMA InstallEnds ==
    ASSUME host \in HostState, NEW b, NEW from, NEW play \in Install(b, from),
           from # "missing", machine.builds, play.end = "ok"
    PROVE  /\ b = "CBS" => play.host.couchbase
           /\ b = "InstallSGW" => play.host.gateway
<1> DEFINE installed == [host EXCEPT !.couchbase = @ \/ b = "CBS",
                                     !.gateway = @ \/ b = "InstallSGW"]
           after     == <<host, installed, installed>>
<1>1. play \in Play(after, "ok")
  BY DEF Install
<1>2. Len(after) = 3 /\ after[3] = installed
  <2> HIDE DEF installed
  <2> QED
    OBVIOUS
<1>3. (b = "CBS" => installed.couchbase) /\ (b = "InstallSGW" => installed.gateway)
  BY DEF HostState
<1> HIDE DEF after, installed
<1>4. play.host = after[Len(after)]
  BY <1>1, PlayEnds
<1>5. QED
  BY <1>2, <1>3, <1>4

\* A play that succeeds has mounted what it should, on a host that is not a
\* container.
LEMMA PlaysSucceed ==
    ASSUME HostInv, NEW work \in Work, NEW from, NEW play \in Plays(work, from),
           play.end = "ok", ~machine.container
    PROVE  MountOf(work) \subseteq play.host.mounts
<1>1. CASE MountOf(work) = {}
  BY <1>1
<1>2. CASE MountOf(work) # {}
  <2>1. work[1] # "Swap" /\ \A path \in MountOf(work) : MountOf(work) = {path}
    BY <1>2 DEF MountOf
  <2>2. work[1] \notin StartsGateway
    BY <1>2 DEF MountOf, StartsGateway
  <2>3. \/ play \in Play(<<host>>, "failed")
        \/ \E path \in MountOf(work) : play \in DataDisk(machine, host, path)
    BY <1>2, <2>1, <2>2, PlaysCases
  <2>4. PICK path \in MountOf(work) : play \in DataDisk(machine, host, path)
    BY <2>3, PlayEnds
  <2>5. path \in play.host.mounts
    BY <2>4, DataDiskEnds DEF HostInv
  <2>6. QED
    BY <2>1, <2>5
<1>3. QED
  BY <1>1, <1>2

-----------------------------------------------------------------------------
(* The plan of a run and how far it has got.                               *)

PlanOf(named) == PlaybooksOf(InstallList(named))
Plan == PlanOf(asked)

\* A command line is a sequence of bundles.
LEMMA AskedAreBundles ==
    /\ BoundedSeq(Askable, MaxNamed) \subseteq Seq(Askable)
    /\ Seq(Askable) \subseteq Seq(Bundles)
<1>1. MaxNamed \in Nat
  BY BoundsAssumption
<1>2. BoundedSeq(Askable, MaxNamed) = UNION {[1..m -> Askable] : m \in 0..MaxNamed}
  BY DEF BoundedSeq, SeqOf
<1>3. \A m \in 0..MaxNamed : [1..m -> Askable] \subseteq Seq(Askable)
  BY <1>1
<1>4. ASSUME NEW s \in Seq(Askable) PROVE s \in Seq(Bundles)
  BY AskableAssumption
<1>5. QED
  BY <1>2, <1>3, <1>4

\* What the plan of any command line is like.
LEMMA PlanFacts ==
    ASSUME NEW named \in Seq(Askable)
    PROVE  /\ PlanOf(named) \in Seq(Work) /\ Len(PlanOf(named)) \in Nat
           /\ Distinct(PlanOf(named))
           /\ \A b \in ToSet(InstallList(named)) : \A j \in DOMAIN Playbooks(b) :
                Contains(PlanOf(named), <<b, Playbooks(b)[j]>>)
           /\ \A i \in 1..Len(PlanOf(named)) :
                /\ Contains(InstallList(named), PlanOf(named)[i][1])
                /\ \E j \in DOMAIN Playbooks(PlanOf(named)[i][1]) :
                     PlanOf(named)[i] =
                       <<PlanOf(named)[i][1], Playbooks(PlanOf(named)[i][1])[j]>>
                /\ \A c \in ToSet(Requires(PlanOf(named)[i][1])) :
                     \A j \in DOMAIN Playbooks(c) :
                       \E k \in 1..(i - 1) :
                         PlanOf(named)[k] = <<c, Playbooks(c)[j]>>
<1> DEFINE l == InstallList(named)
           w == PlanOf(named)
<1>1. l \in Seq(Bundles) /\ Distinct(l) /\ Closed(l)
  BY AskedAreBundles, InstallListFacts
<1>2. w = PlaybooksOf(l)
  BY DEF PlanOf
<1> HIDE DEF l, w
<1>3. /\ w \in Seq(Work) /\ Distinct(w)
      /\ \A m \in 1..Len(l) : \A j \in 1..Len(Playbooks(l[m])) :
           Contains(w, <<l[m], Playbooks(l[m])[j]>>)
      /\ \A i \in 1..Len(w) :
           /\ Contains(l, w[i][1])
           /\ \E j \in 1..Len(Playbooks(w[i][1])) :
                w[i] = <<w[i][1], Playbooks(w[i][1])[j]>>
           /\ \A c \in ToSet(Requires(w[i][1])) : \A j \in 1..Len(Playbooks(c)) :
                \E k \in 1..(i - 1) : w[k] = <<c, Playbooks(c)[j]>>
  BY <1>1, <1>2, PlaybooksFacts
<1>4. \A b \in Bundles : DOMAIN Playbooks(b) = 1..Len(Playbooks(b))
  BY StepsFacts
<1>5. ASSUME NEW b \in ToSet(l), NEW j \in DOMAIN Playbooks(b)
      PROVE  Contains(w, <<b, Playbooks(b)[j]>>)
  <2>1. PICK m \in 1..Len(l) : l[m] = b
    BY <1>1 DEF ToSet
  <2>2. b \in Bundles
    BY <1>1, <2>1
  <2>3. QED
    BY <1>3, <1>4, <2>1, <2>2
<1>6. ASSUME NEW i \in 1..Len(w), NEW c \in ToSet(Requires(w[i][1])),
             NEW j \in DOMAIN Playbooks(c)
      PROVE  \E k \in 1..(i - 1) : w[k] = <<c, Playbooks(c)[j]>>
  <2>1. w[i][1] \in Bundles
    BY <1>3 DEF Work
  <2>2. c \in Bundles
    BY <2>1, RequiresFacts
  <2>3. QED
    BY <1>3, <1>4, <2>2
<1>7. Len(w) \in Nat
  BY <1>3
<1>8. ASSUME NEW i \in 1..Len(w)
      PROVE  \E j \in DOMAIN Playbooks(w[i][1]) :
               w[i] = <<w[i][1], Playbooks(w[i][1])[j]>>
  <2>1. w[i][1] \in Bundles
    BY <1>3 DEF Work
  <2>2. QED
    BY <1>3, <1>4, <2>1
<1>9. QED
  BY <1>3, <1>5, <1>6, <1>7, <1>8 DEF l, w

\* What has been played is the start of the plan, and what is to do the rest.
Progress ==
    /\ Len(played) <= Len(Plan)
    /\ \A i \in 1..Len(played) : played[i] = Plan[i]
    /\ status = "running" =>
         /\ Len(todo) = Len(Plan) - Len(played)
         /\ \A i \in 1..Len(todo) : todo[i] = Plan[Len(played) + i]
    /\ status = "successful" => Len(played) = Len(Plan)

\* A run is turned down only where something it would install is not offered.
TurnedDown ==
    status = "not_found" => ~(ToSet(InstallList(asked)) \subseteq Offered(os))

\* The mounts made in a run are there until it ends, and after it succeeds.
MountsMade ==
    status \in {"running", "successful"} /\ ~machine.container =>
      \A i \in 1..Len(played) : MountOf(played[i]) \subseteq host.mounts

\* No download is taken for missing where there is one.
UrlKnown == url = "missing" => ~machine.builds

\* What a playbook needs to find, to succeed once more on host h.
Settled(work, h) ==
    /\ HasPlaybook(os, work)
    /\ work[1] = "Swap" => \/ machine.container \/ machine.ownSwap
                           \/ HasDevice(machine, 2) /\ h.mounts = {}
    /\ machine.builds /\ work[1] = "CBS" /\ MountOf(work) = {} => h.couchbase
    /\ machine.builds /\ work[1] = "InstallSGW" => h.gateway
    /\ work[1] \in StartsGateway => machine.container \/ h.gateway

\* It finds it from its end on: swap keeps the disk free of mounts within the
\* run, and after the run nothing mounts it but a restart.
AllSettled ==
    /\ host.swapOn => HasDevice(machine, 2)
    /\ status \in {"running", "successful"} =>
         \A i \in 1..Len(played) : Settled(played[i], host)
    /\ status = "running" =>
         \A i \in 1..Len(played) : played[i][1] = "Swap" =>
           machine.container \/ machine.ownSwap \/ host.swapOn

RunInv == TypeOK /\ HostInv /\ Progress /\ TurnedDown /\ MountsMade
            /\ UrlKnown /\ AllSettled

-----------------------------------------------------------------------------
\* Every step keeps the types.
LEMMA TypesKept ==
    ASSUME TypeOK, HostInv, [Next]_vars
    PROVE  TypeOK'
<1>1. host' \in HostState
  BY StepKeeps DEF Keeping
<1>2. MaxRuns \in Nat /\ MaxFaults \in Nat
  BY BoundsAssumption
<1>3. faults \in 0..MaxFaults /\ (Fault => faults' \in 0..MaxFaults)
  BY <1>2 DEF TypeOK, Fault
<1>4. CASE Invoke
  <2>1. PICK named \in BoundedSeq(Askable, MaxNamed) :
          /\ asked' = named
          /\ \/ status' = "running" /\ todo' = PlanOf(named)
             \/ status' = "not_found" /\ todo' = <<>>
    BY <1>4 DEF Invoke, PlanOf
  <2>2. asked' \in Seq(Askable)
    BY <2>1, AskedAreBundles
  <2>3. todo' \in Seq(Work)
    <3>1. PlanOf(named) \in Seq(Work)
      BY <2>1, <2>2, PlanFacts
    <3>2. <<>> \in Seq(Work)
      OBVIOUS
    <3>3. QED
      BY <2>1, <3>1, <3>2
  <2>4. runs' \in 0..MaxRuns
    BY <1>2, <1>4 DEF Invoke, TypeOK
  <2>5. /\ os' = os /\ machine' = machine /\ faults' = faults /\ url' = "none"
        /\ played' = <<>>
    BY <1>4 DEF Invoke
  <2>6. QED
    BY <1>1, <2>1, <2>2, <2>3, <2>4, <2>5 DEF TypeOK
<1>5. CASE GetUrl
  <2>1. /\ os' = os /\ machine' = machine /\ asked' = asked /\ played' = played
        /\ runs' = runs
        /\ \/ url' = Download(todo[1][1]) /\ UNCHANGED <<todo, status, faults>>
           \/ Fault /\ Stop("error")
    BY <1>5 DEF GetUrl
  <2>2. CASE url' = Download(todo[1][1]) /\ UNCHANGED <<todo, status, faults>>
    <3>1. url' \in {"found", "missing"}
      BY <2>2 DEF Download
    <3>2. QED
      BY <1>1, <2>1, <2>2, <3>1 DEF TypeOK
  <2>3. CASE Fault /\ Stop("error")
    BY <1>1, <1>3, <2>1, <2>3 DEF TypeOK, Stop
  <2>4. QED
    BY <2>1, <2>2, <2>3
<1>6. CASE RunPlaybook
  <2>1. /\ os' = os /\ machine' = machine /\ asked' = asked /\ runs' = runs
        /\ todo # <<>>
        /\ \/ /\ played' = Append(played, todo[1]) /\ todo' = Tail(todo)
              /\ url' = "none" /\ UNCHANGED <<status, faults>>
           \/ Stop("failed") /\ (Fault \/ UNCHANGED faults) /\ UNCHANGED played
    BY <1>6 DEF RunPlaybook, Running
  <2>2. CASE /\ played' = Append(played, todo[1]) /\ todo' = Tail(todo)
             /\ url' = "none" /\ UNCHANGED <<status, faults>>
    <3>1. todo[1] \in Work /\ Tail(todo) \in Seq(Work)
      BY <2>1 DEF TypeOK
    <3>2. Append(played, todo[1]) \in Seq(Work)
      BY <3>1 DEF TypeOK
    <3>3. QED
      BY <1>1, <2>1, <2>2, <3>1, <3>2 DEF TypeOK
  <2>3. CASE Stop("failed") /\ (Fault \/ UNCHANGED faults) /\ UNCHANGED played
    BY <1>1, <1>3, <2>1, <2>3 DEF TypeOK, Stop
  <2>4. QED
    BY <2>1, <2>2, <2>3
<1>7. CASE Finish
  BY <1>1, <1>7 DEF Finish, Stop, TypeOK
<1>8. CASE Break
  BY <1>1, <1>3, <1>8 DEF Break, Stop, TypeOK
<1>9. CASE Reboot
  BY <1>1, <1>9 DEF Reboot, TypeOK
<1>10. CASE UNCHANGED vars
  BY <1>10 DEF vars, TypeOK
<1>11. QED
  BY <1>4, <1>5, <1>6, <1>7, <1>8, <1>9, <1>10 DEF Next

\* The first playbook still to run is the next one of the plan.
LEMMA NextOfPlan ==
    ASSUME TypeOK, Progress, Running
    PROVE  /\ Len(todo) \in Nat /\ Len(todo) >= 1 /\ todo[1] \in Work
           /\ Len(played) \in Nat
           /\ Len(played) + 1 \in 1..Len(Plan)
           /\ todo[1] = Plan[Len(played) + 1]
<1>1. Plan \in Seq(Work) /\ Len(Plan) \in Nat
  BY PlanFacts DEF Plan, TypeOK
<1>2. todo \in Seq(Work) /\ todo # <<>> /\ played \in Seq(Work)
      /\ status = "running"
  BY DEF TypeOK, Running
<1>3. Len(todo) \in Nat /\ Len(todo) >= 1 /\ todo[1] \in Work /\ Len(played) \in Nat
  BY <1>2
<1>4. /\ Len(todo) = Len(Plan) - Len(played)
      /\ \A i \in 1..Len(todo) : todo[i] = Plan[Len(played) + i]
  BY <1>2 DEF Progress
<1>5. 1 \in 1..Len(todo)
  BY <1>3
<1>6. QED
  BY <1>1, <1>3, <1>4, <1>5

\* Every step keeps to the plan.
LEMMA ProgressKept ==
    ASSUME TypeOK, Progress, [Next]_vars
    PROVE  Progress'
<1>1. CASE Invoke
  <2>1. PICK named \in BoundedSeq(Askable, MaxNamed) :
          /\ asked' = named
          /\ \/ status' = "running" /\ todo' = PlanOf(named)
             \/ status' = "not_found"
    BY <1>1 DEF Invoke, PlanOf
  <2>2. named \in Seq(Askable)
    BY AskedAreBundles
  <2>3. PlanOf(named) \in Seq(Work) /\ Len(PlanOf(named)) \in Nat
    BY <2>2, PlanFacts
  <2>4. played' = <<>> /\ Len(<<>>) = 0 /\ 1..0 = {}
    BY <1>1 DEF Invoke
  <2>5. Plan' = PlanOf(named)
    BY <2>1 DEF Plan, PlanOf
  <2>6. \A i \in 1..Len(PlanOf(named)) : PlanOf(named)[i] = PlanOf(named)[0 + i]
    BY <2>3
  <2>7. QED
    BY <2>1, <2>3, <2>4, <2>5, <2>6 DEF Progress
<1>2. CASE GetUrl
  <2>1. Plan' = Plan /\ played' = played
        /\ (UNCHANGED <<status, todo>> \/ status' = "error")
    BY <1>2 DEF GetUrl, Stop, Plan
  <2>2. QED
    BY <2>1 DEF Progress
<1>3. CASE RunPlaybook
  <2>1. Plan' = Plan /\ Running
    BY <1>3 DEF RunPlaybook, Plan
  <2>2. \/ /\ played' = Append(played, todo[1]) /\ todo' = Tail(todo)
           /\ status' = status
        \/ status' = "failed" /\ played' = played
    BY <1>3 DEF RunPlaybook, Stop
  <2>3. CASE /\ played' = Append(played, todo[1]) /\ todo' = Tail(todo)
             /\ status' = status
    <3> DEFINE n == Len(played)
    <3>1. /\ Len(todo) \in Nat /\ Len(todo) >= 1 /\ todo[1] \in Work /\ n \in Nat
          /\ n + 1 \in 1..Len(Plan) /\ todo[1] = Plan[n + 1]
      BY <2>1, NextOfPlan
    <3>2. played \in Seq(Work) /\ todo \in Seq(Work) /\ todo # <<>>
          /\ status = "running"
      BY <2>1 DEF TypeOK, Running
    <3>3. /\ Len(played') = n + 1 /\ played'[n + 1] = todo[1]
          /\ \A i \in 1..n : played'[i] = played[i]
      BY <2>3, <3>1, <3>2, AppendProperties
    <3>4. /\ Len(todo') = Len(todo) - 1
          /\ \A i \in 1..Len(todo') : todo'[i] = todo[i + 1]
      BY <2>3, <3>2, HeadTailProperties
    <3>5. /\ \A i \in 1..n : played[i] = Plan[i]
          /\ Len(todo) = Len(Plan) - n
          /\ \A i \in 1..Len(todo) : todo[i] = Plan[n + i]
      BY <3>2 DEF Progress
    <3>6. Len(Plan) \in Nat
      BY PlanFacts DEF TypeOK, Plan
    <3> HIDE DEF n
    <3>7. ASSUME NEW i \in 1..Len(played') PROVE played'[i] = Plan[i]
      <4>1. i \in 1..n \/ i = n + 1
        BY <3>1, <3>3
      <4>2. QED
        BY <3>1, <3>3, <3>5, <4>1
    <3>8. ASSUME NEW i \in 1..Len(todo') PROVE todo'[i] = Plan[Len(played') + i]
      <4>1. i + 1 \in 1..Len(todo) /\ Len(played') + i = n + (i + 1)
        BY <3>1, <3>3, <3>4
      <4>2. todo'[i] = Plan[n + (i + 1)]
        BY <3>4, <3>5, <4>1
      <4>3. QED
        BY <4>1, <4>2
    <3>9. Len(played') <= Len(Plan) /\ Len(todo') = Len(Plan) - Len(played')
      BY <3>1, <3>3, <3>4, <3>5, <3>6
    <3>10. status' # "successful"
      BY <2>3, <3>2
    <3>11. QED
      BY <2>1, <3>7, <3>8, <3>9, <3>10 DEF Progress
  <2>4. CASE status' = "failed" /\ played' = played
    BY <2>1, <2>4 DEF Progress
  <2>5. QED
    BY <2>2, <2>3, <2>4
<1>4. CASE Finish
  <2>1. /\ Plan' = Plan /\ played' = played /\ status' = "successful"
        /\ status = "running" /\ todo = <<>>
    BY <1>4 DEF Finish, Stop, Plan
  <2>2. Len(todo) = 0 /\ Len(Plan) \in Nat /\ Len(played) \in Nat
    BY <2>1, PlanFacts DEF TypeOK, Plan
  <2>3. Len(played) = Len(Plan)
    BY <2>1, <2>2 DEF Progress
  <2>4. QED
    BY <2>1, <2>3 DEF Progress
<1>5. CASE Break
  <2>1. Plan' = Plan /\ played' = played /\ status' = "broken"
    BY <1>5 DEF Break, Stop, Plan
  <2>2. QED
    BY <2>1 DEF Progress
<1>6. CASE Reboot
  <2>1. Plan' = Plan /\ played' = played /\ status' = status /\ todo' = todo
    BY <1>6 DEF Reboot, Plan
  <2>2. QED
    BY <2>1 DEF Progress
<1>7. CASE UNCHANGED vars
  <2>1. Plan' = Plan /\ played' = played /\ status' = status /\ todo' = todo
    BY <1>7 DEF vars, Plan
  <2>2. QED
    BY <2>1 DEF Progress
<1>8. QED
  BY <1>1, <1>2, <1>3, <1>4, <1>5, <1>6, <1>7 DEF Next

\* Only a lookup that fails turns a run down.
LEMMA TurnedDownKept ==
    ASSUME TurnedDown, [Next]_vars
    PROVE  TurnedDown'
<1>1. CASE Invoke
  BY <1>1 DEF Invoke, TurnedDown
<1>2. CASE GetUrl
  BY <1>2 DEF GetUrl, Stop, TurnedDown
<1>3. CASE RunPlaybook
  <2>1. status' = status \/ status' = "failed"
    BY <1>3 DEF RunPlaybook, Stop
  <2>2. asked' = asked /\ os' = os
    BY <1>3 DEF RunPlaybook
  <2>3. QED
    BY <2>1, <2>2 DEF TurnedDown
<1>4. CASE Finish
  BY <1>4 DEF Finish, Stop, TurnedDown
<1>5. CASE Break
  BY <1>5 DEF Break, Stop, TurnedDown
<1>6. CASE Reboot
  BY <1>6 DEF Reboot, TurnedDown
<1>7. CASE UNCHANGED vars
  BY <1>7 DEF vars, TurnedDown
<1>8. QED
  BY <1>1, <1>2, <1>3, <1>4, <1>5, <1>6, <1>7 DEF Next

\* A play keeps the mounts of those before it and adds its own.
LEMMA MountsMadeKept ==
    ASSUME TypeOK, HostInv, MountsMade, [Next]_vars
    PROVE  MountsMade'
<1>1. host.mounts \subseteq host'.mounts
  BY StepKeeps DEF Keeping
<1>2. CASE Invoke
  <2>1. played' = <<>> /\ Len(<<>>) = 0 /\ 1..0 = {}
    BY <1>2 DEF Invoke
  <2>2. QED
    BY <2>1 DEF MountsMade
<1>3. ASSUME machine' = machine, played' = played,
             status' \in {"running", "successful"} =>
               status \in {"running", "successful"}
      PROVE  MountsMade'
  BY <1>1, <1>3 DEF MountsMade
<1>4. CASE GetUrl
  BY <1>3, <1>4 DEF GetUrl, Stop
<1>5. CASE RunPlaybook
  <2>1. PICK play \in Plays(todo[1], url) :
          /\ host' = play.host
          /\ \/ /\ play.end = "ok" /\ played' = Append(played, todo[1])
                /\ status' = status
             \/ status' = "failed" /\ played' = played
    BY <1>5 DEF RunPlaybook, Stop
  <2>2. machine' = machine /\ Running
    BY <1>5 DEF RunPlaybook
  <2>3. CASE /\ play.end = "ok" /\ played' = Append(played, todo[1])
             /\ status' = status
    <3>1. todo[1] \in Work /\ played \in Seq(Work) /\ status = "running"
      BY <2>2 DEF TypeOK, Running
    <3>2. ~machine.container => MountOf(todo[1]) \subseteq host'.mounts
      BY <2>1, <2>3, <3>1, PlaysSucceed
    <3>3. /\ Len(played) \in Nat /\ Len(played') = Len(played) + 1
          /\ played'[Len(played) + 1] = todo[1]
          /\ \A i \in 1..Len(played) : played'[i] = played[i]
      BY <2>3, <3>1, AppendProperties
    <3>4. ~machine.container =>
            \A i \in 1..Len(played) : MountOf(played[i]) \subseteq host'.mounts
      BY <1>1, <3>1 DEF MountsMade
    <3>5. \A i \in 1..Len(played') : i \in 1..Len(played) \/ i = Len(played) + 1
      BY <3>3
    <3>6. ~machine.container =>
            \A i \in 1..Len(played') : MountOf(played'[i]) \subseteq host'.mounts
      BY <3>2, <3>3, <3>4, <3>5
    <3>7. QED
      BY <2>2, <3>6 DEF MountsMade
  <2>4. CASE status' = "failed" /\ played' = played
    BY <2>4 DEF MountsMade
  <2>5. QED
    BY <2>1, <2>3, <2>4
<1>6. CASE Finish
  BY <1>3, <1>6 DEF Finish, Stop
<1>7. CASE Break
  BY <1>3, <1>7 DEF Break, Stop
<1>8. CASE Reboot
  BY <1>3, <1>8 DEF Reboot
<1>9. CASE UNCHANGED vars
  BY <1>3, <1>9 DEF vars
<1>10. QED
  BY <1>2, <1>4, <1>5, <1>6, <1>7, <1>8, <1>9 DEF Next

\* A download is missing only where there are no builds.
LEMMA UrlKnownKept ==
    ASSUME UrlKnown, [Next]_vars
    PROVE  UrlKnown'
<1>1. CASE Invoke
  BY <1>1 DEF Invoke, UrlKnown
<1>2. CASE GetUrl
  BY <1>2 DEF GetUrl, Download, Stop, UrlKnown
<1>3. CASE RunPlaybook
  <2>1. url' = "none"
    BY <1>3 DEF RunPlaybook, Stop
  <2>2. QED
    BY <2>1 DEF UrlKnown
<1>4. CASE Finish
  BY <1>4 DEF Finish, Stop, UrlKnown
<1>5. CASE Break
  BY <1>5 DEF Break, Stop, UrlKnown
<1>6. CASE Reboot \/ UNCHANGED vars
  BY <1>6 DEF Reboot, vars, UrlKnown
<1>7. QED
  BY <1>1, <1>2, <1>3, <1>4, <1>5, <1>6 DEF Next

\* What keeps the disk free keeps a playbook settled.
LEMMA SettledStays ==
    ASSUME NEW work, NEW h, Settled(work, h), NEW paths, NEW swap,
           NEW g \in Keeping(h, paths, swap),
           work[1] = "Swap" => machine.container \/ machine.ownSwap \/ g.mounts = {}
    PROVE  Settled(work, g)
  BY DEF Settled, Keeping

\* A playbook that succeeds is settled.
LEMMA PlaysSettle ==
    ASSUME HostInv, UrlKnown, host.swapOn => HasDevice(machine, 2),
           NEW work \in Work, work[1] \in NeedsUrl => url # "none",
           NEW play \in Plays(work, url), play.end = "ok"
    PROVE  /\ Settled(work, play.host)
           /\ work[1] = "Swap" =>
                machine.container \/ machine.ownSwap \/ play.host.swapOn
<1>1. play.host \in Keeping(host, MountOf(work),
                            work[1] = "Swap" /\ MaySwap(machine))
  BY PlaysKeep
<1>2. host \in HostState
  BY DEF HostInv
<1>3. play \notin Play(<<host>>, "failed")
  BY PlayEnds
<1>4. HasPlaybook(os, work)
  BY <1>3, PlaysCases
<1>5. CASE work[1] = "Swap"
  <2>1. play \in Swap(machine, host)
    BY <1>4, <1>5 DEF Plays
  <2>2. machine.container \/ machine.ownSwap \/ play.host.swapOn
    BY <1>2, <2>1, SwapEnds
  <2>3. play.host.swapOn => HasDevice(machine, 2) /\ play.host.mounts = {}
    BY <1>1 DEF Keeping, Safe, MaySwap
  <2>4. QED
    BY <1>4, <1>5, <2>2, <2>3 DEF Settled, StartsGateway
<1>6. CASE work[1] \in StartsGateway
  <2>1. play \in StartGateway
    BY <1>4, <1>6 DEF Plays, StartsGateway, MountOf, NeedsUrl
  <2>2. play.host = host
    BY <2>1, IdlePlay DEF StartGateway
  <2>3. machine.container \/ host.gateway
    BY <1>3, <2>1 DEF StartGateway
  <2>4. QED
    BY <1>4, <1>6, <2>2, <2>3 DEF Settled, StartsGateway
<1>7. CASE work[1] \in NeedsUrl /\ MountOf(work) = {}
  <2>1. play \in Install(work[1], url)
    BY <1>4, <1>7 DEF Plays, NeedsUrl
  <2>2. machine.builds => url # "missing"
    BY DEF UrlKnown
  <2>3. machine.builds => /\ work[1] = "CBS" => play.host.couchbase
                          /\ work[1] = "InstallSGW" => play.host.gateway
    BY <1>2, <2>1, <2>2, InstallEnds
  <2>4. QED
    BY <1>4, <1>7, <2>3 DEF Settled, StartsGateway, NeedsUrl
<1>8. CASE MountOf(work) # {} /\ work[1] # "Swap" /\ work[1] \notin StartsGateway
  <2>1. work[1] # "InstallSGW"
    BY <1>8 DEF MountOf
  <2>2. QED
    BY <1>4, <1>8, <2>1 DEF Settled
<1>9. CASE /\ MountOf(work) = {} /\ work[1] # "Swap"
           /\ work[1] \notin NeedsUrl /\ work[1] \notin StartsGateway
  BY <1>4, <1>9 DEF Settled, NeedsUrl
<1>10. QED
  BY <1>5, <1>6, <1>7, <1>8, <1>9

\* Every step keeps the playbooks settled that have been played.
LEMMA AllSettledKept ==
    ASSUME TypeOK, HostInv, HostInv', UrlKnown, AllSettled, [Next]_vars
    PROVE  AllSettled'
<1>1. os' = os /\ machine' = machine
  BY DEF Next, Invoke, GetUrl, RunPlaybook, Finish, Break, Reboot, vars
<1>2. CASE Invoke
  <2>1. played' = <<>> /\ host' = host /\ Len(<<>>) = 0 /\ 1..0 = {}
    BY <1>2 DEF Invoke
  <2>2. QED
    BY <1>1, <2>1 DEF AllSettled
<1>3. ASSUME UNCHANGED <<host, played>>,
             status' \in {"running", "successful"} =>
               status \in {"running", "successful"},
             status' = "running" => status = "running"
      PROVE  AllSettled'
  BY <1>1, <1>3 DEF AllSettled, Settled
<1>4. CASE GetUrl
  BY <1>3, <1>4 DEF GetUrl, Stop
<1>5. CASE RunPlaybook
  <2>1. PICK play \in Plays(todo[1], url) :
          /\ host' = play.host
          /\ \/ /\ play.end = "ok" /\ played' = Append(played, todo[1])
                /\ status' = status
             \/ status' = "failed" /\ played' = played
    BY <1>5 DEF RunPlaybook, Stop
  <2>2. /\ status = "running" /\ todo # <<>>
        /\ todo[1][1] \in NeedsUrl => url # "none"
    BY <1>5 DEF RunPlaybook, Running
  <2>3. host' \in Keeping(host, MountOf(todo[1]),
                          todo[1][1] = "Swap" /\ MaySwap(machine))
    BY <2>1, PlaysKeep
  <2>4. host'.swapOn => HasDevice(machine', 2)
    BY <1>1, <2>3 DEF Keeping, MaySwap, AllSettled
  <2>5. CASE status' = "failed"
    BY <2>4, <2>5 DEF AllSettled
  <2>6. CASE /\ play.end = "ok" /\ played' = Append(played, todo[1])
             /\ status' = status
    <3>1. todo[1] \in Work /\ played \in Seq(Work)
      BY <2>2 DEF TypeOK
    <3>2. /\ Settled(todo[1], host')
          /\ todo[1][1] = "Swap" =>
               machine.container \/ machine.ownSwap \/ host'.swapOn
      BY <2>1, <2>2, <2>6, <3>1, PlaysSettle DEF AllSettled
    <3>3. ASSUME NEW i \in 1..Len(played)
          PROVE  /\ Settled(played[i], host')
                 /\ played[i][1] = "Swap" =>
                      machine.container \/ machine.ownSwap \/ host'.swapOn
      <4>1. /\ Settled(played[i], host)
            /\ played[i][1] = "Swap" =>
                 machine.container \/ machine.ownSwap \/ host.swapOn
        BY <2>2, <3>3 DEF AllSettled
      <4>2. host.swapOn => host'.swapOn
        BY <2>1, SwapStays
      <4>3. host'.swapOn => host'.mounts = {}
        BY DEF HostInv, Safe
      <4>4. QED
        BY <2>3, <4>1, <4>2, <4>3, SettledStays
    <3>4. /\ Len(played) \in Nat /\ Len(played') = Len(played) + 1
          /\ played'[Len(played) + 1] = todo[1]
          /\ \A i \in 1..Len(played) : played'[i] = played[i]
      BY <2>6, <3>1, AppendProperties
    <3>5. \A i \in 1..Len(played') : i \in 1..Len(played) \/ i = Len(played) + 1
      BY <3>4
    <3>6. \A i \in 1..Len(played') :
            /\ Settled(played'[i], host')
            /\ played'[i][1] = "Swap" =>
                 machine.container \/ machine.ownSwap \/ host'.swapOn
      BY <3>2, <3>3, <3>4, <3>5
    <3>7. QED
      BY <1>1, <2>4, <3>6 DEF AllSettled, Settled
  <2>7. QED
    BY <2>1, <2>5, <2>6
<1>6. CASE Finish
  BY <1>3, <1>6 DEF Finish, Stop
<1>7. CASE Break
  BY <1>3, <1>7 DEF Break, Stop
<1>8. CASE Reboot
  <2>1. /\ status # "running" /\ UNCHANGED <<played, status>>
        /\ host' = Rebooted(host)
    BY <1>8 DEF Reboot
  <2>2. host' \in Keeping(host, {}, FALSE)
    BY <2>1, RebootKeeps DEF HostInv
  <2>3. host'.mounts = host.mounts /\ (host'.swapOn => host.swapOn)
    BY <2>2 DEF Keeping
  <2>4. ASSUME status = "successful", NEW i \in 1..Len(played)
        PROVE  Settled(played[i], host')
    <3>1. Settled(played[i], host)
      BY <2>4 DEF AllSettled
    <3>2. played[i][1] = "Swap" =>
            machine.container \/ machine.ownSwap \/ host'.mounts = {}
      BY <2>3, <3>1 DEF Settled
    <3>3. QED
      BY <2>2, <3>1, <3>2, SettledStays
  <2>5. QED
    BY <1>1, <2>1, <2>3, <2>4 DEF AllSettled, Settled
<1>9. CASE UNCHANGED vars
  BY <1>3, <1>9 DEF vars
<1>10. QED
  BY <1>2, <1>4, <1>5, <1>6, <1>7, <1>8, <1>9 DEF Next

-----------------------------------------------------------------------------
(* Theorems.                                                               *)

\* The invariant holds at the start.
LEMMA InitRun == Init => RunInv
<1> SUFFICES ASSUME Init PROVE RunInv
  OBVIOUS
<1>1. HostInv
  BY InitSafe
<1>2. <<>> \in Seq(Askable) /\ <<>> \in Seq(Work) /\ Len(<<>>) = 0 /\ 1..0 = {}
  OBVIOUS
<1>3. 0 \in 0..MaxRuns /\ 0 \in 0..MaxFaults
  BY BoundsAssumption
<1>4. TypeOK
  BY <1>1, <1>2, <1>3 DEF Init, TypeOK, HostInv
<1>5. Len(Plan) \in Nat
  BY <1>4, PlanFacts DEF Plan, TypeOK
<1>6. Progress
  BY <1>2, <1>5 DEF Init, Progress
<1>7. TurnedDown /\ MountsMade
  BY DEF Init, TurnedDown, MountsMade
<1>8. UrlKnown /\ AllSettled
  BY DEF Init, BareHost, UrlKnown, AllSettled
<1>9. QED
  BY <1>1, <1>4, <1>6, <1>7, <1>8 DEF RunInv

\* Every step keeps the invariant.
LEMMA NextRun == RunInv /\ [Next]_vars => RunInv'
<1> SUFFICES ASSUME RunInv, [Next]_vars PROVE RunInv'
  OBVIOUS
<1>1. TypeOK /\ HostInv /\ Progress /\ TurnedDown /\ MountsMade /\ UrlKnown
        /\ AllSettled
  BY DEF RunInv
<1>2. HostInv'
  BY <1>1, StepKeeps DEF HostInv, Keeping, Safe
<1>3. TypeOK' /\ Progress' /\ TurnedDown'
  BY <1>1, TypesKept, ProgressKept, TurnedDownKept
<1>4. MountsMade' /\ UrlKnown' /\ AllSettled'
  BY <1>1, <1>2, MountsMadeKept, UrlKnownKept, AllSettledKept
<1>5. QED
  BY <1>2, <1>3, <1>4 DEF RunInv

\* In every state the playbooks played are the start of the plan that the
\* command line makes, and the rest is still to do.
THEOREM RunInvariance == Spec => []RunInv
  BY InitRun, NextRun, PTL DEF Spec

\* The types of the variables.
THEOREM TypeCorrect == Spec => []TypeOK
<1>1. RunInv => TypeOK
  BY DEF RunInv
<1>2. QED
  BY <1>1, RunInvariance, PTL

\* What has been played of the plan.
LEMMA Played ==
    ASSUME RunInv
    PROVE  /\ Len(played) \in Nat /\ DOMAIN played = 1..Len(played)
           /\ Plan \in Seq(Work) /\ Len(Plan) \in Nat
           /\ \A i \in 1..Len(played) : i \in 1..Len(Plan) /\ played[i] = Plan[i]
           /\ status = "successful" => Len(played) = Len(Plan)
<1>1. /\ played \in Seq(Work) /\ asked \in Seq(Askable)
      /\ Len(played) <= Len(Plan)
      /\ \A i \in 1..Len(played) : played[i] = Plan[i]
      /\ status = "successful" => Len(played) = Len(Plan)
  BY DEF RunInv, TypeOK, Progress
<1>2. Plan \in Seq(Work) /\ Len(Plan) \in Nat
  BY <1>1, PlanFacts DEF Plan
<1>3. QED
  BY <1>1, <1>2

\* A playbook runs after all those of every bundle its own requires, for any
\* command line, of any length.
THEOREM RequirementsGoFirst == Spec => []RequirementsFirst
<1>1. ASSUME RunInv PROVE RequirementsFirst
  <2> SUFFICES ASSUME NEW i \in 1..Len(played),
                      NEW b \in ToSet(Requires(played[i][1])),
                      NEW j \in DOMAIN Playbooks(b)
               PROVE  Contains(SubSeq(played, 1, i - 1), <<b, Playbooks(b)[j]>>)
    BY <1>1, Played DEF RequirementsFirst, Complete
  <2>1. i \in 1..Len(Plan) /\ played[i] = Plan[i] /\ Len(played) \in Nat
    BY <1>1, Played
  <2>2. asked \in Seq(Askable) /\ played \in Seq(Work)
    BY <1>1 DEF RunInv, TypeOK
  <2>3. PICK k \in 1..(i - 1) : Plan[k] = <<b, Playbooks(b)[j]>>
    <3>1. \A n \in 1..Len(Plan) : \A c \in ToSet(Requires(Plan[n][1])) :
            \A m \in DOMAIN Playbooks(c) :
              \E k \in 1..(n - 1) : Plan[k] = <<c, Playbooks(c)[m]>>
      BY <2>2, PlanFacts DEF Plan
    <3>2. QED
      BY <2>1, <3>1
  <2>4. k \in 1..Len(played)
    BY <2>1
  <2>5. played[k] = <<b, Playbooks(b)[j]>>
    BY <1>1, <2>3, <2>4, Played
  <2>6. /\ Len(SubSeq(played, 1, i - 1)) = i - 1
        /\ SubSeq(played, 1, i - 1)[k] = played[k]
    BY <2>1, <2>2, <2>4
  <2>7. QED
    BY <2>5, <2>6 DEF Contains
<1>2. QED
  BY <1>1, RunInvariance, PTL

\* "Run successful" means that every bundle to install is complete.
THEOREM SuccessIsComplete == Spec => []SuccessfulIsComplete
<1>1. ASSUME RunInv PROVE SuccessfulIsComplete
  <2> SUFFICES ASSUME status = "successful", NEW b \in ToSet(InstallList(asked)),
                      NEW j \in DOMAIN Playbooks(b)
               PROVE  Contains(played, <<b, Playbooks(b)[j]>>)
    BY DEF SuccessfulIsComplete, Complete
  <2>1. asked \in Seq(Askable)
    BY <1>1 DEF RunInv, TypeOK
  <2>2. Contains(Plan, <<b, Playbooks(b)[j]>>)
    BY <2>1, PlanFacts DEF Plan
  <2>3. QED
    BY <1>1, <2>2, Played DEF Contains
<1>2. QED
  BY <1>1, RunInvariance, PTL

\* No playbook succeeds twice in a run.
THEOREM EachOnce == Spec => []PlayedOnce
<1>1. ASSUME RunInv PROVE PlayedOnce
  <2>1. asked \in Seq(Askable)
    BY <1>1 DEF RunInv, TypeOK
  <2>2. Distinct(Plan)
    BY <2>1, PlanFacts DEF Plan
  <2>3. QED
    BY <1>1, <2>2, Played DEF Distinct, PlayedOnce
<1>2. QED
  BY <1>1, RunInvariance, PTL

\* A run is turned down only for a bundle that was named.
THEOREM OnlyNamedIsRefused == Spec => []OfferedInstallable
<1>1. ASSUME RunInv PROVE OfferedInstallable
  <2> SUFFICES ASSUME status = "not_found", ToSet(asked) \subseteq Offered(os)
               PROVE  FALSE
    BY DEF OfferedInstallable
  <2>1. /\ asked \in Seq(Askable) /\ os \in Oses
        /\ ~(ToSet(InstallList(asked)) \subseteq Offered(os))
    BY <1>1 DEF RunInv, TypeOK, TurnedDown
  <2>2. asked \in Seq(Bundles)
    BY <2>1, AskedAreBundles
  <2>3. InstallList(asked) \in Seq(Bundles)
    BY <2>2, InstallListFacts
  <2>4. PICK i \in 1..Len(InstallList(asked)) : InstallList(asked)[i] \notin Offered(os)
    BY <2>1, <2>3 DEF ToSet
  <2>5. PICK m \in 1..Len(asked) :
          InstallList(asked)[i] \in {asked[m]} \cup ToSet(Requires(asked[m]))
    BY <2>2, InstallListFacts
  <2>6. asked[m] \in Offered(os)
    BY <2>2 DEF ToSet
  <2>7. QED
    BY <2>1, <2>4, <2>5, <2>6, OfferedFacts
<1>2. QED
  BY <1>1, RunInvariance, PTL

\* "Run successful" means that disk 2 is mounted wherever it was promised,
\* whatever runs, breaks and restarts came before or come after.
THEOREM MountedOnSuccess == Spec => []SuccessIsMounted
<1>1. ASSUME RunInv PROVE SuccessIsMounted
  <2> SUFFICES ASSUME status = "successful", ~machine.container
               PROVE  Promised \subseteq host.mounts
    BY DEF SuccessIsMounted
  <2>1. \A i \in 1..Len(played) : MountOf(played[i]) \subseteq host.mounts
    BY <1>1 DEF RunInv, MountsMade
  <2>2. Promised = UNION {MountOf(work) : work \in ToSet(Plan)}
    BY DEF Promised, Plan, PlanOf
  <2>3. \A work \in ToSet(Plan) : \E i \in 1..Len(played) : played[i] = work
    BY <1>1, Played DEF ToSet
  <2>4. QED
    BY <2>1, <2>2, <2>3
<1>2. QED
  BY <1>1, RunInvariance, PTL

\* A settled playbook succeeds once more, and only Swap has something to do.
LEMMA SettledPlays ==
    ASSUME HostInv, NEW work \in Work, Settled(work, host),
           ~machine.container => MountOf(work) \subseteq host.mounts,
           NEW play \in Plays(work, Download(work[1]))
    PROVE  /\ play.end = "failed" => work[1] \in NeedsUrl /\ ~machine.builds
           /\ play.host # host => work[1] = "Swap" /\ ~host.swapOn
<1>1. HasPlaybook(os, work)
  BY DEF Settled
<1>2. CASE play \in Play(<<host>>, "ok")
  BY <1>2, IdlePlay, PlayEnds
<1>3. CASE work[1] = "Swap" /\ play \in Swap(machine, host)
  <2>1. CASE machine.container \/ machine.ownSwap \/ host.swapOn
    BY <1>2, <1>3, <2>1 DEF Swap
  <2>2. CASE ~(machine.container \/ machine.ownSwap \/ host.swapOn)
    <3>1. HasDevice(machine, 2) /\ host.mounts = {}
      BY <1>3, <2>2 DEF Settled
    <3>2. \E after : play \in Play(after, "ok")
      BY <1>3, <2>2, <3>1 DEF Swap
    <3>3. QED
      BY <1>3, <2>2, <3>2, PlayEnds
  <2>3. QED
    BY <2>1, <2>2
<1>4. CASE \E path \in MountOf(work) : play \in DataDisk(machine, host, path)
  BY <1>2, <1>4 DEF DataDisk
<1>5. CASE /\ MountOf(work) = {} /\ work[1] \in NeedsUrl
           /\ play \in Install(work[1], Download(work[1]))
  <2>1. CASE machine.builds
    <3> DEFINE b == work[1]
               installed == [host EXCEPT !.couchbase = @ \/ b = "CBS",
                                         !.gateway = @ \/ b = "InstallSGW"]
    <3>1. (b = "CBS" => host.couchbase) /\ (b = "InstallSGW" => host.gateway)
      BY <1>5, <2>1 DEF Settled
    <3>2. installed = host
      BY <3>1 DEF HostInv, HostState
    <3>3. play \in Play(<<host, installed, installed>>, "ok")
      BY <1>5, <2>1 DEF Install, Download
    <3> HIDE DEF installed
    <3>4. play \in Play(<<host, host, host>>, "ok")
      BY <3>2, <3>3
    <3>5. <<host, host, host>> \in Seq({host}) /\ <<host, host, host>> # <<>>
      OBVIOUS
    <3>6. play.host \in {host}
      BY <3>4, <3>5, PlayStates
    <3>7. QED
      BY <3>4, <3>6, PlayEnds
  <2>2. CASE ~machine.builds
    <3>1. \E end : play \in Play(<<host>>, end)
      BY <1>5, <2>2 DEF Install
    <3>2. QED
      BY <1>5, <2>2, <3>1, IdlePlay
  <2>3. QED
    BY <2>1, <2>2
<1>6. CASE work[1] \in StartsGateway /\ play \in StartGateway
  BY <1>2, <1>6 DEF StartGateway, Settled
<1>7. QED
  BY <1>1, <1>2, <1>3, <1>4, <1>5, <1>6, PlaysCases

\* A command line that was successful can be given again, at any time and after
\* any restarts.
THEOREM RerunIsGood == Spec => []RerunSucceeds
<1>1. ASSUME RunInv PROVE RerunSucceeds
  <2> SUFFICES ASSUME status = "successful", NEW work \in ToSet(Plan),
                      NEW play \in Plays(work, Download(work[1]))
               PROVE  /\ play.end = "failed" => work[1] \in NeedsUrl /\ ~machine.builds
                      /\ play.host # host => work[1] = "Swap" /\ ~host.swapOn
    BY DEF RerunSucceeds, Plan, PlanOf
  <2>1. PICK i \in 1..Len(played) : played[i] = work
    BY <1>1, Played DEF ToSet
  <2>2. work \in Work
    BY <1>1, <2>1 DEF RunInv, TypeOK
  <2>3. Settled(work, host)
    BY <1>1, <2>1 DEF RunInv, AllSettled
  <2>4. ~machine.container => MountOf(work) \subseteq host.mounts
    BY <1>1, <2>1 DEF RunInv, MountsMade
  <2>5. QED
    BY <1>1, <2>2, <2>3, <2>4, SettledPlays DEF RunInv
<1>2. QED
  BY <1>1, RunInvariance, PTL

-----------------------------------------------------------------------------
(* Refinement.                                                             *)

\* A list of playbooks that is not empty has a first one.
LEMMA PlaybooksLength ==
    ASSUME NEW b
    PROVE  Playbooks(b) # <<>> => Len(Playbooks(b)) # 0
<1>1. Len(<<"run">>) # 0 /\ Len(<<"run", "post">>) # 0
  OBVIOUS
<1>2. QED
  BY <1>1 DEF Playbooks

\* What a bundle requires has a playbook.
LEMMA NeedsActive ==
    ASSUME NEW b \in Bundles, NEW c \in ToSet(Requires(b))
    PROVE  /\ c \in Active
           /\ \E j \in DOMAIN Playbooks(c) : TRUE
<1>1. c \in Required /\ c \in Bundles
  BY RequiresFacts
<1>2. Playbooks(c) = <<"run">>
  BY <1>1 DEF Required, Playbooks
<1>3. <<"run">> # <<>> /\ 1 \in DOMAIN <<"run">>
  OBVIOUS
<1>4. QED
  BY <1>1, <1>2, <1>3 DEF Active

\* The bundles a run wants are those of the install list that do something,
\* and with each of them all it needs.
WantedOf(named) == UNION {WithNeeds[named[i]] : i \in DOMAIN named}

LEMMA WantedFacts ==
    ASSUME NEW named \in Seq(Askable)
    PROVE  /\ WantedOf(named) = {b \in Active : Contains(InstallList(named), b)}
           /\ \A b \in WantedOf(named) : NeedsOf[b] \subseteq WantedOf(named)
<1> DEFINE l == InstallList(named)
<1>1. named \in Seq(Bundles) /\ DOMAIN named = 1..Len(named)
  BY AskedAreBundles
<1>2. /\ l \in Seq(Bundles) /\ Closed(l)
      /\ \A i \in 1..Len(named) : Contains(l, named[i])
      /\ \A i \in 1..Len(l) : \E m \in 1..Len(named) :
           l[i] \in {named[m]} \cup ToSet(Requires(named[m]))
  BY <1>1, InstallListFacts
<1> HIDE DEF l
<1>3. ASSUME NEW b, Contains(l, b), NEW c \in ToSet(Requires(b)) PROVE Contains(l, c)
  <2>1. PICK i \in 1..Len(l) : l[i] = b
    BY <1>3 DEF Contains
  <2>2. PICK j \in 1..(i - 1) : l[j] = c
    BY <1>2, <1>3, <2>1 DEF Closed
  <2>3. j \in 1..Len(l)
    BY <1>2
  <2>4. QED
    BY <2>2, <2>3 DEF Contains
<1>4. ASSUME NEW b \in Active, Contains(l, b) PROVE b \in WantedOf(named)
  <2>1. PICK i \in 1..Len(l) : l[i] = b
    BY <1>4 DEF Contains
  <2>2. PICK m \in 1..Len(named) : b \in {named[m]} \cup ToSet(Requires(named[m]))
    BY <1>2, <2>1
  <2>3. named[m] \in Bundles
    BY <1>1
  <2>4. b \in WithNeeds[named[m]]
    BY <2>2, <2>3 DEF WithNeeds
  <2>5. QED
    BY <1>1, <2>4 DEF WantedOf
<1>5. ASSUME NEW b \in WantedOf(named) PROVE b \in Active /\ Contains(l, b)
  <2>1. PICK m \in 1..Len(named) : b \in WithNeeds[named[m]]
    BY <1>1 DEF WantedOf
  <2>2. named[m] \in Bundles
    BY <1>1
  <2>3. b \in Active /\ b \in {named[m]} \cup ToSet(Requires(named[m]))
    BY <2>1, <2>2 DEF WithNeeds
  <2>4. Contains(l, named[m])
    BY <1>2
  <2>5. QED
    BY <1>3, <2>3, <2>4
<1>6. WantedOf(named) = {b \in Active : Contains(l, b)}
  BY <1>4, <1>5
<1>7. ASSUME NEW b \in WantedOf(named), NEW c \in NeedsOf[b] PROVE c \in WantedOf(named)
  <2>1. b \in Active /\ Contains(l, b) /\ b \in Bundles
    BY <1>5 DEF Active
  <2>2. c \in ToSet(Requires(b))
    BY <2>1 DEF NeedsOf
  <2>3. Contains(l, c)
    BY <1>3, <2>1, <2>2
  <2>4. c \in Active
    BY <2>1, <2>2, NeedsActive
  <2>5. QED
    BY <1>4, <2>3, <2>4
<1>8. QED
  BY <1>6, <1>7 DEF l

\* A play leaves the disk, makes swap of it while it is not mounted, or mounts
\* it while it is not swap.
LEMMA DiskSteps ==
    ASSUME HostInv, NEW work, NEW from, NEW play \in Plays(work, from), host' = play.host
    PROVE  H!DiskUsed
<1>1. host' \in Keeping(host, MountOf(work), work[1] = "Swap" /\ MaySwap(machine))
  BY PlaysKeep
<1>2. /\ host.mounts \subseteq host'.mounts /\ host'.mounts \in SUBSET MountPoints
      /\ host.swapOn \in BOOLEAN /\ host'.swapOn \in BOOLEAN
      /\ host'.swapOn => host'.mounts = {}
  BY <1>1 DEF Keeping, Safe, HostState, HostInv
<1>3. host.swapOn => host'.swapOn
  BY SwapStays
<1>4. CASE host'.swapOn
  BY <1>2, <1>4 DEF H!DiskUsed, H!MakeSwap
<1>5. CASE ~host'.swapOn
  BY <1>2, <1>3, <1>5 DEF H!DiskUsed, H!Mount
<1>6. QED
  BY <1>2, <1>4, <1>5

\* A bundle that is finished has been played, was wanted, and is not the
\* bundle of the next playbook.
LEMMA FinishedFacts ==
    ASSUME RunInv
    PROVE  /\ Finished \subseteq Wanted
           /\ status = "successful" \/ (status = "running" /\ todo = <<>>)
                => Finished = Wanted
           /\ Running => todo[1][1] \in Wanted \ Finished
<1>1. /\ asked \in Seq(Askable) /\ played \in Seq(Work) /\ Plan \in Seq(Work)
      /\ Len(played) \in Nat /\ DOMAIN played = 1..Len(played)
      /\ Len(Plan) \in Nat
      /\ \A i \in 1..Len(played) : i \in 1..Len(Plan) /\ played[i] = Plan[i]
  BY Played DEF RunInv, TypeOK
<1>2. \A i \in 1..Len(Plan) :
        /\ Contains(InstallList(asked), Plan[i][1])
        /\ \E j \in DOMAIN Playbooks(Plan[i][1]) :
             Plan[i] = <<Plan[i][1], Playbooks(Plan[i][1])[j]>>
  BY <1>1, PlanFacts DEF Plan
<1>3. ASSUME NEW i \in 1..Len(Plan) PROVE Plan[i][1] \in Wanted
  <2>1. Plan[i][1] \in Bundles
    BY <1>1 DEF Work
  <2>2. Playbooks(Plan[i][1]) # <<>>
    <3>1. DOMAIN <<>> = {}
      OBVIOUS
    <3>2. QED
      BY <1>2, <3>1
  <2>3. QED
    BY <1>1, <1>2, <2>1, <2>2, WantedFacts DEF Active, Wanted, WantedOf
<1>4. Finished \subseteq Wanted
  BY <1>1, <1>3 DEF Finished
<1>5. ASSUME status = "successful" \/ (status = "running" /\ todo = <<>>)
      PROVE  Wanted \subseteq Finished
  <2>1. Len(played) = Len(Plan)
    <3>1. Len(<<>>) = 0
      OBVIOUS
    <3>2. /\ status = "running" => Len(todo) = Len(Plan) - Len(played)
          /\ status = "successful" => Len(played) = Len(Plan)
      BY DEF RunInv, Progress
    <3>3. QED
      BY <1>1, <1>5, <3>1, <3>2
  <2>2. ASSUME NEW b \in Wanted PROVE b \in Finished
    <3>1. b \in Active /\ Contains(InstallList(asked), b) /\ b \in Bundles
      BY <1>1, WantedFacts DEF Active, Wanted, WantedOf
    <3>2. b \in ToSet(InstallList(asked))
      BY <3>1 DEF Contains, ToSet
    <3>3. \A j \in DOMAIN Playbooks(b) : Contains(Plan, <<b, Playbooks(b)[j]>>)
      BY <1>1, <3>2, PlanFacts DEF Plan
    <3>4. Complete(b, played)
      BY <1>1, <2>1, <3>3 DEF Complete, Contains
    <3>5. \E j \in DOMAIN Playbooks(b) : TRUE
      <4>1. Len(Playbooks(b)) # 0 /\ DOMAIN Playbooks(b) = 1..Len(Playbooks(b))
            /\ Len(Playbooks(b)) \in Nat
        BY <3>1, StepsFacts, PlaybooksLength DEF Active
      <4>2. QED
        BY <4>1
    <3>6. \E i \in 1..Len(played) : played[i][1] = b
      <4>1. PICK j \in DOMAIN Playbooks(b) : TRUE
        BY <3>5
      <4>2. Contains(played, <<b, Playbooks(b)[j]>>)
        BY <3>4 DEF Complete
      <4>3. PICK i \in 1..Len(played) : played[i] = <<b, Playbooks(b)[j]>>
        BY <4>2 DEF Contains
      <4>4. played[i][1] = b
        BY <4>3
      <4>5. QED
        BY <4>4
    <3>7. QED
      BY <1>1, <3>4, <3>6 DEF Finished
  <2>3. QED
    BY <2>2
<1>6. ASSUME Running PROVE todo[1][1] \in Wanted \ Finished
  <2> DEFINE n == Len(played) + 1
  <2>1. n \in 1..Len(Plan) /\ todo[1] = Plan[n]
    BY <1>6, NextOfPlan DEF RunInv
  <2>2. todo[1][1] \in Wanted
    BY <1>3, <2>1
  <2>3. PICK j \in DOMAIN Playbooks(todo[1][1]) :
          Plan[n] = <<todo[1][1], Playbooks(todo[1][1])[j]>>
    BY <1>2, <2>1
  <2>4. ASSUME Complete(todo[1][1], played) PROVE FALSE
    <3>1. PICK k \in 1..Len(played) : played[k] = Plan[n]
      BY <2>3, <2>4 DEF Complete, Contains
    <3>2. k \in 1..Len(Plan) /\ Plan[k] = Plan[n]
      BY <1>1, <3>1
    <3>3. k = n
      BY <1>1, <2>1, <3>2, PlanFacts DEF Plan, Distinct
    <3>4. QED
      BY <1>1, <3>3
  <2>5. QED
    BY <2>2, <2>4 DEF Finished
<1>7. QED
  BY <1>4, <1>5, <1>6

\* A playbook that succeeds finishes its bundle or leaves it unfinished, and
\* no other bundle.
LEMMA FinishedSteps ==
    ASSUME RunInv, Running, played' = Append(played, todo[1])
    PROVE  Finished' = IF Complete(todo[1][1], played')
                       THEN Finished \cup {todo[1][1]} ELSE Finished
<1> DEFINE b == todo[1][1]
           done == {played[i][1] : i \in DOMAIN played}
<1>1. todo[1] \in Work /\ played \in Seq(Work)
  BY NextOfPlan DEF RunInv, TypeOK
<1>2. /\ Len(played) \in Nat /\ Len(played') = Len(played) + 1
      /\ played'[Len(played) + 1] = todo[1]
      /\ \A i \in 1..Len(played) : played'[i] = played[i]
      /\ DOMAIN played = 1..Len(played)
      /\ DOMAIN played' = 1..(Len(played) + 1)
  BY <1>1, AppendProperties
<1>3. {played'[i][1] : i \in DOMAIN played'} = done \cup {b}
  <2>1. \A i : i \in DOMAIN played' <=> i \in DOMAIN played \/ i = Len(played) + 1
    BY <1>2
  <2>2. \A i \in DOMAIN played : played'[i] = played[i]
    BY <1>2
  <2>3. QED
    BY <1>2, <2>1, <2>2
<1>4. ASSUME NEW c, c # b PROVE Complete(c, played') <=> Complete(c, played)
  <2>1. ASSUME NEW p PROVE Contains(played', <<c, p>>) <=> Contains(played, <<c, p>>)
    <3>1. todo[1] # <<c, p>>
      BY <1>4
    <3>2. \A i \in 1..Len(played') : i \in 1..Len(played) \/ i = Len(played) + 1
      BY <1>2
    <3>3. \A i \in 1..Len(played) : i \in 1..Len(played')
      BY <1>2
    <3>4. QED
      BY <1>2, <3>1, <3>2, <3>3 DEF Contains
  <2>2. QED
    BY <2>1 DEF Complete
<1>5. Finished' = {c \in done \cup {b} : Complete(c, played')}
  BY <1>3 DEF Finished
<1>6. Finished = {c \in done : Complete(c, played)} /\ b \notin Finished
  BY FinishedFacts DEF Finished
<1> HIDE DEF done, b
<1>7. Finished' = IF Complete(b, played') THEN Finished \cup {b} ELSE Finished
  <2>1. CASE Complete(b, played')
    <3>1. ASSUME NEW c PROVE c \in Finished' <=> c \in Finished \cup {b}
      BY <1>4, <1>5, <1>6, <2>1
    <3>2. QED
      BY <2>1, <3>1
  <2>2. CASE ~Complete(b, played')
    <3>1. ASSUME NEW c PROVE c \in Finished' <=> c \in Finished
      BY <1>4, <1>5, <1>6, <2>2
    <3>2. QED
      BY <2>2, <3>1
  <2>3. QED
    BY <2>1, <2>2
<1>8. QED
  BY <1>7 DEF b

\* All that the bundle of the next playbook needs is finished.
LEMMA NeedsFinished ==
    ASSUME RunInv, Running
    PROVE  NeedsOf[todo[1][1]] \subseteq Finished
<1> DEFINE n == Len(played) + 1
<1>1. /\ asked \in Seq(Askable) /\ Plan \in Seq(Work)
      /\ n \in 1..Len(Plan) /\ todo[1] = Plan[n] /\ Len(played) \in Nat
      /\ DOMAIN played = 1..Len(played)
      /\ \A i \in 1..Len(played) : played[i] = Plan[i]
  BY NextOfPlan, Played DEF RunInv, TypeOK
<1>2. todo[1][1] \in Active /\ todo[1][1] \in Bundles
  BY <1>1, FinishedFacts, WantedFacts DEF Active, Wanted, WantedOf
<1>3. \A c \in ToSet(Requires(Plan[n][1])) : \A j \in DOMAIN Playbooks(c) :
        \E k \in 1..(n - 1) : Plan[k] = <<c, Playbooks(c)[j]>>
  BY <1>1, PlanFacts DEF Plan
<1>4. ASSUME NEW c \in NeedsOf[todo[1][1]] PROVE c \in Finished
  <2>1. c \in ToSet(Requires(Plan[n][1]))
    BY <1>1, <1>2, <1>4 DEF NeedsOf
  <2>2. \A j \in DOMAIN Playbooks(c) :
          \E k \in 1..Len(played) : played[k] = <<c, Playbooks(c)[j]>>
    <3> SUFFICES ASSUME NEW j \in DOMAIN Playbooks(c)
                 PROVE  \E k \in 1..Len(played) : played[k] = <<c, Playbooks(c)[j]>>
      OBVIOUS
    <3>1. PICK k \in 1..(n - 1) : Plan[k] = <<c, Playbooks(c)[j]>>
      BY <1>1, <1>3, <2>1
    <3>2. k \in 1..Len(played)
      BY <1>1
    <3>3. QED
      BY <1>1, <3>1, <3>2
  <2>3. Complete(c, played)
    BY <2>2 DEF Complete, Contains
  <2>4. PICK j \in DOMAIN Playbooks(c) : TRUE
    BY <1>1, <1>2, <2>1, NeedsActive
  <2>5. PICK k \in 1..Len(played) : played[k] = <<c, Playbooks(c)[j]>>
    BY <2>2, <2>4
  <2>6. played[k][1] = c /\ k \in DOMAIN played
    BY <1>1, <2>5
  <2>7. QED
    BY <2>3, <2>6 DEF Finished
<1>5. QED
  BY <1>4

\* A bundle whose playbooks are all among those played has mounted what they
\* mount.
LEMMA CompleteMounts ==
    ASSUME NEW b \in Active, NEW done, Complete(b, done), NEW mounts,
           \A i \in 1..Len(done) : MountOf(done[i]) \subseteq mounts
    PROVE  MountsOf[b] \subseteq mounts
<1>1. \A j \in DOMAIN Playbooks(b) :
        \E i \in 1..Len(done) : done[i] = <<b, Playbooks(b)[j]>>
  BY DEF Complete, Contains
<1>2. \A j \in DOMAIN Playbooks(b) : MountOf(<<b, Playbooks(b)[j]>>) \subseteq mounts
  BY <1>1
<1>3. QED
  BY <1>2 DEF MountsOf

\* Every step of bundlemgr or of the host is one of HostPreparation, or none.
LEMMA NextRefines ==
    ASSUME RunInv, RunInv', [Next]_vars
    PROVE  [H!Next]_(H!vars)
<1>1. asked' = asked => Wanted' = Wanted
  BY DEF Wanted
<1>2. played' = played => Finished' = Finished
  BY DEF Finished, Complete
<1>3. machine' = machine
  BY DEF Next, Invoke, GetUrl, RunPlaybook, Finish, Break, Reboot, vars
<1>4. /\ Report = "running" <=> status = "running"
      /\ Report' = "running" <=> status' = "running"
      /\ status' \in {"failed", "not_found", "error", "broken"} => Report' = "stopped"
      /\ status' = "successful" => Report' = "success"
      /\ status' = status => Report' = Report
  BY DEF Report
<1>5. CASE Invoke
  <2>1. /\ status # "running" /\ status' \in {"running", "not_found"}
        /\ played' = <<>> /\ host' = host
    BY <1>5 DEF Invoke
  <2>2. Finished' = {}
    <3>1. DOMAIN <<>> = {}
      OBVIOUS
    <3>2. QED
      BY <2>1, <3>1 DEF Finished
  <2>3. /\ Wanted' \in SUBSET Active
        /\ \A b \in Wanted' : NeedsOf[b] \subseteq Wanted'
    <3>1. asked' \in Seq(Askable)
      BY DEF RunInv, TypeOK
    <3>2. QED
      BY <3>1, WantedFacts DEF Wanted, WantedOf
  <2>4. QED
    BY <1>3, <1>4, <2>1, <2>2, <2>3 DEF H!Next, H!Begin, H!disk
<1>6. ASSUME status = "running", UNCHANGED <<asked, played, host>>,
             status' \in {"running", "failed", "error", "broken"}
      PROVE  H!Next
  <2>1. Report' \in {"running", "stopped"} /\ Report = "running"
    BY <1>4, <1>6
  <2>2. H!DiskUsed
    BY <1>6 DEF H!DiskUsed, H!disk
  <2>3. QED
    BY <1>1, <1>2, <1>3, <1>6, <2>1, <2>2 DEF H!Next, H!Work
<1>7. CASE GetUrl
  BY <1>6, <1>7 DEF GetUrl, Running, Stop
<1>8. CASE Break
  BY <1>6, <1>8 DEF Break, Stop
<1>9. CASE RunPlaybook
  <2>1. PICK play \in Plays(todo[1], url) :
          /\ host' = play.host
          /\ \/ /\ play.end = "ok" /\ played' = Append(played, todo[1])
                /\ status' = status
             \/ status' = "failed" /\ played' = played
    BY <1>9 DEF RunPlaybook, Stop
  <2>2. Running /\ status = "running" /\ asked' = asked
    BY <1>9 DEF RunPlaybook, Running
  <2>3. H!DiskUsed
    BY <2>1, DiskSteps DEF RunInv
  <2>4. CASE status' = "failed" /\ played' = played
    BY <1>1, <1>2, <1>3, <1>4, <2>2, <2>3, <2>4 DEF H!Next, H!Work
  <2>5. CASE played' = Append(played, todo[1]) /\ status' = status
    <3> DEFINE b == todo[1][1]
    <3>1. /\ b \in Wanted \ Finished /\ NeedsOf[b] \subseteq Finished
          /\ Finished' = IF Complete(b, played') THEN Finished \cup {b} ELSE Finished
      BY <2>2, <2>5, FinishedFacts, NeedsFinished, FinishedSteps
    <3>2. CASE ~Complete(b, played')
      <4>1. Finished' = Finished
        BY <3>1, <3>2
      <4>2. QED
        BY <1>1, <1>3, <1>4, <2>2, <2>3, <2>5, <4>1 DEF H!Next, H!Work
    <3>3. CASE Complete(b, played')
      <4>1. Finished' = Finished \cup {b}
        BY <3>1, <3>3
      <4>2. ~machine.container => MountsOf[b] \subseteq host'.mounts
        <5>1. b \in Active
          BY <3>1, WantedFacts DEF RunInv, TypeOK, Wanted, WantedOf
        <5>2. \A i \in 1..Len(played') : ~machine.container =>
                MountOf(played'[i]) \subseteq host'.mounts
          BY <1>3, <2>2, <2>5 DEF RunInv, MountsMade
        <5>3. QED
          BY <3>3, <5>1, <5>2, CompleteMounts
      <4> HIDE DEF b
      <4>3. QED
        BY <1>1, <1>3, <1>4, <2>2, <2>3, <2>5, <3>1, <4>1, <4>2
           DEF H!Next, H!Finish
    <3>4. QED
      BY <3>2, <3>3
  <2>6. QED
    BY <2>1, <2>4, <2>5
<1>10. CASE Finish
  <2>1. /\ status = "running" /\ todo = <<>> /\ status' = "successful"
        /\ UNCHANGED <<asked, played, host>>
    BY <1>10 DEF Finish, Stop
  <2>2. Finished = Wanted
    BY <2>1, FinishedFacts
  <2>3. QED
    BY <1>1, <1>2, <1>3, <1>4, <2>1, <2>2 DEF H!Next, H!Succeed, H!disk
<1>11. CASE Reboot
  <2>1. /\ status # "running" /\ UNCHANGED <<asked, played, status>>
        /\ host' = Rebooted(host)
    BY <1>11 DEF Reboot
  <2>2. host' \in Keeping(host, {}, FALSE)
    BY <2>1, RebootKeeps DEF RunInv, HostInv
  <2>3. host'.mounts = host.mounts /\ host'.swapOn \in {host.swapOn, FALSE}
    BY <2>2 DEF Keeping, HostState, RunInv, HostInv
  <2>4. QED
    BY <1>1, <1>2, <1>3, <1>4, <2>1, <2>3 DEF H!Next, H!Restart
<1>12. CASE UNCHANGED vars
  BY <1>1, <1>2, <1>3, <1>4, <1>12 DEF vars, H!vars, H!disk
<1>13. QED
  BY <1>5, <1>7, <1>8, <1>9, <1>10, <1>11, <1>12 DEF Next

\* bundlemgr implements HostPreparation: bundles are finished one by one, each
\* after what it needs and with the disk where it wants it, success is only
\* reported when all are, and no step takes back what the disk was made into,
\* for any hosts, command lines, failures, breaks and restarts.
THEOREM Refinement == Spec => ImplementsPreparation
<1>1. Init => H!Init
  <2> SUFFICES ASSUME Init PROVE H!Init
    OBVIOUS
  <2>1. /\ asked = <<>> /\ played = <<>> /\ DOMAIN <<>> = {}
        /\ host.mounts = {} /\ host.swapOn = FALSE /\ status = "none"
    BY DEF Init, BareHost
  <2>2. Wanted = {} /\ Finished = {}
    BY <2>1 DEF Wanted, Finished
  <2>3. QED
    BY <2>1, <2>2 DEF H!Init, Report
<1>2. RunInv /\ RunInv' /\ [Next]_vars => [H!Next]_(H!vars)
  BY NextRefines
<1>3. QED
  BY <1>1, <1>2, RunInvariance, PTL DEF Spec, ImplementsPreparation, H!Spec
=============================================================================
