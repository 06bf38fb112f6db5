--------------------------- MODULE DeviceConfigProofs --------------------------
(***************************************************************************)
(* What GetOpaqueDeviceConfigs and the search for a result's config return *)
(* for every list of configs.                                              *)
(***************************************************************************)
EXTENDS DeviceConfig, GpuConfigProofs, WellFoundedInduction, TLAPS

--------------------------------------------------------------------------------
(***************************************************************************)
(* Induction over a list's length, from the well-foundedness of <.         *)
(***************************************************************************)

\* A set of naturals that is not empty has a smallest element.
LEMMA Smallest ==
  ASSUME NEW T \in SUBSET Nat, T # {}
  PROVE  \E x \in T : \A y \in T : x <= y
<1>1. PICK x \in T : \A y \in T : ~(<<y, x>> \in OpToRel(<, Nat))
  BY NatLessThanWellFounded, WFMin
<1>2. \A y \in T : y < x => <<y, x>> \in OpToRel(<, Nat)
  BY DEF OpToRel
<1>3. \A y \in T : ~(y < x)
  BY <1>1, <1>2
<1>4. \A y \in T : x <= y
  BY <1>3
<1> QED
  BY <1>4

\* One that is bounded has a greatest.
LEMMA Greatest ==
  ASSUME NEW n \in Nat, NEW T \in SUBSET (1 .. n), T # {}
  PROVE  \E x \in T : \A y \in T : y <= x
<1> DEFINE D == {n - y : y \in T}
<1>1. D \in SUBSET Nat /\ D # {}
  <2>1. \A y \in T : n - y \in Nat
    OBVIOUS
  <2> QED
    BY <2>1
<1>2. PICK d \in D : \A e \in D : d <= e
  <2> HIDE DEF D
  <2> QED
    BY <1>1, Smallest
<1>3. PICK x \in T : d = n - x
  OBVIOUS
<1>4. \A y \in T : n - y \in D
  OBVIOUS
<1> HIDE DEF D
<1>5. \A y \in T : n - x <= n - y
  BY <1>2, <1>3, <1>4
<1>6. \A y \in T : y <= x
  BY <1>5
<1> QED
  BY <1>6

\* A set of naturals that has 0 and the successor of each of its elements has all.
LEMMA AllNaturals ==
  ASSUME NEW S \in SUBSET Nat, 0 \in S, \A n \in S : n + 1 \in S
  PROVE  S = Nat
<1> SUFFICES ASSUME S # Nat PROVE FALSE
  OBVIOUS
<1>1. PICK x \in Nat \ S : \A y \in Nat \ S : x <= y
  BY Smallest
<1>2. x - 1 \in Nat /\ x - 1 \notin Nat \ S
  BY <1>1
<1> QED
  BY <1>1, <1>2

--------------------------------------------------------------------------------
(***************************************************************************)
(* Kept, the loops that append.                                            *)
(***************************************************************************)

\* The collected slices after 0, 1, ..., m entries of s.
Collects(kept, s, T, m) ==
  kept = [n \in 0 .. m |->
            IF n = 0 THEN <<>>
            ELSE IF s[n] \in T THEN Append(kept[n - 1], s[n]) ELSE kept[n - 1]]

\* The slices of one more entry.
OneMore(kept, s, T, m) ==
  [n \in 0 .. m + 1 |->
     IF n # m + 1 THEN kept[n]
     ELSE IF s[n] \in T THEN Append(kept[m], s[n]) ELSE kept[m]]

LEMMA OneMoreCollects ==
  ASSUME NEW kept, NEW s, NEW T, NEW m \in Nat, Collects(kept, s, T, m)
  PROVE  Collects(OneMore(kept, s, T, m), s, T, m + 1)
<1> DEFINE more == OneMore(kept, s, T, m)
           step == [n \in 0 .. m + 1 |->
                      IF n = 0 THEN <<>>
                      ELSE IF s[n] \in T THEN Append(more[n - 1], s[n]) ELSE more[n - 1]]
<1>1. \A n \in 0 .. m :
        kept[n] = IF n = 0 THEN <<>>
                  ELSE IF s[n] \in T THEN Append(kept[n - 1], s[n]) ELSE kept[n - 1]
  BY DEF Collects
<1>2. \A n \in 0 .. m : more[n] = kept[n]
  BY DEF OneMore
<1>3. \A n \in 0 .. m + 1 : more[n] = step[n]
  <2> SUFFICES ASSUME NEW n \in 0 .. m + 1 PROVE more[n] = step[n]
    OBVIOUS
  <2>1. CASE n = 0
    BY <1>1, <1>2, <2>1
  <2>2. CASE n # 0
    <3>1. n - 1 \in 0 .. m /\ more[n - 1] = kept[n - 1]
      BY <1>2, <2>2
    <3>2. CASE n = m + 1
      BY <3>1, <3>2 DEF OneMore
    <3>3. CASE n # m + 1
      BY <1>1, <1>2, <2>2, <3>1, <3>3
    <3> QED
      BY <3>2, <3>3
  <2> QED
    BY <2>1, <2>2
<1>4. more = step
  BY <1>3 DEF OneMore
<1> QED
  BY <1>4 DEF Collects

\* The recursive function in Kept exists, for a list of any length.
LEMMA CollectsExists ==
  ASSUME NEW s, NEW T, NEW m \in Nat
  PROVE  \E kept : Collects(kept, s, T, m)
<1> DEFINE S == {n \in Nat : \E kept : Collects(kept, s, T, n)}
<1>1. 0 \in S
  <2>1. Collects([n \in 0 .. 0 |-> <<>>], s, T, 0)
    BY DEF Collects
  <2> QED
    BY <2>1
<1>2. \A n \in S : n + 1 \in S
  BY OneMoreCollects
<1>3. S = Nat
  <2> HIDE DEF S
  <2>1. S \in SUBSET Nat
    BY DEF S
  <2> QED
    BY <1>1, <1>2, <2>1, AllNaturals
<1> QED
  BY <1>3

\* Kept is the last of them.
LEMMA KeptCollects ==
  ASSUME NEW s, NEW T, Len(s) \in Nat
  PROVE  \E kept : Collects(kept, s, T, Len(s)) /\ Kept(s, T) = kept[Len(s)]
<1>1. PICK kept : Collects(kept, s, T, Len(s))
  BY CollectsExists
<1> DEFINE chosen == CHOOSE k : k = [n \in 0 .. Len(s) |->
              IF n = 0 THEN <<>>
              ELSE IF s[n] \in T THEN Append(k[n - 1], s[n]) ELSE k[n - 1]]
<1>2. Collects(chosen, s, T, Len(s))
  BY <1>1 DEF Collects
<1>3. Kept(s, T) = chosen[Len(s)]
  BY DEF Kept
<1> QED
  BY <1>2, <1>3

\* The entries of t are those of s in T among the first n, in their order: place[k]
\* is where the k-th of them was found.
Places(place, t, s, T, n) ==
  /\ place \in [1 .. Len(t) -> {i \in 1 .. n : s[i] \in T}]
  /\ \A k \in 1 .. Len(t) : t[k] = s[place[k]]
  /\ \A k, l \in 1 .. Len(t) : k < l => place[k] < place[l]
  /\ \A i \in 1 .. n : s[i] \in T => \E k \in 1 .. Len(t) : place[k] = i

\* An entry not in T is passed over.
LEMMA PassesOver ==
  ASSUME NEW place, NEW t, NEW s, NEW T, NEW n \in Nat,
         Places(place, t, s, T, n), s[n + 1] \notin T
  PROVE  Places(place, t, s, T, n + 1)
<1>1. \A i : i \in 1 .. n + 1 <=> i \in 1 .. n \/ i = n + 1
  OBVIOUS
<1>2. {i \in 1 .. n + 1 : s[i] \in T} = {i \in 1 .. n : s[i] \in T}
  BY <1>1
<1> QED
  BY <1>1, <1>2 DEF Places

\* An entry in T is appended.
LEMMA Appends ==
  ASSUME NEW place, NEW E, NEW t \in Seq(E), NEW s, NEW T, NEW n \in Nat,
         Places(place, t, s, T, n), s[n + 1] \in T, s[n + 1] \in E
  PROVE  \E more : Places(more, Append(t, s[n + 1]), s, T, n + 1)
<1> DEFINE u == Append(t, s[n + 1])
           more == [k \in 1 .. Len(u) |-> IF k = Len(u) THEN n + 1 ELSE place[k]]
<1>1. /\ Len(t) \in Nat /\ Len(u) = Len(t) + 1
      /\ u[Len(u)] = s[n + 1]
      /\ \A k \in 1 .. Len(t) : u[k] = t[k]
  OBVIOUS
<1> HIDE DEF u
<1>2. \A k \in 1 .. Len(u) : k # Len(u) => k \in 1 .. Len(t)
  BY <1>1
<1>3. \A k \in 1 .. Len(t) : place[k] \in 1 .. n /\ s[place[k]] \in T
  BY DEF Places
<1>4. /\ more[Len(u)] = n + 1
      /\ \A k \in 1 .. Len(t) : more[k] = place[k]
  BY <1>1
<1> HIDE DEF more
<1>5. more \in [1 .. Len(u) -> {i \in 1 .. n + 1 : s[i] \in T}]
  <2>1. \A k \in 1 .. Len(u) : more[k] \in 1 .. n + 1 /\ s[more[k]] \in T
    BY <1>2, <1>3, <1>4
  <2> QED
    BY <2>1 DEF more
<1>6. \A k \in 1 .. Len(u) : u[k] = s[more[k]]
  BY <1>1, <1>2, <1>4 DEF Places
<1>7. ASSUME NEW k \in 1 .. Len(u), NEW l \in 1 .. Len(u), k < l
      PROVE  more[k] < more[l]
  <2>1. k \in 1 .. Len(t) /\ place[k] \in 1 .. n
    BY <1>1, <1>3, <1>7
  <2>2. CASE l = Len(u)
    BY <1>4, <2>1, <2>2
  <2>3. CASE l # Len(u)
    BY <1>2, <1>4, <1>7, <2>1, <2>3 DEF Places
  <2> QED
    BY <2>2, <2>3
<1>8. ASSUME NEW i \in 1 .. n + 1, s[i] \in T
      PROVE  \E k \in 1 .. Len(u) : more[k] = i
  <2>1. CASE i = n + 1
    BY <1>1, <1>4, <2>1
  <2>2. CASE i # n + 1
    <3>1. i \in 1 .. n
      BY <2>2
    <3>2. PICK k \in 1 .. Len(t) : place[k] = i
      BY <1>8, <3>1 DEF Places
    <3> QED
      BY <1>1, <1>4, <3>2
  <2> QED
    BY <2>1, <2>2
<1> QED
  BY <1>5, <1>6, <1>7, <1>8 DEF Places, u

\* The equation of the recursive function, one entry at a time.
LEMMA CollectsStep ==
  ASSUME NEW kept, NEW s, NEW T, NEW m \in Nat, Collects(kept, s, T, m)
  PROVE  /\ kept[0] = <<>>
         /\ \A n \in Nat : n + 1 <= m =>
              kept[n + 1] = IF s[n + 1] \in T THEN Append(kept[n], s[n + 1]) ELSE kept[n]
<1>1. \A n \in 0 .. m :
        kept[n] = IF n = 0 THEN <<>>
                  ELSE IF s[n] \in T THEN Append(kept[n - 1], s[n]) ELSE kept[n - 1]
  BY DEF Collects
<1>2. kept[0] = <<>>
  BY <1>1
<1>3. ASSUME NEW n \in Nat, n + 1 <= m
      PROVE  kept[n + 1] = IF s[n + 1] \in T THEN Append(kept[n], s[n + 1]) ELSE kept[n]
  <2>1. n + 1 \in 0 .. m /\ n + 1 # 0 /\ (n + 1) - 1 = n
    BY <1>3
  <2> QED
    BY <1>1, <2>1
<1> QED
  BY <1>2, <1>3

\* Kept returns the entries of s in T, all of them and no others, in their order.
THEOREM KeptInOrder ==
  ASSUME NEW E, NEW s \in Seq(E), NEW T
  PROVE  /\ Kept(s, T) \in Seq(E)
         /\ \E place : Places(place, Kept(s, T), s, T, Len(s))
<1>1. PICK kept : Collects(kept, s, T, Len(s)) /\ Kept(s, T) = kept[Len(s)]
  BY KeptCollects
<1>2. /\ kept[0] = <<>>
      /\ \A n \in Nat : n + 1 <= Len(s) =>
           kept[n + 1] = IF s[n + 1] \in T THEN Append(kept[n], s[n + 1]) ELSE kept[n]
  BY <1>1, CollectsStep
<1> DEFINE Good(n) == kept[n] \in Seq(E) /\ \E place : Places(place, kept[n], s, T, n)
           S == {n \in Nat : n <= Len(s) => Good(n)}
<1>3. 0 \in S
  <2>1. Places([k \in 1 .. 0 |-> k], <<>>, s, T, 0)
    BY DEF Places
  <2>2. Good(0)
    BY <1>2, <2>1
  <2> QED
    BY <2>2
<1>4. ASSUME NEW n \in S
      PROVE  n + 1 \in S
  <2> SUFFICES ASSUME n + 1 <= Len(s) PROVE Good(n + 1)
    OBVIOUS
  <2>1. n \in Nat /\ n + 1 \in 1 .. Len(s) /\ s[n + 1] \in E
    OBVIOUS
  <2>2. kept[n] \in Seq(E) /\ \E place : Places(place, kept[n], s, T, n)
    OBVIOUS
  <2>3. CASE s[n + 1] \in T
    <3>1. kept[n + 1] = Append(kept[n], s[n + 1])
      BY <1>2, <2>1, <2>3
    <3> QED
      BY <2>1, <2>2, <2>3, <3>1, Appends
  <2>4. CASE s[n + 1] \notin T
    <3>1. kept[n + 1] = kept[n]
      BY <1>2, <2>1, <2>4
    <3> QED
      BY <2>1, <2>2, <2>4, <3>1, PassesOver
  <2> QED
    BY <2>3, <2>4
<1>5. S = Nat
  <2>1. S \in SUBSET Nat
    OBVIOUS
  <2> HIDE DEF S
  <2> QED
    BY <1>3, <1>4, <2>1, AllNaturals
<1>6. Good(Len(s))
  <2>1. Len(s) \in S
    BY <1>5
  <2> QED
    BY <2>1
<1> QED
  BY <1>1, <1>6

--------------------------------------------------------------------------------
(***************************************************************************)
(* GetOpaqueDeviceConfigs: its list has the configs of this driver, each   *)
(* beaten by those after it.                                               *)
(***************************************************************************)

\* The configs of one source keep their order, which is that of Beats.
LEMMA OneSource ==
  ASSUME NEW cs \in Seq(ConfigEntries), NEW source \in {"class", "claim"}
  PROVE  LET t == Kept(cs, From(source)) IN
         /\ t \in Seq(ConfigEntries)
         /\ \E place \in [1 .. Len(t) -> DOMAIN cs] :
              /\ \A k \in 1 .. Len(t) : t[k] = cs[place[k]] /\ t[k].source = source
              /\ \A k, l \in 1 .. Len(t) : k < l => place[k] < place[l]
              /\ \A i \in DOMAIN cs : cs[i].source = source => \E k \in 1 .. Len(t) : place[k] = i
<1> DEFINE t == Kept(cs, From(source))
<1>1. t \in Seq(ConfigEntries) /\ \E place : Places(place, t, cs, From(source), Len(cs))
  BY KeptInOrder
<1>2. PICK place : Places(place, t, cs, From(source), Len(cs))
  BY <1>1
<1> HIDE DEF t
<1>3. /\ DOMAIN cs = 1 .. Len(cs) /\ \A i \in DOMAIN cs : cs[i] \in ConfigEntries
      /\ Len(t) \in Nat
  BY <1>1
<1>4. \A i \in DOMAIN cs : cs[i] \in From(source) <=> cs[i].source = source
  BY <1>3 DEF From
<1>5. \A k \in 1 .. Len(t) : place[k] \in DOMAIN cs /\ cs[place[k]] \in From(source)
  BY <1>2, <1>3 DEF Places
<1>6. place \in [1 .. Len(t) -> DOMAIN cs]
  BY <1>2, <1>3 DEF Places
<1>7. \A k \in 1 .. Len(t) : t[k] = cs[place[k]] /\ t[k].source = source
  BY <1>2, <1>4, <1>5 DEF Places
<1>8. \A i \in DOMAIN cs : cs[i].source = source => \E k \in 1 .. Len(t) : place[k] = i
  BY <1>2, <1>3, <1>4 DEF Places
<1>9. \A k, l \in 1 .. Len(t) : k < l => place[k] < place[l]
  BY <1>2 DEF Places
<1> QED
  BY <1>1, <1>6, <1>7, <1>8, <1>9 DEF t

\* The candidates are all configs if each is of one of the two sources, in the order
\* of Beats.
LEMMA CandidatesInOrder ==
  ASSUME configs \in Seq(ConfigEntries), KnownSources(configs)
  PROVE  LET c == Candidates(configs) IN
         /\ c \in Seq(ConfigEntries)
         /\ \E place \in [1 .. Len(c) -> DOMAIN configs] :
              /\ \A k \in 1 .. Len(c) : c[k] = configs[place[k]]
              /\ \A k, l \in 1 .. Len(c) : k < l => Beats(place[l], place[k])
              /\ \A i \in DOMAIN configs : \E k \in 1 .. Len(c) : place[k] = i
<1> DEFINE a == Kept(configs, From("class"))
           b == Kept(configs, From("claim"))
           c == a \o b
<1>1. PICK p \in [1 .. Len(a) -> DOMAIN configs] :
        /\ \A k \in 1 .. Len(a) : a[k] = configs[p[k]] /\ a[k].source = "class"
        /\ \A k, l \in 1 .. Len(a) : k < l => p[k] < p[l]
        /\ \A i \in DOMAIN configs : configs[i].source = "class" =>
             \E k \in 1 .. Len(a) : p[k] = i
  BY OneSource
<1>2. PICK q \in [1 .. Len(b) -> DOMAIN configs] :
        /\ \A k \in 1 .. Len(b) : b[k] = configs[q[k]] /\ b[k].source = "claim"
        /\ \A k, l \in 1 .. Len(b) : k < l => q[k] < q[l]
        /\ \A i \in DOMAIN configs : configs[i].source = "claim" =>
             \E k \in 1 .. Len(b) : q[k] = i
  BY OneSource
<1>3. a \in Seq(ConfigEntries) /\ b \in Seq(ConfigEntries)
  BY OneSource
<1> HIDE DEF a, b
<1>4. /\ c \in Seq(ConfigEntries) /\ Len(a) \in Nat /\ Len(b) \in Nat
      /\ Len(c) = Len(a) + Len(b)
      /\ \A k \in 1 .. Len(a) : c[k] = a[k]
      /\ \A k \in 1 .. Len(b) : c[Len(a) + k] = b[k]
      /\ DOMAIN configs \subseteq Nat
  BY <1>3
<1> DEFINE place == [k \in 1 .. Len(c) |-> IF k <= Len(a) THEN p[k] ELSE q[k - Len(a)]]
<1> HIDE DEF c
<1>5. \A k \in 1 .. Len(c) :
        \/ k \in 1 .. Len(a) /\ place[k] = p[k] /\ c[k] = a[k]
        \/ /\ k > Len(a) /\ k - Len(a) \in 1 .. Len(b) /\ place[k] = q[k - Len(a)]
           /\ c[k] = b[k - Len(a)]
  <2> SUFFICES ASSUME NEW k \in 1 .. Len(c), ~(k \in 1 .. Len(a))
               PROVE  /\ k > Len(a) /\ k - Len(a) \in 1 .. Len(b) /\ place[k] = q[k - Len(a)]
                      /\ c[k] = b[k - Len(a)]
    BY <1>4
  <2>1. k > Len(a) /\ k - Len(a) \in 1 .. Len(b) /\ Len(a) + (k - Len(a)) = k
    BY <1>4
  <2>2. c[k] = b[k - Len(a)]
    BY <1>4, <2>1
  <2> QED
    BY <2>1, <2>2
<1>6. /\ \A k \in 1 .. Len(a) : k \in 1 .. Len(c) /\ place[k] = p[k]
      /\ \A k \in 1 .. Len(b) : Len(a) + k \in 1 .. Len(c) /\ place[Len(a) + k] = q[k]
  BY <1>4
<1>7. place \in [1 .. Len(c) -> DOMAIN configs]
  <2>1. \A k \in 1 .. Len(a) : p[k] \in DOMAIN configs
    OBVIOUS
  <2>2. \A k \in 1 .. Len(b) : q[k] \in DOMAIN configs
    OBVIOUS
  <2> HIDE DEF place
  <2>3. \A k \in 1 .. Len(c) : place[k] \in DOMAIN configs
    BY <1>5, <2>1, <2>2
  <2> QED
    BY <2>3 DEF place
<1> HIDE DEF place
<1>8. ASSUME NEW k \in 1 .. Len(c) PROVE c[k] = configs[place[k]]
  <2>1. CASE k \in 1 .. Len(a) /\ place[k] = p[k] /\ c[k] = a[k]
    <3>1. a[k] = configs[p[k]]
      BY <1>1, <2>1
    <3> QED
      BY <2>1, <3>1
  <2>2. CASE /\ k - Len(a) \in 1 .. Len(b) /\ place[k] = q[k - Len(a)]
             /\ c[k] = b[k - Len(a)]
    <3>1. b[k - Len(a)] = configs[q[k - Len(a)]]
      BY <1>2, <2>2
    <3> QED
      BY <2>2, <3>1
  <2> QED
    BY <1>5, <2>1, <2>2
<1>9. ASSUME NEW k \in 1 .. Len(c), NEW l \in 1 .. Len(c), k < l
      PROVE  Beats(place[l], place[k])
  <2>1. CASE l \in 1 .. Len(a)
    <3>1. k \in 1 .. Len(a)
      BY <1>4, <1>9, <2>1
    <3>2. /\ p[k] \in Nat /\ p[l] \in Nat /\ p[k] < p[l]
          /\ configs[p[k]].source = configs[p[l]].source
      BY <1>1, <1>4, <1>9, <2>1, <3>1
    <3> QED
      BY <1>6, <2>1, <3>1, <3>2 DEF Beats
  <2>2. CASE k \notin 1 .. Len(a)
    <3> DEFINE x == k - Len(a)
               y == l - Len(a)
    <3>1. /\ l \notin 1 .. Len(a) /\ x \in 1 .. Len(b) /\ y \in 1 .. Len(b) /\ x < y
          /\ place[k] = q[x] /\ place[l] = q[y]
      BY <1>4, <1>5, <1>9, <2>2
    <3>2. /\ q[x] \in Nat /\ q[y] \in Nat /\ q[x] < q[y]
          /\ configs[q[x]].source = configs[q[y]].source
      BY <1>2, <1>4, <3>1
    <3> QED
      BY <3>1, <3>2 DEF Beats
  <2>3. CASE k \in 1 .. Len(a) /\ l \notin 1 .. Len(a)
    <3>1. configs[place[k]].source = "class"
      BY <1>1, <1>6, <2>3
    <3>2. l - Len(a) \in 1 .. Len(b) /\ place[l] = q[l - Len(a)]
      BY <1>5, <2>3
    <3>3. configs[place[l]].source = "claim"
      BY <1>2, <3>2
    <3> QED
      BY <3>1, <3>3 DEF Beats
  <2> QED
    BY <2>1, <2>2, <2>3
<1>10. ASSUME NEW i \in DOMAIN configs
       PROVE  \E k \in 1 .. Len(c) : place[k] = i
  <2>2. configs[i].source \in {"class", "claim"}
    BY DEF KnownSources
  <2>3. CASE configs[i].source = "class"
    BY <1>1, <1>6, <2>3
  <2>4. CASE configs[i].source = "claim"
    <3>1. PICK k \in 1 .. Len(b) : q[k] = i
      BY <1>2, <2>4
    <3> QED
      BY <1>6, <3>1
  <2> QED
    BY <2>2, <2>3, <2>4
<1>11. c = Candidates(configs)
  BY DEF a, b, c, Candidates
<1> QED
  BY <1>4, <1>7, <1>8, <1>9, <1>10, <1>11

OpaqueConfig == [requests : SUBSET Requests, params : Configs]

\* The list GetOpaqueDeviceConfigs returns has decoded configs.
LEMMA OpaqueAreConfigs ==
  ASSUME configs \in Seq(ConfigEntries)
  PROVE  OpaqueConfigs(configs) \in Seq(OpaqueConfig)
<1> DEFINE T == {e \in ConfigEntries : e.form = "ours"}
           own == Kept(Candidates(configs), T)
<1>1. Candidates(configs) \in Seq(ConfigEntries)
  BY OneSource DEF Candidates
<1>2. own \in Seq(ConfigEntries)
  BY <1>1, KeptInOrder
<1>3. OpaqueConfigs(configs) =
        [i \in DOMAIN own |-> [requests |-> own[i].requests, params |-> own[i].params]]
  BY DEF OpaqueConfigs
<1> HIDE DEF own
<1>4. Len(own) \in Nat /\ DOMAIN own = 1 .. Len(own)
  BY <1>2
<1>5. \A k \in 1 .. Len(own) : own[k] \in ConfigEntries
  BY <1>2
<1>6. \A k \in 1 .. Len(own) :
        [requests |-> own[k].requests, params |-> own[k].params] \in OpaqueConfig
  BY <1>5 DEF ConfigEntries, OpaqueConfig
<1> QED
  BY <1>3, <1>4, <1>6

\* It has the configs of this driver, each once, from the lowest precedence to the
\* highest.
InPrecedence(place) ==
  LET o == OpaqueConfigs(configs) IN
  /\ place \in [1 .. Len(o) -> {i \in DOMAIN configs : configs[i].form = "ours"}]
  /\ \A k \in 1 .. Len(o) : /\ o[k].requests = configs[place[k]].requests
                            /\ o[k].params = configs[place[k]].params
  /\ \A k, l \in 1 .. Len(o) : k < l => Beats(place[l], place[k])
  /\ \A i \in DOMAIN configs : configs[i].form = "ours" => \E k \in 1 .. Len(o) : place[k] = i

\* Whatever the order of the allocation, if its configs are of the two sources.
THEOREM OpaqueInPrecedence ==
  ASSUME configs \in Seq(ConfigEntries), KnownSources(configs)
  PROVE  \E place : InPrecedence(place)
<1> DEFINE c == Candidates(configs)
           T == {e \in ConfigEntries : e.form = "ours"}
           own == Kept(c, T)
           o == OpaqueConfigs(configs)
<1>1. PICK p \in [1 .. Len(c) -> DOMAIN configs] :
        /\ \A k \in 1 .. Len(c) : c[k] = configs[p[k]]
        /\ \A k, l \in 1 .. Len(c) : k < l => Beats(p[l], p[k])
        /\ \A i \in DOMAIN configs : \E k \in 1 .. Len(c) : p[k] = i
  BY CandidatesInOrder
<1>2. c \in Seq(ConfigEntries)
  BY CandidatesInOrder
<1>3. o = [i \in DOMAIN own |-> [requests |-> own[i].requests, params |-> own[i].params]]
  BY DEF OpaqueConfigs
<1> HIDE DEF c, o
<1>4. own \in Seq(ConfigEntries) /\ \E h : Places(h, own, c, T, Len(c))
  BY <1>2, KeptInOrder
<1>5. PICK h : Places(h, own, c, T, Len(c))
  BY <1>4
<1>6. \A k \in 1 .. Len(own) :
        h[k] \in 1 .. Len(c) /\ c[h[k]] \in T /\ own[k] = c[h[k]]
  BY <1>5 DEF Places
<1>7. \A e \in ConfigEntries : e \in T <=> e.form = "ours"
  OBVIOUS
<1>8. \A k \in 1 .. Len(c) : p[k] \in DOMAIN configs /\ configs[p[k]] \in ConfigEntries
  OBVIOUS
<1> HIDE DEF own, T
<1>9. /\ Len(o) = Len(own)
      /\ \A k \in 1 .. Len(o) : o[k].requests = own[k].requests /\ o[k].params = own[k].params
  <2>1. Len(own) \in Nat /\ DOMAIN own = 1 .. Len(own)
    BY <1>4
  <2> QED
    BY <1>3, <2>1
<1> DEFINE place == [k \in 1 .. Len(o) |-> p[h[k]]]
<1>10. \A k \in 1 .. Len(o) :
         /\ place[k] \in DOMAIN configs
         /\ own[k] = configs[place[k]]
         /\ configs[place[k]].form = "ours"
  BY <1>1, <1>6, <1>7, <1>8, <1>9
<1>11. ASSUME NEW k \in 1 .. Len(o), NEW l \in 1 .. Len(o), k < l
       PROVE  Beats(place[l], place[k])
  <2>1. h[k] \in 1 .. Len(c) /\ h[l] \in 1 .. Len(c) /\ h[k] < h[l]
    BY <1>5, <1>6, <1>9, <1>11 DEF Places
  <2> QED
    BY <1>1, <2>1
<1>12. ASSUME NEW i \in DOMAIN configs, configs[i].form = "ours"
       PROVE  \E k \in 1 .. Len(o) : place[k] = i
  <2>1. PICK n \in 1 .. Len(c) : p[n] = i
    BY <1>1
  <2>2. c[n] \in T
    BY <1>1, <1>7, <1>8, <1>12, <2>1
  <2>3. PICK k \in 1 .. Len(own) : h[k] = n
    BY <1>5, <2>2 DEF Places
  <2> QED
    BY <1>9, <2>1, <2>3
<1>13. place \in [1 .. Len(o) -> {i \in DOMAIN configs : configs[i].form = "ours"}]
  BY <1>10
<1> HIDE DEF place
<1>14. InPrecedence(place)
  BY <1>9, <1>10, <1>11, <1>12, <1>13 DEF InPrecedence, o
<1> QED
  BY <1>14

--------------------------------------------------------------------------------
(***************************************************************************)
(* The search from the back of the list.                                   *)
(***************************************************************************)

\* The list that is searched: the default config, and then those of the claim.
LEMMA RankedIs ==
  ASSUME configs \in Seq(ConfigEntries)
  PROVE  LET o == OpaqueConfigs(configs) IN
         /\ Len(o) \in Nat
         /\ DOMAIN Ranked(configs) = 1 .. Len(o) + 1
         /\ Ranked(configs)[1] = [requests |-> {}, params |-> DefaultGpuConfig]
         /\ \A g \in 2 .. Len(o) + 1 : Ranked(configs)[g] = o[g - 1]
<1> DEFINE o == OpaqueConfigs(configs)
           d == [requests |-> {}, params |-> DefaultGpuConfig]
<1>1. o \in Seq(OpaqueConfig)
  BY OpaqueAreConfigs
<1>2. Ranked(configs) = <<d>> \o o
  BY DEF Ranked
<1> HIDE DEF o, d
<1>3. /\ Len(o) \in Nat
      /\ DOMAIN (<<d>> \o o) = 1 .. Len(o) + 1
      /\ (<<d>> \o o)[1] = d
      /\ \A g \in 2 .. Len(o) + 1 : (<<d>> \o o)[g] = o[g - 1]
  BY <1>1
<1> QED
  BY <1>2, <1>3 DEF o, d

\* Some config is found for every request, since the default matches all.
LEMMA GroupFound ==
  ASSUME configs \in Seq(ConfigEntries), NEW request
  PROVE  LET g == Group(configs, request) IN
         /\ g \in DOMAIN Ranked(configs)
         /\ Matches(Ranked(configs)[g], request)
         /\ \A j \in DOMAIN Ranked(configs) : Matches(Ranked(configs)[j], request) => j <= g
<1> DEFINE matching == {i \in DOMAIN Ranked(configs) : Matches(Ranked(configs)[i], request)}
<1>1. 1 \in matching
  BY RankedIs DEF Matches
<1>2. \E i \in matching : \A j \in matching : j <= i
  <2>1. matching \in SUBSET (1 .. Len(OpaqueConfigs(configs)) + 1)
    BY RankedIs
  <2>2. Len(OpaqueConfigs(configs)) + 1 \in Nat
    BY RankedIs
  <2> HIDE DEF matching
  <2> QED
    BY <1>1, <2>1, <2>2, Greatest
<1>3. Group(configs, request) = CHOOSE i \in matching : \A j \in matching : j <= i
  BY DEF Group
<1> QED
  BY <1>2, <1>3

\* No config beats one that beats it.
LEMMA BeatsOneWay ==
  ASSUME NEW i \in Nat, NEW j \in Nat, Beats(i, j)
  PROVE  ~Beats(j, i)
  BY DEF Beats

\* What is found is what the documentation promises, seen in the allocation itself:
\* the default if no config of this driver is for the request, and otherwise the
\* one config that beats all others.
LEMMA FoundIsBest ==
  ASSUME configs \in Seq(ConfigEntries), KnownSources(configs), NEW request
  PROVE  LET params == Params(configs, Group(configs, request))
             best == {i \in Relevant(request) :
                        \A j \in Relevant(request) \ {i} : Beats(i, j)} IN
         \/ best = {} /\ params = DefaultGpuConfig
         \/ \E i \in DOMAIN configs : best = {i} /\ params = configs[i].params
<1> DEFINE o == OpaqueConfigs(configs)
           g == Group(configs, request)
           best == {i \in Relevant(request) :
                      \A j \in Relevant(request) \ {i} : Beats(i, j)}
<1>1. PICK place : InPrecedence(place)
  BY OpaqueInPrecedence
<1>2. /\ Len(o) \in Nat
      /\ g \in 1 .. Len(o) + 1
      /\ Ranked(configs)[1] = [requests |-> {}, params |-> DefaultGpuConfig]
      /\ \A k \in 2 .. Len(o) + 1 : Ranked(configs)[k] = o[k - 1]
      /\ Matches(Ranked(configs)[g], request)
      /\ \A k \in 2 .. Len(o) + 1 : Matches(Ranked(configs)[k], request) => k <= g
  <2>1. /\ Len(o) \in Nat
        /\ DOMAIN Ranked(configs) = 1 .. Len(o) + 1
        /\ Ranked(configs)[1] = [requests |-> {}, params |-> DefaultGpuConfig]
        /\ \A k \in 2 .. Len(o) + 1 : Ranked(configs)[k] = o[k - 1]
    BY RankedIs
  <2>2. /\ g \in DOMAIN Ranked(configs)
        /\ Matches(Ranked(configs)[g], request)
        /\ \A k \in DOMAIN Ranked(configs) : Matches(Ranked(configs)[k], request) => k <= g
    BY GroupFound
  <2>3. \A k \in 2 .. Len(o) + 1 : k \in DOMAIN Ranked(configs)
    BY <2>1
  <2> QED
    BY <2>1, <2>2, <2>3
<1> HIDE DEF g, o
<1>3. \A k \in 1 .. Len(o) :
        /\ place[k] \in DOMAIN configs
        /\ configs[place[k]].form = "ours"
        /\ o[k].requests = configs[place[k]].requests
        /\ o[k].params = configs[place[k]].params
  BY <1>1 DEF InPrecedence, o
<1>4. ASSUME NEW j \in Relevant(request)
      PROVE  \E k \in 1 .. Len(o) : place[k] = j /\ k + 1 <= g
  <2>1. /\ j \in DOMAIN configs /\ configs[j].form = "ours"
        /\ Matches(configs[j], request)
    BY DEF Relevant
  <2>2. PICK k \in 1 .. Len(o) : place[k] = j
    BY <1>1, <2>1 DEF InPrecedence, o
  <2>3. k + 1 \in 2 .. Len(o) + 1 /\ Ranked(configs)[k + 1] = o[k]
    BY <1>2, <2>2
  <2>4. Matches(Ranked(configs)[k + 1], request)
    BY <1>3, <2>1, <2>2, <2>3 DEF Matches
  <2> QED
    BY <1>2, <2>2, <2>3, <2>4
<1>5. CASE g = 1
  <2>1. Relevant(request) = {}
    BY <1>2, <1>4, <1>5
  <2>2. Params(configs, g) = DefaultGpuConfig
    BY <1>2, <1>5 DEF Params
  <2> QED
    BY <2>1, <2>2 DEF g
<1>6. CASE g # 1
  <2> DEFINE i == place[g - 1]
  <2>1. /\ g - 1 \in 1 .. Len(o) /\ Ranked(configs)[g] = o[g - 1]
        /\ i \in DOMAIN configs
    BY <1>2, <1>3, <1>6
  <2>2. i \in Relevant(request) /\ Params(configs, g) = configs[i].params
    BY <1>2, <1>3, <2>1 DEF Relevant, Params, Matches
  <2>3. ASSUME NEW j \in Relevant(request) \ {i}
        PROVE  Beats(i, j)
    <3>1. PICK k \in 1 .. Len(o) : place[k] = j /\ k + 1 <= g
      BY <1>4
    <3>2. k < g - 1
      BY <1>2, <2>3, <3>1
    <3> QED
      BY <1>1, <2>1, <3>1, <3>2 DEF InPrecedence, o
  <2>4. DOMAIN configs \subseteq Nat /\ Relevant(request) \subseteq DOMAIN configs
    BY DEF Relevant
  <2> HIDE DEF i
  <2>5. best = {i}
    <3>1. i \in best
      BY <2>2, <2>3
    <3>2. \A j \in best : j = i
      BY <2>2, <2>3, <2>4, BeatsOneWay
    <3> QED
      BY <3>1, <3>2
  <2> QED
    BY <2>1, <2>2, <2>5 DEF g, i
<1> QED
  BY <1>5, <1>6

--------------------------------------------------------------------------------
(***************************************************************************)
(* The parameters in force.                                                *)
(***************************************************************************)

LEMMA DefaultIsConfig ==
  DefaultGpuConfig \in Configs /\ Normalize(DefaultGpuConfig) = DefaultGpuConfig
<1>1. DefaultGpuConfig \in Sharings
  BY DEF DefaultGpuConfig, Sharings, Strategies, Intervals
<1>2. DefaultGpuConfig # Unset
  BY <1>1, GpuConfigAssumption DEF Sharings
<1>3. "Default" # Unset
  BY GpuConfigAssumption DEF Intervals
<1>4. Normalize(DefaultGpuConfig) = DefaultGpuConfig
  BY <1>2, <1>3 DEF Normalize, DefaultGpuConfig
<1> QED
  BY <1>1, <1>4 DEF Configs

\* A result is configured with parameters the driver or a user has written.
LEMMA ParamsAreConfig ==
  ASSUME configs \in Seq(ConfigEntries), NEW g \in DOMAIN Ranked(configs)
  PROVE  Params(configs, g) \in Configs
<1>1. CASE g = 1
  BY <1>1, RankedIs, DefaultIsConfig DEF Params
<1>2. CASE g # 1
  <2> DEFINE o == OpaqueConfigs(configs)
  <2>1. o \in Seq(OpaqueConfig)
    BY OpaqueAreConfigs
  <2>2. Len(o) \in Nat /\ DOMAIN Ranked(configs) = 1 .. Len(o) + 1
        /\ \A k \in 2 .. Len(o) + 1 : Ranked(configs)[k] = o[k - 1]
    BY RankedIs
  <2> HIDE DEF o
  <2>3. g - 1 \in 1 .. Len(o) /\ Ranked(configs)[g] = o[g - 1]
    BY <1>2, <2>2
  <2>4. o[g - 1] \in OpaqueConfig
    BY <2>1, <2>3
  <2> QED
    BY <2>3, <2>4 DEF Params, OpaqueConfig
<1> QED
  BY <1>1, <1>2

\* Normalizing what is normalized changes nothing.
LEMMA NormalizeTwice ==
  ASSUME NEW config \in Configs
  PROVE  Normalize(Normalize(config)) = Normalize(config)
<1> DEFINE n == Normalize(config)
<1>1. /\ n \in Sharings
      /\ n.strategy = "TimeSlicing" => n.slicing # Unset
      /\ n.strategy = "SpacePartitioning" => n.parts # Unset
  BY NormalizedHasSection
<1>2. n # Unset
  BY <1>1, GpuConfigAssumption DEF Sharings
<1> HIDE DEF n
<1>3. Normalize(n) = n
  BY <1>1, <1>2 DEF Normalize, Sharings
<1> QED
  BY <1>3 DEF n

\* The edits a result of this request gets are those the documentation promises.
THEOREM InForceIsExpected ==
  ASSUME configs \in Seq(ConfigEntries), KnownSources(configs), NEW request
  PROVE  Normalize(Params(configs, Group(configs, request))) = Expected(request)
<1> DEFINE params == Params(configs, Group(configs, request))
           best == {i \in Relevant(request) :
                      \A j \in Relevant(request) \ {i} : Beats(i, j)}
<1>1. \/ best = {} /\ params = DefaultGpuConfig
      \/ \E i \in DOMAIN configs : best = {i} /\ params = configs[i].params
  BY FoundIsBest
<1>2. Expected(request) = IF best = {} THEN DefaultGpuConfig
                          ELSE Normalize(configs[CHOOSE i \in best : TRUE].params)
  BY DEF Expected
<1> HIDE DEF params, best
<1>3. CASE best = {} /\ params = DefaultGpuConfig
  BY <1>2, <1>3, DefaultIsConfig DEF params
<1>4. CASE \E i \in DOMAIN configs : best = {i} /\ params = configs[i].params
  <2>1. PICK i \in DOMAIN configs : best = {i} /\ params = configs[i].params
    BY <1>4
  <2>2. (CHOOSE j \in best : TRUE) = i
    BY <2>1
  <2> QED
    BY <1>2, <2>1, <2>2 DEF params
<1> QED
  BY <1>1, <1>3, <1>4

\* Whether they can be applied is a property of the expected parameters.
LEMMA AppliesAsExpected ==
  ASSUME configs \in Seq(ConfigEntries), KnownSources(configs), NEW request
  PROVE  Apply(Params(configs, Group(configs, request))) = Apply(Expected(request))
<1> DEFINE params == Params(configs, Group(configs, request))
<1>1. params \in Configs
  BY GroupFound, ParamsAreConfig
<1>2. Normalize(params) = Expected(request)
  BY InForceIsExpected
<1> HIDE DEF params
<1>3. Normalize(Expected(request)) = Normalize(params)
  BY <1>1, <1>2, NormalizeTwice
<1>4. Apply(params) = Apply(Expected(request))
  BY <1>3 DEF Apply
<1> QED
  BY <1>4 DEF params
================================================================================
