------------------------- MODULE CompareRanks_proofs ------------------------
(***************************************************************************)
(* Proofs about the commands that read an artifact directory, for any      *)
(* artifacts, contents, thresholds and earlier baselines, whatever is      *)
(* dumped or spoilt between two steps of a command.                        *)
(***************************************************************************)
EXTENDS CompareRanks, TraceAnalysis_proofs

USE StemsAssumption

(* The elements of a list of stems are finitely many stems.                *)
LEMMA ListedStems ==
    ASSUME NEW list \in Seq(Stems)
    PROVE  IsFiniteSet(Range(list)) /\ Range(list) \subseteq Stems
<1>1. list \in [1 .. Len(list) -> Stems] /\ Len(list) \in Nat
  OBVIOUS
<1>2. IsFiniteSet(1 .. Len(list))
  BY <1>1, FS_Interval
<1>3. Range(list) = {list[i] : i \in 1 .. Len(list)}
  BY <1>1 DEF Range
<1>4. list \in Surjection(1 .. Len(list), Range(list))
  BY <1>1, <1>3 DEF Surjection
<1>. QED  BY <1>1, <1>2, <1>3, <1>4, FS_Surjection

(* A stem of a list is at its position.                                    *)
LEMMA Positions ==
    ASSUME NEW list \in Seq(Stems), NEW s \in Range(list)
    PROVE  Position(list, s) \in DOMAIN list /\ list[Position(list, s)] = s /\ Position(list, s) \in Nat
<1>1. \E i \in DOMAIN list : list[i] = s
  BY DEF Range
<1>2. DOMAIN list \subseteq Nat
  OBVIOUS
<1>. QED  BY <1>1, <1>2 DEF Position

(* The stems of a list in the order they have in it.                       *)
InListOrder(list) ==
    {p \in Range(list) \X Range(list) : Position(list, p[1]) < Position(list, p[2])}

(* Picking stems out of a list keeps their order.                          *)
LEMMA ThoseAreListed ==
    ASSUME NEW list \in Seq(Stems), NEW S \in SUBSET Range(list)
    PROVE  Lists(Those(list, S), Cardinality(S), S, InListOrder(list))
<1>. DEFINE R == InListOrder(list)
            n == Cardinality(S)
<1>1. IsFiniteSet(S)
  BY ListedStems, FS_Subset
<1>2. \A s, t \in S : <<s, t>> \in R <=> Position(list, s) < Position(list, t)
  BY DEF InListOrder
<1>3. TotallyOrders(R, S)
  <2>1. \A s \in S : Position(list, s) \in Nat /\ list[Position(list, s)] = s
    BY Positions
  <2>. HIDE DEF R
  <2>. QED  BY <2>1, <1>2 DEF TotallyOrders
<1>4. PICK f : Lists(f, n, S, R)
  <2>. HIDE DEF R
  <2>. QED  BY <1>1, <1>3, OrderedListExists
<1>. DEFINE Increases(g) == \A i, j \in DOMAIN g : i < j => Position(list, g[i]) < Position(list, g[j])
<1>5. f \in [1 .. n -> S] /\ Increases(f)
  <2>. HIDE DEF R, n
  <2>. QED  BY <1>2, <1>4 DEF Lists
<1>. DEFINE g == Those(list, S)
<1>6. g \in [1 .. n -> S] /\ Increases(g)
  <2>1. g = CHOOSE h \in [1 .. n -> S] : Increases(h)
    BY DEF Those, Sorted
  <2>. HIDE DEF Increases, g, n
  <2>. QED  BY <1>5, <2>1
<1>7. \A i, j \in 1 .. n : i < j => <<g[i], g[j]>> \in R
  <2>. HIDE DEF R, n, g
  <2>. QED  BY <1>2, <1>6
<1>. HIDE DEF R, g
<1>. QED  BY <1>1, <1>3, <1>6, <1>7, SortedListsAll DEF R, g

(* By rank, then by runner, then as listed.                                *)
Precedes(list) ==
    {p \in Range(list) \X Range(list) :
        \/ p[1].rank < p[2].rank
        \/ p[1].rank = p[2].rank /\ p[1].runner < p[2].runner
        \/ /\ p[1].rank = p[2].rank /\ p[1].runner = p[2].runner
           /\ Position(list, p[1]) < Position(list, p[2])}

(* Sorting by rank and runner lists each stem of a list once, in order.    *)
LEMMA OrderedAreListed ==
    ASSUME NEW list \in Seq(Stems)
    PROVE  Lists(Ordered(list), Cardinality(Range(list)), Range(list), Precedes(list))
<1>. DEFINE S == Range(list)
            R == Precedes(list)
            n == Cardinality(S)
            Before(s, t) ==
                \/ s.rank < t.rank
                \/ s.rank = t.rank /\ s.runner < t.runner
                \/ s.rank = t.rank /\ s.runner = t.runner /\ Position(list, s) < Position(list, t)
<1>1. IsFiniteSet(S) /\ S \subseteq Stems
  BY ListedStems
<1>2. \A s, t \in S : <<s, t>> \in R <=> Before(s, t)
  BY DEF Precedes
<1>3. TotallyOrders(R, S)
  <2>1. \A s \in S : Position(list, s) \in Nat /\ list[Position(list, s)] = s
    BY Positions
  <2>2. \A s \in S : s.rank \in Nat /\ s.runner \in Nat
    BY <1>1
  <2>. HIDE DEF R, S
  <2>3. ASSUME NEW x \in S, NEW y \in S, x # y
        PROVE  <<x, y>> \in R \/ <<y, x>> \in R
    <3>1. Position(list, x) # Position(list, y)
      BY <2>1, <2>3
    <3>2. Before(x, y) \/ Before(y, x)
      BY <3>1, <2>1, <2>2
    <3>. QED  BY <3>2, <1>2
  <2>4. ASSUME NEW x \in S, NEW y \in S, NEW z \in S, <<x, y>> \in R, <<y, z>> \in R
        PROVE  <<x, z>> \in R
    <3>1. Before(x, y) /\ Before(y, z)
      BY <2>4, <1>2
    <3>2. Before(x, z)
      BY <3>1, <2>1, <2>2
    <3>. QED  BY <3>2, <1>2
  <2>5. \A x \in S : <<x, x>> \notin R
    BY <2>1, <2>2, <1>2
  <2>. QED  BY <2>3, <2>4, <2>5 DEF TotallyOrders
<1>4. PICK f : Lists(f, n, S, R)
  <2>. HIDE DEF R
  <2>. QED  BY <1>1, <1>3, OrderedListExists
<1>. DEFINE Increases(g) == \A i, j \in DOMAIN g : i < j => Before(g[i], g[j])
<1>5. f \in [1 .. n -> S] /\ Increases(f)
  <2>. HIDE DEF R, n, Before
  <2>. QED  BY <1>2, <1>4 DEF Lists
<1>. DEFINE g == Ordered(list)
<1>6. g \in [1 .. n -> S] /\ Increases(g)
  <2>1. g = CHOOSE h \in [1 .. n -> S] : Increases(h)
    BY DEF Ordered, Sorted
  <2>. HIDE DEF Increases, g, n
  <2>. QED  BY <1>5, <2>1
<1>7. \A i, j \in 1 .. n : i < j => <<g[i], g[j]>> \in R
  <2>. HIDE DEF R, n, g, Before
  <2>. QED  BY <1>2, <1>6
<1>. HIDE DEF R, g
<1>. QED  BY <1>1, <1>3, <1>6, <1>7, SortedListsAll DEF R, g

(* A dump moves its stem to the end of the manifest.                       *)
LEMMA UpsertedList ==
    ASSUME NEW list \in Seq(Stems), NEW s \in Stems
    PROVE  /\ Upserted(list, s) \in Seq(Stems)
           /\ \A i \in DOMAIN Upserted(list, s) :
                  \/ i = Len(Upserted(list, s)) /\ Upserted(list, s)[i] = s
                  \/ i < Len(Upserted(list, s)) /\ Upserted(list, s)[i] \in Range(list) \ {s}
           /\ \A i, j \in DOMAIN Upserted(list, s) :
                  i < j /\ j < Len(Upserted(list, s)) =>
                      Position(list, Upserted(list, s)[i]) < Position(list, Upserted(list, s)[j])
<1>. DEFINE S == Range(list) \ {s}
            n == Cardinality(S)
            f == Those(list, S)
<1>1. IsFiniteSet(S) /\ S \subseteq Stems
  BY ListedStems, FS_Subset
<1>2. n \in Nat
  BY <1>1, FS_CardinalityType
<1>3. Lists(f, n, S, InListOrder(list))
  BY ThoseAreListed
<1>4. \A x, y : <<x, y>> \in InListOrder(list) => Position(list, x) < Position(list, y)
  BY DEF InListOrder
<1>5. Upserted(list, s) = Append(f, s)
  BY DEF Upserted
<1>. HIDE DEF S, n, f
<1>6. f \in [1 .. n -> S] /\ \A i, j \in 1 .. n : i < j => Position(list, f[i]) < Position(list, f[j])
  BY <1>3, <1>4 DEF Lists
<1>7. f \in Seq(Stems) /\ Len(f) = n
  BY <1>1, <1>2, <1>6
<1>8. /\ Append(f, s) \in Seq(Stems) /\ Len(Append(f, s)) = n + 1
      /\ DOMAIN Append(f, s) = 1 .. n + 1
      /\ \A i \in 1 .. n : Append(f, s)[i] = f[i]
      /\ Append(f, s)[n + 1] = s
  BY <1>2, <1>7, AppendProperties
<1>9. \A i \in 1 .. n + 1 : i = n + 1 \/ (i \in 1 .. n /\ i < n + 1)
  BY <1>2
<1>10. \A i \in 1 .. n : f[i] \in S
  BY <1>6
<1>. QED  BY <1>2, <1>5, <1>6, <1>8, <1>9, <1>10 DEF S

(* The rows of an artifact: for each variant its last window with it.      *)
LEMMA HighWater ==
    ASSUME NEW w \in Contents \cup {<<>>}
    PROVE  /\ DOMAIN HighWaterRows(w) = {w[i].variant : i \in DOMAIN w}
           /\ {w[i].variant : i \in DOMAIN w} \subseteq Variants
           /\ \A v \in DOMAIN HighWaterRows(w) :
                /\ HighWaterRows(w)[v] = w[Max({i \in DOMAIN w : w[i].variant = v})].bytes
                /\ HighWaterRows(w)[v] \in Nat
<1>1. DOMAIN HighWaterRows(w) = {w[i].variant : i \in DOMAIN w}
  BY DEF HighWaterRows
<1>2. Len(w) \in Nat /\ DOMAIN w = 1 .. Len(w)
  BY ContentsAssumption
<1>3. {w[i].variant : i \in DOMAIN w} \subseteq Variants
  BY <1>2 DEF Variants
<1>4. ASSUME NEW v \in DOMAIN HighWaterRows(w)
      PROVE  /\ HighWaterRows(w)[v] = w[Max({i \in DOMAIN w : w[i].variant = v})].bytes
             /\ HighWaterRows(w)[v] \in Nat
  <2>. DEFINE I == {i \in DOMAIN w : w[i].variant = v}
              last == CHOOSE i \in DOMAIN w :
                        w[i].variant = v /\ \A j \in DOMAIN w : w[j].variant = v => j <= i
  <2>1. HighWaterRows(w)[v] = w[last].bytes
    BY <1>1 DEF HighWaterRows
  <2>2. I # {} /\ I \subseteq 1 .. Len(w)
    BY <1>1, <1>2
  <2>3. PICK m \in I : \A k \in I : k <= m
    <3>. HIDE DEF I
    <3>. QED  BY <1>2, <2>2, LargestExists
  <2>4. last \in DOMAIN w /\ w[last].variant = v /\ \A j \in DOMAIN w : w[j].variant = v => j <= last
    BY <2>3
  <2>. HIDE DEF last
  <2>5. Max(I) \in I /\ \A j \in I : Max(I) >= j
    <3>1. \A k \in I : m >= k
      BY <2>3, <1>2
    <3>. HIDE DEF I
    <3>. QED  BY <3>1, <2>3 DEF Max
  <2>6. last = Max(I)
    <3>1. last \in Nat /\ Max(I) \in Nat
      BY <1>2, <2>2, <2>4, <2>5
    <3>2. last >= Max(I) /\ Max(I) >= last
      BY <2>4, <2>5, <3>1
    <3>. QED  BY <3>1, <3>2
  <2>7. w[last].bytes \in Nat
    BY <2>4, ContentsAssumption
  <2>. QED  BY <2>1, <2>6, <2>7
<1>. QED  BY <1>1, <1>3, <1>4

(* The sorted stems as a sequence.                                         *)
LEMMA OrderedSeq ==
    ASSUME NEW list \in Seq(Stems)
    PROVE  /\ Ordered(list) \in Seq(Stems) /\ Range(Ordered(list)) = Range(list)
           /\ \A i, j \in DOMAIN Ordered(list) :
                  i < j => <<Ordered(list)[i], Ordered(list)[j]>> \in Precedes(list)
<1>. DEFINE f == Ordered(list)
            S == Range(list)
            n == Cardinality(S)
<1>1. IsFiniteSet(S) /\ S \subseteq Stems
  BY ListedStems
<1>2. n \in Nat
  BY <1>1, FS_CardinalityType
<1>3. Lists(f, n, S, Precedes(list))
  BY OrderedAreListed
<1>. HIDE DEF f, S, n
<1>4. f \in [1 .. n -> S] /\ f \in Seq(Stems) /\ DOMAIN f = 1 .. n
  BY <1>1, <1>2, <1>3 DEF Lists
<1>5. {f[i] : i \in 1 .. n} = S
  BY <1>3 DEF Lists
<1>6. Range(f) = S
  BY <1>4, <1>5 DEF Range
<1>. QED  BY <1>3, <1>4, <1>6 DEF Lists, f, S

(* The picked stems as a sequence.                                         *)
LEMMA ThoseSeq ==
    ASSUME NEW list \in Seq(Stems), NEW S \in SUBSET Range(list)
    PROVE  Those(list, S) \in Seq(Stems) /\ \A i \in DOMAIN Those(list, S) : Those(list, S)[i] \in S
<1>1. IsFiniteSet(S) /\ S \subseteq Stems
  BY ListedStems, FS_Subset
<1>. DEFINE f == Those(list, S)
            n == Cardinality(S)
<1>2. n \in Nat
  BY <1>1, FS_CardinalityType
<1>3. f \in [1 .. n -> S]
  BY ThoseAreListed DEF Lists
<1>. HIDE DEF f, n
<1>4. f \in Seq(Stems) /\ \A i \in DOMAIN f : f[i] \in S
  BY <1>1, <1>2, <1>3
<1>. QED  BY <1>4 DEF f

-----------------------------------------------------------------------------
(* The rows of the first artifacts of a list.                              *)
LEMMA RebuiltNone ==
    ASSUME NEW cs, NEW list
    PROVE  Rebuilt(NoRows, cs, list, 0)
<1>1. \A r \in Ranks : DOMAIN NoRows[r] = {}
  BY DEF NoRows
<1>2. 1 .. 0 = {}
  OBVIOUS
<1>. QED  BY <1>1, <1>2 DEF Rebuilt

(* The last of some places where a rank has a variant.                     *)
LEMMA LastOwner ==
    ASSUME NEW rs, NEW cs, NEW list, NEW n \in Nat, Rebuilt(rs, cs, list, n),
           NEW r \in Ranks, NEW v \in DOMAIN rs[r]
    PROVE  \E i \in 1 .. n :
              /\ list[i].rank = r /\ v \in VariantsIn(cs[list[i]])
              /\ \A j \in i + 1 .. n : list[j].rank = r => v \notin VariantsIn(cs[list[j]])
              /\ rs[r][v] = LastIn(cs[list[i]], v).bytes
<1>. DEFINE I == {i \in 1 .. n : list[i].rank = r /\ v \in VariantsIn(cs[list[i]])}
<1>1. DOMAIN rs[r] = UNION {VariantsIn(cs[list[i]]) : i \in {j \in 1 .. n : list[j].rank = r}}
  BY DEF Rebuilt
<1>2. I # {} /\ I \subseteq 1 .. n
  BY <1>1
<1>3. PICK m \in I : \A k \in I : k <= m
  <2>. HIDE DEF I
  <2>. QED  BY <1>2, LargestExists
<1>4. \A j \in m + 1 .. n : j \in 1 .. n /\ ~(j <= m)
  BY <1>2
<1>5. \A j \in m + 1 .. n : list[j].rank = r => v \notin VariantsIn(cs[list[j]])
  BY <1>3, <1>4
<1>6. rs[r][v] = LastIn(cs[list[m]], v).bytes
  BY <1>3, <1>5 DEF Rebuilt
<1>. QED  BY <1>3, <1>5, <1>6

(* So the rows are determined by the artifacts.                            *)
LEMMA RebuiltUnique ==
    ASSUME NEW rs, NEW qs, NEW cs, NEW list, NEW n \in Nat,
           Rebuilt(rs, cs, list, n), Rebuilt(qs, cs, list, n)
    PROVE  \A r \in Ranks : DOMAIN rs[r] = DOMAIN qs[r] /\ \A v \in DOMAIN rs[r] : rs[r][v] = qs[r][v]
<1>. SUFFICES ASSUME NEW r \in Ranks
              PROVE  DOMAIN rs[r] = DOMAIN qs[r] /\ \A v \in DOMAIN rs[r] : rs[r][v] = qs[r][v]
  OBVIOUS
<1>1. DOMAIN rs[r] = DOMAIN qs[r]
  BY DEF Rebuilt
<1>2. ASSUME NEW v \in DOMAIN rs[r]
      PROVE  rs[r][v] = qs[r][v]
  <2>1. PICK i \in 1 .. n :
              /\ list[i].rank = r /\ v \in VariantsIn(cs[list[i]])
              /\ \A j \in i + 1 .. n : list[j].rank = r => v \notin VariantsIn(cs[list[j]])
              /\ rs[r][v] = LastIn(cs[list[i]], v).bytes
    BY LastOwner
  <2>2. qs[r][v] = LastIn(cs[list[i]], v).bytes
    BY <2>1 DEF Rebuilt
  <2>. QED  BY <2>1, <2>2
<1>. QED  BY <1>1, <1>2

(* Analysing one artifact more.                                            *)
LEMMA RebuiltNext ==
    ASSUME NEW rs, rs = [r \in Ranks |-> rs[r]],
           NEW cs \in [Stems -> Contents \cup {<<>>}], NEW list \in Seq(Stems),
           NEW n \in Nat, n + 1 \in DOMAIN list, Rebuilt(rs, cs, list, n)
    PROVE  LET s == list[n + 1]
           IN  Rebuilt([rs EXCEPT ![s.rank] = Merged(HighWaterRows(cs[s]), @)], cs, list, n + 1)
<1>. DEFINE s  == list[n + 1]
            hw == HighWaterRows(cs[s])
            qs == [rs EXCEPT ![s.rank] = Merged(hw, @)]
<1>1. s \in Stems /\ s.rank \in Ranks /\ cs[s] \in Contents \cup {<<>>}
  BY DEF Ranks
<1>2. DOMAIN hw = VariantsIn(cs[s]) /\ \A v \in DOMAIN hw : hw[v] = LastIn(cs[s], v).bytes
  BY <1>1, HighWater DEF VariantsIn, LastIn
<1>3. qs[s.rank] = Merged(hw, rs[s.rank]) /\ \A r \in Ranks : r # s.rank => qs[r] = rs[r]
  BY <1>1
<1>4. /\ DOMAIN qs[s.rank] = DOMAIN hw \cup DOMAIN rs[s.rank]
      /\ \A v \in DOMAIN hw : qs[s.rank][v] = hw[v]
      /\ \A v \in DOMAIN rs[s.rank] \ DOMAIN hw : qs[s.rank][v] = rs[s.rank][v]
  BY <1>3 DEF Merged
<1>5. \A i \in 1 .. n + 1 : i \in 1 .. n \/ i = n + 1
  OBVIOUS
<1>6. (\A i \in 1 .. n : i \in 1 .. n + 1 /\ n + 1 \in i + 1 .. n + 1) /\ n + 1 \in 1 .. n + 1
  OBVIOUS
<1>7. \A i \in 1 .. n : \A j \in i + 1 .. n : j \in i + 1 .. n + 1
  OBVIOUS
<1>. HIDE DEF s, hw, qs
<1>8. ASSUME NEW r \in Ranks
      PROVE  DOMAIN qs[r] = UNION {VariantsIn(cs[list[i]]) : i \in {j \in 1 .. n + 1 : list[j].rank = r}}
  <2>1. DOMAIN rs[r] = UNION {VariantsIn(cs[list[i]]) : i \in {j \in 1 .. n : list[j].rank = r}}
    BY DEF Rebuilt
  <2>2. CASE r = s.rank
    <3>1. UNION {VariantsIn(cs[list[i]]) : i \in {j \in 1 .. n + 1 : list[j].rank = r}}
             = DOMAIN hw \cup DOMAIN rs[r]
      <4>1. {j \in 1 .. n + 1 : list[j].rank = r} = {j \in 1 .. n : list[j].rank = r} \cup {n + 1}
        BY <2>2, <1>5, <1>6 DEF s
      <4>2. VariantsIn(cs[list[n + 1]]) = DOMAIN hw
        BY <1>2 DEF s
      <4>. DEFINE V(i) == VariantsIn(cs[list[i]])
                  J    == {j \in 1 .. n : list[j].rank = r}
      <4>3. UNION {V(i) : i \in J \cup {n + 1}} = V(n + 1) \cup UNION {V(i) : i \in J}
        <5>. HIDE DEF V, J
        <5>. QED  OBVIOUS
      <4>. QED  BY <4>1, <4>2, <4>3, <2>1
    <3>. QED  BY <3>1, <2>2, <1>4
  <2>3. CASE r # s.rank
    <3>1. {j \in 1 .. n + 1 : list[j].rank = r} = {j \in 1 .. n : list[j].rank = r}
      BY <2>3, <1>5, <1>6 DEF s
    <3>. QED  BY <3>1, <2>1, <2>3, <1>3
  <2>. QED  BY <2>2, <2>3
<1>9. ASSUME NEW r \in Ranks, NEW i \in 1 .. n + 1, NEW v \in VariantsIn(cs[list[i]]), list[i].rank = r,
             \A j \in i + 1 .. n + 1 : list[j].rank = r => v \notin VariantsIn(cs[list[j]])
      PROVE  qs[r][v] = LastIn(cs[list[i]], v).bytes
  <2>1. CASE i = n + 1
    BY <2>1, <1>2, <1>4, <1>9 DEF s
  <2>2. CASE i \in 1 .. n
    <3>1. rs[r][v] = LastIn(cs[list[i]], v).bytes /\ v \in DOMAIN rs[r]
      <4>1. \A j \in i + 1 .. n : list[j].rank = r => v \notin VariantsIn(cs[list[j]])
        BY <2>2, <1>7, <1>9
      <4>2. rs[r][v] = LastIn(cs[list[i]], v).bytes
        BY <2>2, <1>9, <4>1 DEF Rebuilt
      <4>3. DOMAIN rs[r] = UNION {VariantsIn(cs[list[k]]) : k \in {j \in 1 .. n : list[j].rank = r}}
        BY DEF Rebuilt
      <4>4. v \in DOMAIN rs[r]
        BY ONLY <2>2, <1>9, <4>3
      <4>. QED  BY <4>2, <4>4
    <3>2. r = s.rank => v \notin DOMAIN hw
      BY <2>2, <1>2, <1>6, <1>9 DEF s
    <3>. QED  BY <3>1, <3>2, <1>3, <1>4
  <2>. QED  BY <2>1, <2>2, <1>5
<1>10. Rebuilt(qs, cs, list, n + 1)
  BY <1>8, <1>9 DEF Rebuilt
<1>. QED  BY <1>10 DEF qs, hw, s

(* Of the dumps of one runner with a variant the newest is analysed last.  *)
LEMMA NewestRows ==
    ASSUME DirectoryOK, NEW rs, NEW list, list = Ordered(manifest),
           Rebuilt(rs, content, list, Len(list)), NEW r \in Ranks
    PROVE  LET mine == {s \in Range(manifest) : s.rank = r}
           IN  /\ DOMAIN rs[r] = UNION {VariantsIn(content[s]) : s \in mine}
               /\ \A s \in mine : \A v \in VariantsIn(content[s]) :
                       (\A t \in mine \ {s} : v \in VariantsIn(content[t]) =>
                           t.runner = s.runner /\ dumped[t] < dumped[s])
                       => rs[r][v] = LastIn(content[s], v).bytes
<1>. DEFINE mine == {s \in Range(manifest) : s.rank = r}
            n == Len(list)
<1>1. manifest \in Seq(Stems)
  BY DEF DirectoryOK
<1>2. /\ list \in Seq(Stems) /\ Range(list) = Range(manifest)
      /\ \A i, j \in DOMAIN list : i < j => <<list[i], list[j]>> \in Precedes(manifest)
  BY <1>1, OrderedSeq
<1>3. n \in Nat /\ DOMAIN list = 1 .. n
  BY <1>2
<1>4. (\A i \in 1 .. n : list[i] \in Range(manifest)) /\ \A s \in Range(manifest) : \E i \in 1 .. n : list[i] = s
  BY <1>2, <1>3 DEF Range
<1>5. \A i \in 1 .. n : \A j \in i + 1 .. n : j \in 1 .. n /\ i < j
  BY <1>3
<1>. HIDE DEF n
<1>6. DOMAIN rs[r] = UNION {VariantsIn(content[s]) : s \in mine}
  <2>1. DOMAIN rs[r] = UNION {VariantsIn(content[list[i]]) : i \in {j \in 1 .. n : list[j].rank = r}}
    BY DEF Rebuilt, n
  <2>2. {list[i] : i \in {j \in 1 .. n : list[j].rank = r}} = mine
    BY <1>4
  <2>. QED  BY <2>1, <2>2
<1>7. ASSUME NEW s \in mine, NEW v \in VariantsIn(content[s]),
             \A t \in mine \ {s} : v \in VariantsIn(content[t]) =>
                 t.runner = s.runner /\ dumped[t] < dumped[s]
      PROVE  rs[r][v] = LastIn(content[s], v).bytes
  <2>1. PICK i \in 1 .. n : list[i] = s
    BY <1>4
  <2>2. ASSUME NEW j \in i + 1 .. n, list[j].rank = r, v \in VariantsIn(content[list[j]])
        PROVE  FALSE
    <3>. DEFINE t == list[j]
    <3>1. t \in mine /\ <<s, t>> \in Precedes(manifest)
      BY <1>2, <1>3, <1>4, <1>5, <2>1, <2>2 DEF n
    <3>2. s.rank = r /\ t.rank = r /\ r \in Nat /\ s \in Range(manifest) /\ t \in Range(manifest)
      BY <3>1 DEF Ranks
    <3>3. Position(manifest, s) \in Nat /\ Position(manifest, t) \in Nat
      BY <1>1, <3>2, Positions
    <3>. HIDE DEF t
    <3>4. s.runner \in Nat /\ t.runner \in Nat
      BY <1>1, <3>2, ListedStems
    <3>5. \/ s.runner < t.runner
          \/ s.runner = t.runner /\ Position(manifest, s) < Position(manifest, t)
      BY <3>1, <3>2 DEF Precedes
    <3>6. t # s
      BY <3>3, <3>4, <3>5
    <3>7. t.runner = s.runner /\ dumped[t] < dumped[s]
      BY <3>1, <3>6, <1>7, <2>2 DEF t
    <3>8. Position(manifest, s) < Position(manifest, t)
      BY <3>4, <3>5, <3>7
    <3>9. dumped[s] < dumped[t]
      BY <3>2, <3>8, <1>1, Positions DEF DirectoryOK
    <3>10. dumped[s] \in Nat /\ dumped[t] \in Nat
      BY <1>1, <3>2, ListedStems DEF DirectoryOK
    <3>. QED  BY <3>7, <3>9, <3>10
  <2>3. rs[r][v] = LastIn(content[list[i]], v).bytes
    BY <1>7, <2>1, <2>2 DEF Rebuilt, n
  <2>. QED  BY <2>1, <2>3
<1>. QED  BY <1>6, <1>7

(* The threshold is a fraction below 1 of what was used before.            *)
LEMMA ExceedsMeans ==
    ASSUME NEW new \in Nat, NEW old \in Nat, NEW t \in Thresholds
    PROVE  Exceeds(new, old, t) <=> new * t[2] > old * (t[2] + t[1])
<1>. DEFINE p == t[1]
            q == t[2]
<1>1. p \in Nat /\ q \in Nat /\ p < q
  BY ThresholdsAssumption
<1>. HIDE DEF p, q
<1>2. CASE old = 0
  <2>1. new * q > 0 <=> new > 0
    BY <1>1
  <2>. QED  BY <2>1, <1>1, <1>2 DEF Exceeds, p, q
<1>3. CASE old # 0
  <2>1. (new - old) * q = new * q - old * q /\ old * (q + p) = old * q + old * p
    BY <1>1
  <2>2. new * q \in Nat /\ old * q \in Nat /\ old * p \in Nat
    BY <1>1
  <2>3. ASSUME ~(new > old) PROVE new * q <= old * q
    BY <1>1, <2>3
  <2>4. (new > old /\ (new - old) * q > old * p) <=> new * q > old * (q + p)
    BY <2>1, <2>2, <2>3
  <2>. QED  BY <2>4, <1>3 DEF Exceeds, p, q
<1>. QED  BY <1>2, <1>3

(* What a baseline saved from rows has in it.                              *)
LEMMA SavedRows ==
    ASSUME CommandOK
    PROVE  /\ HasBytes(BaselineRows)
           /\ \A r \in Ranks : /\ DOMAIN RowsIn(BaselineRows)[r] = DOMAIN rows[r]
                               /\ \A v \in DOMAIN rows[r] : RowsIn(BaselineRows)[r][v] = rows[r][v]
<1>1. \A r \in Ranks : DOMAIN rows[r] \subseteq Variants /\ \A v \in DOMAIN rows[r] : rows[r][v] \in Nat
  BY DEF CommandOK
<1>2. DOMAIN BaselineRows = RowIds
  <2>1. DOMAIN BaselineRows = {<<p[1], p[2]>> : p \in RowIds}
    BY DEF BaselineRows, BaselineKey
  <2>2. \A p \in RowIds : p = <<p[1], p[2]>>
    BY DEF RowIds
  <2>. QED  BY <2>1, <2>2
<1>3. ASSUME NEW k \in RowIds
      PROVE  BaselineRows[k] = rows[k[1]][k[2]] /\ k = <<k[1], k[2]>>
  <2>1. \A q \in RowIds : q = <<q[1], q[2]>>
    BY DEF RowIds
  <2>2. (CHOOSE q \in RowIds : BaselineKey(q[1], q[2]) = k) = k
    BY <2>1 DEF BaselineKey
  <2>. QED  BY <1>2, <2>1, <2>2 DEF BaselineRows
<1>4. HasBytes(BaselineRows)
  BY <1>1, <1>2, <1>3 DEF HasBytes, RowIds
<1>5. \A r \in Ranks, v \in Variants : <<r, v>> \in RowIds <=> v \in DOMAIN rows[r]
  BY DEF RowIds
<1>6. ASSUME NEW r \in Ranks
      PROVE  /\ DOMAIN RowsIn(BaselineRows)[r] = DOMAIN rows[r]
             /\ \A v \in DOMAIN rows[r] : RowsIn(BaselineRows)[r][v] = rows[r][v]
  <2>1. RowsIn(BaselineRows)[r] =
          [v \in {u \in Variants : <<r, u>> \in DOMAIN BaselineRows} |-> BaselineRows[<<r, v>>]]
    BY DEF RowsIn
  <2>2. {u \in Variants : <<r, u>> \in DOMAIN BaselineRows} = DOMAIN rows[r]
    BY <1>1, <1>2, <1>5
  <2>3. \A v \in DOMAIN rows[r] : BaselineRows[<<r, v>>] = rows[r][v]
    BY <1>1, <1>3, <1>5
  <2>. QED  BY <2>1, <2>2, <2>3
<1>. QED  BY <1>4, <1>6

(* Rows that are equal are rebuilt of the same dumps.                      *)
LEMMA RebuiltSame ==
    ASSUME NEW rs, NEW qs, NEW cs, NEW list, NEW n, Rebuilt(rs, cs, list, n),
           \A r \in Ranks : DOMAIN qs[r] = DOMAIN rs[r] /\ \A v \in DOMAIN rs[r] : qs[r][v] = rs[r][v]
    PROVE  Rebuilt(qs, cs, list, n)
<1>1. ASSUME NEW r \in Ranks
      PROVE  DOMAIN qs[r] = UNION {VariantsIn(cs[list[i]]) : i \in {j \in 1 .. n : list[j].rank = r}}
  BY DEF Rebuilt
<1>2. ASSUME NEW r \in Ranks, NEW i \in 1 .. n, NEW v \in VariantsIn(cs[list[i]]), list[i].rank = r,
             \A j \in i + 1 .. n : list[j].rank = r => v \notin VariantsIn(cs[list[j]])
      PROVE  qs[r][v] = LastIn(cs[list[i]], v).bytes
  <2>1. rs[r][v] = LastIn(cs[list[i]], v).bytes
    BY <1>2 DEF Rebuilt
  <2>2. v \in DOMAIN qs[r]
    BY <1>1, <1>2
  <2>. QED  BY <2>1, <2>2
<1>. QED  BY <1>1, <1>2 DEF Rebuilt

-----------------------------------------------------------------------------
(* The invariant, step by step.                                            *)
Promises == /\ AllOrNothing /\ RowsOfNewestDump /\ RegressionsReported
            /\ UnchangedIsNoRegression /\ SelectionNeverSilent

(* A command that is running has not broken them.                          *)
LEMMA RunningPromises == ASSUME pc' # "idle" PROVE Promises'
BY DEF Promises, AllOrNothing, RowsOfNewestDump, RegressionsReported, UnchangedIsNoRegression,
       SelectionNeverSilent, Ended

(* Nor has one that failed and restored what it found.                     *)
LEMMA FailedPromises ==
    ASSUME exit' \notin {0, 4}, cmd'.mode = "compare" => outputs' = before'
    PROVE  Promises'
BY DEF Promises, AllOrNothing, RowsOfNewestDump, RegressionsReported, UnchangedIsNoRegression,
       SelectionNeverSilent, Ended

(* No command has run yet.                                                 *)
LEMMA InitIInv == Init => IInv
<1>. SUFFICES ASSUME Init PROVE IInv
  OBVIOUS
<1>1. DirectoryOK
  BY DEF Init, DirectoryOK
<1>2. CommandOK
  <2>1. NoRows = [r \in Ranks |-> NoRows[r]] /\ \A r \in Ranks : DOMAIN NoRows[r] = {}
    BY DEF NoRows
  <2>. QED  BY <2>1 DEF Init, CommandOK
<1>3. BaselineOK
  BY BaselinesAssumption DEF Init, BaselineOK, HasBytes, outputs
<1>4. Promises
  BY DEF Init, Promises, AllOrNothing, RowsOfNewestDump, RegressionsReported,
         UnchangedIsNoRegression, SelectionNeverSilent, Ended
<1>. QED  BY <1>1, <1>2, <1>3, <1>4 DEF Init, IInv, Promises, ComparisonOK, SelectionOK

(* A dump adds a stem and touches no report.                               *)
LEMMA DumpIInv ==
    ASSUME IInv, NEW s \in Stems, Dump(s)
    PROVE  IInv'
<1>. USE DEF IInv
<1>1. DirectoryOK'
  <2>1. /\ manifest \in Seq(Stems) /\ dumps \in Nat /\ dumped \in [Stems -> 0 .. dumps]
        /\ \A i, j \in DOMAIN manifest : i < j => dumped[manifest[i]] < dumped[manifest[j]]
    BY DEF DirectoryOK
  <2>2. manifest' = Upserted(manifest, s) /\ dumps' = dumps + 1
        /\ dumped' = [dumped EXCEPT ![s] = dumps + 1]
    BY DEF Dump
  <2>3. content' \in [Stems -> Contents \cup {<<>>}]
    BY DEF DirectoryOK, Dump
  <2>4. dumps' \in Nat /\ dumped' \in [Stems -> 0 .. dumps']
    BY <2>1, <2>2
  <2>. DEFINE new == Upserted(manifest, s)
  <2>5. /\ new \in Seq(Stems)
        /\ \A i \in DOMAIN new : \/ i = Len(new) /\ new[i] = s
                                 \/ i < Len(new) /\ new[i] \in Range(manifest) \ {s}
        /\ \A i, j \in DOMAIN new :
               i < j /\ j < Len(new) => Position(manifest, new[i]) < Position(manifest, new[j])
    BY <2>1, UpsertedList
  <2>6. Len(new) \in Nat /\ DOMAIN new = 1 .. Len(new)
    BY <2>5
  <2>. HIDE DEF new
  <2>7. \A t \in Range(manifest) \ {s} : t \in Stems /\ dumped'[t] = dumped[t] /\ dumped[t] \in 0 .. dumps
    BY <2>1, <2>2, ListedStems
  <2>8. dumped'[s] = dumps + 1
    BY <2>1, <2>2
  <2>9. ASSUME NEW i \in DOMAIN new, NEW j \in DOMAIN new, i < j
        PROVE  dumped'[new[i]] < dumped'[new[j]]
    <3>1. i < Len(new) /\ new[i] \in Range(manifest) \ {s}
      BY <2>5, <2>6, <2>9
    <3>2. CASE j = Len(new) /\ new[j] = s
      BY <3>1, <3>2, <2>1, <2>7, <2>8
    <3>3. CASE j < Len(new) /\ new[j] \in Range(manifest) \ {s}
      <4>1. Position(manifest, new[i]) < Position(manifest, new[j])
        BY <3>3, <2>5, <2>9
      <4>2. dumped[new[i]] < dumped[new[j]]
        BY <2>1, <3>1, <3>3, <4>1, Positions
      <4>. QED  BY <4>2, <3>1, <3>3, <2>7
    <3>. QED  BY <3>2, <3>3, <2>5
  <2>. QED  BY <2>2, <2>3, <2>4, <2>5, <2>9 DEF DirectoryOK, new
<1>2. UNCHANGED <<outputs, progress, pc, cmd, exit, commands, before>> /\ disturbed' /\ drifted'
  BY DEF Dump
<1>3. CommandOK' /\ SelectionOK'
  BY <1>2 DEF CommandOK, SelectionOK, outputs, progress
<1>4. BaselineOK'
  BY <1>2 DEF BaselineOK, outputs
<1>5. ComparisonOK'
  BY <1>2 DEF ComparisonOK, Done, Loads, outputs, progress
<1>6. Promises'
  BY <1>2 DEF Promises, AllOrNothing, RowsOfNewestDump, RegressionsReported, UnchangedIsNoRegression,
              SelectionNeverSilent, Ended, Loads, outputs, progress
<1>. QED  BY <1>1, <1>3, <1>4, <1>5, <1>6 DEF Promises

(* Steps that neither dump nor change anything but files.                  *)
LEMMA SpoilIInv ==
    ASSUME IInv, UNCHANGED <<manifest, content, dumps, dumped, outputs, progress, pc, cmd, exit,
                             commands, before, disturbed, drifted>>
    PROVE  IInv'
<1>. USE DEF IInv
<1>1. DirectoryOK' /\ CommandOK' /\ SelectionOK'
  BY DEF DirectoryOK, CommandOK, SelectionOK, progress
<1>2. BaselineOK'
  BY DEF BaselineOK, outputs
<1>3. ComparisonOK'
  BY DEF ComparisonOK, Done, Loads, outputs, progress
<1>4. Promises'
  BY DEF Promises, AllOrNothing, RowsOfNewestDump, RegressionsReported, UnchangedIsNoRegression,
              SelectionNeverSilent, Ended, Loads, outputs, progress
<1>. QED  BY <1>1, <1>2, <1>3, <1>4 DEF Promises

(* A command begins with the files and the reports as they are.            *)
LEMMA BeginIInv ==
    ASSUME IInv, NEW c \in Commands, Begin(c)
    PROVE  IInv'
<1>. USE DEF IInv
<1>1. manifest \in Seq(Stems)
  BY DEF DirectoryOK
<1>2. Chosen(c) \in Seq(Stems) /\ (c.mode = "compare" => Chosen(c) = Ordered(manifest))
      /\ (c.mode = "select" => \A i \in DOMAIN Chosen(c) : Chosen(c)[i].rank = c.rank)
  <2>1. CASE c.mode = "compare"
    BY <1>1, <2>1, OrderedSeq DEF Chosen
  <2>2. CASE c.mode # "compare"
    <3>. DEFINE S == {s \in Range(manifest) : s.rank = c.rank}
    <3>1. Chosen(c) = Those(manifest, S)
      BY <2>2 DEF Chosen
    <3>2. Those(manifest, S) \in Seq(Stems) /\ \A i \in DOMAIN Those(manifest, S) : Those(manifest, S)[i] \in S
      BY <1>1, ThoseSeq
    <3>. QED  BY <2>2, <3>1, <3>2
  <2>. QED  BY <2>1, <2>2
<1>3. c.mode \in {"compare", "select"}
  BY DEF Commands
<1>4. /\ commands' = commands + 1 /\ cmd' = c /\ arts' = Chosen(c) /\ at' = 1 /\ seen' = {}
      /\ before' = outputs /\ disturbed' = FALSE
      /\ UNCHANGED <<directory, outputs, base, rows, drifted>> /\ pc = "idle"
  BY DEF Begin
<1>5. DirectoryOK'
  BY <1>4 DEF DirectoryOK, directory
<1>6. /\ commands' \in Nat /\ commands' > 0 /\ arts' \in Seq(Stems)
      /\ base' = NoBaseline /\ rows' = NoRows /\ UNCHANGED rows
  BY <1>2, <1>4 DEF CommandOK
<1>7. BaselineOK'
  BY <1>4 DEF BaselineOK, directory, outputs
<1>8. CASE Chosen(c) = <<>>
  <2>1. pc' = "idle" /\ exit' = 2
    BY <1>8 DEF Begin
  <2>2. CommandOK'
    BY <1>4, <1>6, <2>1 DEF CommandOK
  <2>3. Promises'
    BY <1>4, <2>1, FailedPromises DEF outputs
  <2>. QED  BY <1>5, <1>7, <2>1, <2>2, <2>3 DEF ComparisonOK, SelectionOK, Promises
<1>9. CASE Chosen(c) # <<>>
  <2>1. pc' = FirstStep(c) /\ exit' = 0
    BY <1>9 DEF Begin
  <2>2. CommandOK'
    BY <1>4, <1>6, <2>1 DEF CommandOK, FirstStep
  <2>3. Promises'
    BY <2>1, RunningPromises DEF FirstStep
  <2>4. ComparisonOK'
    <3>1. Rebuilt(NoRows, content', arts', 0)
      BY RebuiltNone
    <3>2. CASE c.mode = "compare"
      <4>1. pc' = "preflight" /\ Done' = 0
        BY <2>1, <3>2 DEF FirstStep, Done
      <4>2. seen' = {arts'[i] : i \in 1 .. Done'}
        BY <1>4, <4>1
      <4>3. arts' = Ordered(manifest') /\ Rebuilt(rows', content', arts', Done')
        BY <1>2, <1>4, <1>6, <3>1, <3>2, <4>1 DEF directory
      <4>. QED  BY <1>4, <1>9, <3>2, <4>1, <4>2, <4>3 DEF ComparisonOK, outputs
    <3>3. CASE c.mode = "select"
      BY <2>1, <3>3 DEF FirstStep, ComparisonOK
    <3>. QED  BY <1>3, <3>2, <3>3
  <2>5. SelectionOK'
    <3>1. CASE c.mode = "compare"
      BY <2>1, <3>1 DEF FirstStep, SelectionOK
    <3>2. CASE c.mode = "select"
      <4>1. at' \in 1 .. Len(arts') + 1 /\ 1 .. at' - 1 = {}
        BY <1>4, <1>6
      <4>. QED  BY <1>2, <1>4, <1>9, <3>2, <4>1 DEF SelectionOK
    <3>. QED  BY <1>3, <3>1, <3>2
  <2>. QED  BY <1>5, <1>7, <2>2, <2>3, <2>4, <2>5 DEF Promises
<1>. QED  BY <1>8, <1>9

(* A comparison that gives up has changed neither output.                  *)
LEMMA GivesUp ==
    ASSUME IInv, NEW code \in {1, 2, 3}, Exit(code), pc \in {"preflight", "analyze"},
           UNCHANGED <<directory, outputs, arts, cmd, commands, before, disturbed, drifted>>
    PROVE  IInv'
<1>. USE DEF IInv
<1>1. pc' = "idle" /\ exit' = code /\ base' = NoBaseline /\ rows' = NoRows
  BY DEF Exit
<1>2. DirectoryOK' /\ BaselineOK'
  BY DEF DirectoryOK, BaselineOK, directory, outputs
<1>3. CommandOK'
  <2>1. NoRows = [r \in Ranks |-> NoRows[r]] /\ \A r \in Ranks : DOMAIN NoRows[r] = {}
    BY DEF NoRows
  <2>. QED  BY <1>1, <2>1 DEF CommandOK
<1>4. outputs' = before'
  BY DEF ComparisonOK, outputs
<1>5. Promises'
  BY <1>1, <1>4, FailedPromises
<1>. QED  BY <1>1, <1>2, <1>3, <1>5 DEF ComparisonOK, SelectionOK, Promises

(* The preflight only removes reports that compare will write again.       *)
LEMMA PreflightIInv ==
    ASSUME IInv, Preflight
    PROVE  IInv'
<1>. USE DEF IInv
<1>1. CASE files[arts[at]] = "missing"
  BY <1>1, GivesUp DEF Preflight
<1>2. CASE files[arts[at]] # "missing"
  <2>1. /\ at' = at + 1 /\ pc = "preflight" /\ pc' = pc /\ UNCHANGED <<exit, base, rows>>
        /\ UNCHANGED <<directory, outputs, arts, seen, cmd, commands, before, disturbed, drifted>>
    BY <1>2 DEF Preflight, GoTo
  <2>2. DirectoryOK' /\ BaselineOK' /\ CommandOK'
    BY <2>1 DEF DirectoryOK, BaselineOK, CommandOK, directory, outputs
  <2>3. Promises'
    BY <2>1, RunningPromises
  <2>4. ComparisonOK'
    BY <2>1 DEF ComparisonOK, Done, Loads, directory, outputs
  <2>. QED  BY <2>1, <2>2, <2>3, <2>4 DEF SelectionOK, Promises
<1>. QED  BY <1>1, <1>2

(* The checks of the inputs read and write nothing.                        *)
LEMMA CheckInputsIInv ==
    ASSUME IInv, CheckInputs
    PROVE  IInv'
<1>. USE DEF IInv
<1>1. CASE ~InputsValid
  BY <1>1, GivesUp DEF CheckInputs
<1>2. CASE InputsValid
  <2>1. /\ at' = 1 /\ pc = "preflight" /\ pc' = "analyze" /\ UNCHANGED <<exit, rows>>
        /\ base' = IF Loads THEN baseline ELSE NoBaseline
        /\ UNCHANGED <<directory, outputs, arts, seen, cmd, commands, before, disturbed, drifted>>
    BY <1>2 DEF CheckInputs
  <2>2. DirectoryOK' /\ BaselineOK' /\ CommandOK'
    BY <2>1 DEF DirectoryOK, BaselineOK, CommandOK, directory, outputs
  <2>3. Promises'
    BY <2>1, RunningPromises
  <2>4. ComparisonOK'
    <3>1. arts \in Seq(Stems) /\ arts # <<>>
      BY <2>1 DEF CommandOK, ComparisonOK
    <3>2. 1 \in DOMAIN arts
      BY <3>1
    <3>3. Done = 0 /\ Done' = 0
      BY <2>1 DEF Done
    <3>4. Loads => baseline # NoBaseline
      BY <1>2 DEF InputsValid
    <3>. QED  BY <2>1, <3>2, <3>3, <3>4 DEF ComparisonOK, Loads, directory, outputs
  <2>. QED  BY <2>1, <2>2, <2>3, <2>4 DEF SelectionOK, Promises
<1>. QED  BY <1>1, <1>2

(* One more dump in the rows: the later one of a rank replaces its shapes. *)
LEMMA AnalyzePickleIInv ==
    ASSUME IInv, AnalyzePickle
    PROVE  IInv'
<1>. USE DEF IInv
<1>. DEFINE s == arts[at]
<1>0. pc = "analyze" /\ UNCHANGED <<directory, outputs, arts, cmd, commands, before, disturbed, drifted>>
  BY DEF AnalyzePickle
<1>1. CASE \E code \in {1, 3} : AfterFailure(code)
  BY <1>0, <1>1, GivesUp DEF AfterFailure
<1>2. CASE /\ rows' = [rows EXCEPT ![s.rank] = Merged(HighWaterRows(content[s]), @)]
           /\ seen' = seen \cup {s}
           /\ at' = at + 1
           /\ pc' = IF at = Len(arts) THEN "save" ELSE pc
           /\ UNCHANGED <<exit, base>>
  <2>1. /\ arts \in Seq(Stems) /\ at \in DOMAIN arts
        /\ content \in [Stems -> Contents \cup {<<>>}] /\ rows = [r \in Ranks |-> rows[r]]
    BY <1>0 DEF CommandOK, ComparisonOK, DirectoryOK
  <2>2. at \in Nat \ {0} /\ at \in 1 .. Len(arts) /\ Len(arts) \in Nat
    BY <2>1
  <2>3. s \in Stems /\ s.rank \in Ranks
    BY <2>1 DEF Ranks
  <2>4. DirectoryOK' /\ BaselineOK'
    BY <1>0 DEF DirectoryOK, BaselineOK, directory, outputs
  <2>5. pc' \in {"analyze", "save"}
    BY <1>0, <1>2
  <2>6. CommandOK'
    <3>. DEFINE hw == HighWaterRows(content[s])
                m  == Merged(hw, rows[s.rank])
    <3>1. content[s] \in Contents \cup {<<>>}
      BY <2>1, <2>3
    <3>2. DOMAIN hw \subseteq Variants /\ \A v \in DOMAIN hw : hw[v] \in Nat
      BY <3>1, HighWater
    <3>3. DOMAIN rows[s.rank] \subseteq Variants /\ \A v \in DOMAIN rows[s.rank] : rows[s.rank][v] \in Nat
      BY <2>3 DEF CommandOK
    <3>. HIDE DEF hw
    <3>4. DOMAIN m \subseteq Variants /\ \A v \in DOMAIN m : m[v] \in Nat
      BY <3>2, <3>3 DEF Merged
    <3>5. rows' = [rows EXCEPT ![s.rank] = m]
      BY <1>2 DEF hw
    <3>. HIDE DEF m, s
    <3>6. rows' = [r \in Ranks |-> rows'[r]] /\ rows'[s.rank] = m
          /\ \A r \in Ranks : r # s.rank => rows'[r] = rows[r]
      BY <2>1, <2>3, <3>5
    <3>7. \A r \in Ranks : DOMAIN rows'[r] \subseteq Variants /\ \A v \in DOMAIN rows'[r] : rows'[r][v] \in Nat
      BY <3>4, <3>6 DEF CommandOK
    <3>. QED  BY <1>0, <1>2, <2>5, <3>6, <3>7 DEF CommandOK
  <2>7. Promises'
    BY <2>5, RunningPromises
  <2>8. Done = at - 1 /\ Done' = at
    BY <1>0, <1>2, <2>2 DEF Done
  <2>9. ComparisonOK'
    <3>1. seen' = {arts[i] : i \in 1 .. at}
      <4>1. seen = {arts[i] : i \in 1 .. at - 1}
        BY <1>0, <2>8 DEF ComparisonOK
      <4>2. 1 .. at = (1 .. at - 1) \cup {at}
        BY <2>2
      <4>. QED  BY <1>2, <4>1, <4>2
    <3>2. ~disturbed => arts = Ordered(manifest) /\ Rebuilt(rows', content, arts, at)
      <4>1. SUFFICES ASSUME ~disturbed PROVE arts = Ordered(manifest) /\ Rebuilt(rows', content, arts, at)
        OBVIOUS
      <4>2. arts = Ordered(manifest) /\ Rebuilt(rows, content, arts, at - 1)
        BY <1>0, <2>8, <4>1 DEF ComparisonOK
      <4>3. at - 1 \in Nat /\ (at - 1) + 1 = at
        BY <2>2
      <4>4. LET t == arts[(at - 1) + 1]
            IN  Rebuilt([rows EXCEPT ![t.rank] = Merged(HighWaterRows(content[t]), @)],
                        content, arts, (at - 1) + 1)
        BY <2>1, <4>2, <4>3, RebuiltNext
      <4>. QED  BY <1>2, <4>2, <4>3, <4>4
    <3>3. /\ cmd.mode = "compare" /\ arts # <<>> /\ outputs = before
          /\ base = (IF Loads THEN before[1] ELSE NoBaseline) /\ (Loads => before[1] # NoBaseline)
      BY <1>0 DEF ComparisonOK
    <3>4. pc' = "analyze" => at' \in DOMAIN arts'
      BY <1>0, <1>2, <2>1, <2>2
    <3>. QED  BY <1>0, <1>2, <2>5, <2>8, <3>1, <3>2, <3>3, <3>4 DEF ComparisonOK, Loads, directory, outputs
  <2>. QED  BY <2>4, <2>5, <2>6, <2>7, <2>9 DEF SelectionOK, Promises
<1>. QED  BY <1>1, <1>2 DEF AnalyzePickle

(* The baseline that is saved has the rows of the command.                 *)
LEMMA SaveBaselineIInv ==
    ASSUME IInv, SaveBaseline
    PROVE  IInv'
<1>. USE DEF IInv
<1>0. /\ pc = "save" /\ pc' = "write"
      /\ UNCHANGED <<directory, report, progress, cmd, exit, commands, before, disturbed>>
      /\ IF cmd.save THEN baseline' = BaselineRows /\ drifted' = disturbed
                     ELSE UNCHANGED <<baseline, drifted>>
  BY DEF SaveBaseline
<1>1. DirectoryOK' /\ CommandOK'
  BY <1>0 DEF DirectoryOK, CommandOK, directory, progress
<1>2. Promises'
  BY <1>0, RunningPromises
<1>3. Done = Len(arts) /\ Done' = Len(arts)
  BY <1>0 DEF Done, progress
<1>4. ComparisonOK'
  BY <1>0, <1>3 DEF ComparisonOK, Loads, directory, progress, outputs
<1>5. BaselineOK'
  <2>1. CASE cmd.save
    <3>1. HasBytes(baseline')
      BY <1>0, <2>1, SavedRows
    <3>2. ASSUME ~disturbed
          PROVE  Rebuilt(RowsIn(baseline'), content, Ordered(manifest), Len(Ordered(manifest)))
      <4>1. arts = Ordered(manifest) /\ Rebuilt(rows, content, arts, Len(arts))
        BY <1>0, <1>3, <3>2 DEF ComparisonOK
      <4>2. \A r \in Ranks : /\ DOMAIN RowsIn(baseline')[r] = DOMAIN rows[r]
                             /\ \A v \in DOMAIN rows[r] : RowsIn(baseline')[r][v] = rows[r][v]
        BY <1>0, <2>1, SavedRows
      <4>. QED  BY <4>1, <4>2, RebuiltSame
    <3>. QED  BY <1>0, <2>1, <3>1, <3>2 DEF BaselineOK, directory
  <2>2. CASE ~cmd.save
    BY <1>0, <2>2 DEF BaselineOK, directory
  <2>. QED  BY <2>1, <2>2
<1>. QED  BY <1>0, <1>1, <1>2, <1>4, <1>5 DEF SelectionOK, Promises

(* The report of a comparison, and the status it exits with.               *)
LEMMA WriteReportIInv ==
    ASSUME IInv, WriteReport
    PROVE  IInv'
<1>. USE DEF IInv
<1>0. /\ pc = "write" /\ pc' = "idle" /\ report' = rows
      /\ exit' = IF Loads /\ Regressions # {} THEN 4 ELSE 0
      /\ base' = NoBaseline /\ rows' = NoRows
      /\ UNCHANGED <<directory, baseline, arts, at, seen, cmd, commands, before, disturbed, drifted>>
  BY DEF WriteReport, Exit
<1>1. DirectoryOK' /\ BaselineOK'
  BY <1>0 DEF DirectoryOK, BaselineOK, directory
<1>2. CommandOK'
  <2>1. NoRows = [r \in Ranks |-> NoRows[r]] /\ \A r \in Ranks : DOMAIN NoRows[r] = {}
    BY DEF NoRows
  <2>. QED  BY <1>0, <2>1 DEF CommandOK
<1>3. /\ cmd.mode = "compare" /\ arts # <<>> /\ arts \in Seq(Stems) /\ cmd \in Commands
      /\ ~disturbed => arts = Ordered(manifest) /\ Rebuilt(rows, content, arts, Len(arts))
      /\ seen = {arts[i] : i \in 1 .. Len(arts)}
      /\ base = (IF Loads THEN before[1] ELSE NoBaseline) /\ (Loads => before[1] # NoBaseline)
  BY <1>0 DEF ComparisonOK, CommandOK, Done
<1>4. \A r \in Ranks : DOMAIN rows[r] \subseteq Variants /\ \A v \in DOMAIN rows[r] : rows[r][v] \in Nat
  BY DEF CommandOK
<1>5. Loads => cmd.load \in Thresholds
  BY <1>3 DEF Commands, Loads
<1>6. Loads => base = before[1] /\ \A k \in DOMAIN base : base[k] \in Nat
  BY <1>3 DEF BaselineOK, HasBytes
<1>7. AllOrNothing'
  <2>1. Range(arts) = {arts[i] : i \in 1 .. Len(arts)}
    BY <1>3 DEF Range
  <2>. QED  BY <1>0, <1>3, <2>1 DEF AllOrNothing, Ended
<1>8. RowsOfNewestDump'
  <2>1. SUFFICES ASSUME ~disturbed PROVE RowsOfNewestDump'
    BY <1>0 DEF RowsOfNewestDump
  <2>2. \A r \in Ranks :
            LET mine == {s \in Range(manifest) : s.rank = r}
            IN  /\ DOMAIN rows[r] = UNION {VariantsIn(content[s]) : s \in mine}
                /\ \A s \in mine : \A v \in VariantsIn(content[s]) :
                        (\A t \in mine \ {s} : v \in VariantsIn(content[t]) =>
                            t.runner = s.runner /\ dumped[t] < dumped[s])
                        => rows[r][v] = LastIn(content[s], v).bytes
    BY <1>3, <2>1, NewestRows
  <2>. QED  BY <1>0, <2>2 DEF RowsOfNewestDump, directory
<1>9. RegressionsReported'
  <2>. DEFINE Beyond(r, v) == /\ <<r, v>> \in DOMAIN before[1]
                              /\ rows[r][v] * cmd.load[2]
                                     > before[1][<<r, v>>] * (cmd.load[2] + cmd.load[1])
  <2>0. (Loads => ((Regressions # {}) <=> \E r \in Ranks : \E v \in DOMAIN rows[r] : Beyond(r, v)))
          => RegressionsReported'
    <3>1. exit' = 4 <=> Loads /\ Regressions # {}
      BY <1>0
    <3>2. /\ Loads' = Loads /\ report' = rows /\ before' = before /\ cmd' = cmd
          /\ DOMAIN before' = DOMAIN before
      BY <1>0 DEF Loads
    <3>. HIDE DEF Regressions, Loads
    <3>. QED  BY <3>1, <3>2 DEF RegressionsReported
  <2>1. SUFFICES ASSUME Loads
                 PROVE  (Regressions # {}) <=> \E r \in Ranks : \E v \in DOMAIN rows[r] : Beyond(r, v)
    BY <2>0
  <2>2. ASSUME NEW r \in Ranks, NEW v \in DOMAIN rows[r], <<r, v>> \in DOMAIN base
        PROVE  Exceeds(rows[r][v], base[<<r, v>>], cmd.load) <=>
                  rows[r][v] * cmd.load[2] > before[1][<<r, v>>] * (cmd.load[2] + cmd.load[1])
    <3>1. rows[r][v] \in Nat /\ base[<<r, v>>] \in Nat /\ cmd.load \in Thresholds /\ base = before[1]
      BY <1>4, <1>5, <1>6, <2>1, <2>2
    <3>. QED  BY <3>1, ExceedsMeans
  <2>3. Regressions = {p \in RowIds : <<p[1], p[2]>> \in DOMAIN base /\
                                      Exceeds(rows[p[1]][p[2]], base[<<p[1], p[2]>>], cmd.load)}
    BY DEF Regressions, BaselineKey
  <2>4. ASSUME NEW p \in Regressions
        PROVE  \E r \in Ranks : \E v \in DOMAIN rows[r] :
                  /\ <<r, v>> \in DOMAIN before[1]
                  /\ rows[r][v] * cmd.load[2] > before[1][<<r, v>>] * (cmd.load[2] + cmd.load[1])
    <3>1. /\ p[1] \in Ranks /\ p[2] \in DOMAIN rows[p[1]] /\ <<p[1], p[2]>> \in DOMAIN base
          /\ Exceeds(rows[p[1]][p[2]], base[<<p[1], p[2]>>], cmd.load)
      BY <2>3 DEF RowIds
    <3>2. rows[p[1]][p[2]] * cmd.load[2] > before[1][<<p[1], p[2]>>] * (cmd.load[2] + cmd.load[1])
      BY <2>2, <3>1
    <3>. QED  BY <3>1, <3>2, <1>6, <2>1
  <2>5. ASSUME NEW r \in Ranks, NEW v \in DOMAIN rows[r], <<r, v>> \in DOMAIN before[1],
               rows[r][v] * cmd.load[2] > before[1][<<r, v>>] * (cmd.load[2] + cmd.load[1])
        PROVE  Regressions # {}
    <3>1. <<r, v>> \in DOMAIN base /\ Exceeds(rows[r][v], base[<<r, v>>], cmd.load)
      BY <1>6, <2>1, <2>2, <2>5
    <3>2. <<r, v>> \in RowIds
      BY <1>4 DEF RowIds
    <3>. QED  BY <2>3, <3>1, <3>2
  <2>. QED  BY <2>4, <2>5
<1>10. UnchangedIsNoRegression'
  <2>1. SUFFICES ASSUME ~drifted, before[1] = baseline, Loads, NEW p \in Regressions PROVE FALSE
    BY <1>0 DEF UnchangedIsNoRegression
  <2>. DEFINE r == p[1]
              v == p[2]
  <2>2. /\ r \in Ranks /\ v \in DOMAIN rows[r] /\ <<r, v>> \in DOMAIN base
        /\ Exceeds(rows[r][v], base[<<r, v>>], cmd.load)
    BY DEF Regressions, RowIds, BaselineKey
  <2>3. arts \in Seq(Stems) /\ Len(arts) \in Nat
    BY <1>3
  <2>4. Rebuilt(rows, content, arts, Len(arts)) /\ Rebuilt(RowsIn(baseline), content, arts, Len(arts))
    BY <1>3, <2>1 DEF BaselineOK
  <2>5. rows[r][v] = RowsIn(baseline)[r][v]
    BY <2>2, <2>3, <2>4, RebuiltUnique
  <2>6. RowsIn(baseline)[r][v] = base[<<r, v>>]
    <3>1. v \in Variants /\ base = baseline
      BY <1>4, <1>6, <2>1, <2>2
    <3>. QED  BY <2>2, <3>1 DEF RowsIn
  <2>7. rows[r][v] \in Nat
    BY <1>4, <2>2
  <2>. HIDE DEF r, v
  <2>. QED  BY <2>2, <2>5, <2>6, <2>7 DEF Exceeds
<1>11. SelectionNeverSilent'
  BY <1>0, <1>3 DEF SelectionNeverSilent, Ended
<1>. QED  BY <1>0, <1>1, <1>2, <1>7, <1>8, <1>9, <1>10, <1>11 DEF ComparisonOK, SelectionOK

(* A selection analyzes one more of its stems.                             *)
LEMMA RunOneIInv ==
    ASSUME IInv, RunOne
    PROVE  IInv'
<1>. USE DEF IInv
<1>. DEFINE s == arts[at]
<1>0. /\ pc = "select" /\ at <= Len(arts)
      /\ UNCHANGED <<directory, outputs, arts, cmd, commands, before, disturbed, drifted>>
  BY DEF RunOne
<1>1. DirectoryOK' /\ BaselineOK'
  BY <1>0 DEF DirectoryOK, BaselineOK, directory, outputs
<1>2. /\ cmd.mode = "select" /\ arts # <<>> /\ at \in 1 .. Len(arts) + 1
      /\ \A i \in DOMAIN arts : arts[i].rank = cmd.rank
      /\ seen \subseteq {arts[i] : i \in 1 .. at - 1}
      /\ exit = 0 => seen = {arts[i] : i \in 1 .. at - 1}
  BY <1>0 DEF SelectionOK
<1>3. Len(arts) \in Nat /\ at \in Nat \ {0}
  BY <1>2 DEF CommandOK
<1>4. at + 1 \in 1 .. Len(arts) + 1 /\ 1 .. (at + 1) - 1 = (1 .. at - 1) \cup {at}
  BY <1>0, <1>3
<1>5. CASE seen' = seen \cup {s} /\ at' = at + 1 /\ GoTo(pc)
  <2>1. CommandOK' /\ pc' = "select"
    BY <1>0, <1>5 DEF CommandOK, GoTo
  <2>2. SelectionOK'
    BY <1>0, <1>2, <1>4, <1>5 DEF SelectionOK, GoTo
  <2>. QED  BY <1>1, <2>1, <2>2, RunningPromises DEF ComparisonOK, Promises
<1>6. CASE exit' = FirstError(ErrorOf(s)) /\ at' = at + 1 /\ UNCHANGED <<pc, base, rows, seen>>
  <2>1. exit' \in Nat /\ exit' # 0
    BY <1>6 DEF FirstError, ErrorOf, CommandOK
  <2>2. CommandOK'
    BY <1>0, <1>6, <2>1 DEF CommandOK
  <2>3. SelectionOK'
    BY <1>0, <1>2, <1>4, <1>6, <2>1 DEF SelectionOK
  <2>. QED  BY <1>0, <1>1, <1>6, <2>2, <2>3, RunningPromises DEF ComparisonOK, Promises
<1>7. CASE Exit(1)
  <2>1. pc' = "idle" /\ exit' = 1 /\ base' = NoBaseline /\ rows' = NoRows
    BY <1>7 DEF Exit
  <2>2. CommandOK'
    <3>1. NoRows = [r \in Ranks |-> NoRows[r]] /\ \A r \in Ranks : DOMAIN NoRows[r] = {}
      BY DEF NoRows
    <3>. QED  BY <1>0, <2>1, <3>1 DEF CommandOK
  <2>3. Promises'
    BY <1>0, <1>2, <2>1, FailedPromises
  <2>. QED  BY <1>1, <2>1, <2>2, <2>3 DEF ComparisonOK, SelectionOK, Promises
<1>. QED  BY <1>5, <1>6, <1>7 DEF RunOne

(* A selection has analyzed its stems or says so.                          *)
LEMMA EndSelectionIInv ==
    ASSUME IInv, EndSelection
    PROVE  IInv'
<1>. USE DEF IInv
<1>0. /\ pc = "select" /\ at > Len(arts)
      /\ pc' = "idle" /\ exit' = (IF seen = {} THEN FirstError(2) ELSE exit)
      /\ base' = NoBaseline /\ rows' = NoRows
      /\ UNCHANGED <<directory, outputs, arts, at, seen, cmd, commands, before, disturbed, drifted>>
  BY DEF EndSelection, Exit
<1>1. DirectoryOK' /\ BaselineOK'
  BY <1>0 DEF DirectoryOK, BaselineOK, directory, outputs
<1>2. /\ cmd.mode = "select" /\ arts # <<>> /\ at \in 1 .. Len(arts) + 1
      /\ \A i \in DOMAIN arts : arts[i].rank = cmd.rank
      /\ exit = 0 => seen = {arts[i] : i \in 1 .. at - 1}
  BY <1>0 DEF SelectionOK
<1>3. arts \in Seq(Stems) /\ exit \in Nat
  BY DEF CommandOK
<1>4. CommandOK'
  <2>1. NoRows = [r \in Ranks |-> NoRows[r]] /\ \A r \in Ranks : DOMAIN NoRows[r] = {}
    BY DEF NoRows
  <2>2. exit' \in Nat
    BY <1>0, <1>3 DEF FirstError
  <2>. QED  BY <1>0, <2>1, <2>2 DEF CommandOK
<1>5. SelectionNeverSilent'
  <2>1. SUFFICES ASSUME exit' = 0
                 PROVE  seen = Range(arts) /\ seen # {} /\ \A s \in seen : s.rank = cmd.rank
    BY <1>0 DEF SelectionNeverSilent
  <2>2. exit = 0 /\ seen # {}
    BY <1>0, <2>1 DEF FirstError
  <2>3. at - 1 = Len(arts)
    BY <1>0, <1>2, <1>3
  <2>4. seen = {arts[i] : i \in 1 .. Len(arts)}
    BY <1>2, <2>2, <2>3
  <2>. QED  BY <1>2, <1>3, <2>2, <2>4 DEF Range
<1>6. AllOrNothing' /\ RowsOfNewestDump' /\ RegressionsReported' /\ UnchangedIsNoRegression'
  BY <1>0, <1>2 DEF AllOrNothing, RowsOfNewestDump, RegressionsReported, UnchangedIsNoRegression, Ended
<1>. QED  BY <1>0, <1>1, <1>4, <1>5, <1>6 DEF ComparisonOK, SelectionOK

(* Every step keeps the invariant.                                         *)
LEMMA NextIInv == IInv /\ [Next]_vars => IInv'
<1>. SUFFICES ASSUME IInv, [Next]_vars
              PROVE  IInv'
  OBVIOUS
<1>1. CASE \E s \in Stems : Dump(s)
  BY <1>1, DumpIInv
<1>2. CASE \E s \in Stems : Spoil(s)
  BY <1>2, SpoilIInv DEF Spoil
<1>3. CASE \E c \in Commands : Begin(c)
  BY <1>3, BeginIInv
<1>4. CASE Preflight \/ CheckInputs \/ AnalyzePickle \/ SaveBaseline \/ WriteReport
  BY <1>4, PreflightIInv, CheckInputsIInv, AnalyzePickleIInv, SaveBaselineIInv, WriteReportIInv
<1>5. CASE RunOne \/ EndSelection
  BY <1>5, RunOneIInv, EndSelectionIInv
<1>6. CASE UNCHANGED vars
  BY <1>6, SpoilIInv DEF vars, directory
<1>. QED  BY <1>1, <1>2, <1>3, <1>4, <1>5, <1>6 DEF Next

(* In every state the invariant holds: a command has the rows of the dumps *)
(* it has read so far, and one that ended has kept its promises.           *)
THEOREM Invariance == Spec => []IInv
BY InitIInv, NextIInv, PTL DEF Spec

-----------------------------------------------------------------------------
(* A compare-ranks that fails has written neither file, however late it    *)
(* notices; one that ends has analysed every artifact it found listed      *)
(* (analyzer.py, _run_compare_ranks).                                      *)
THEOREM CompareIsAllOrNothing == Spec => []AllOrNothing
<1>1. IInv => AllOrNothing
  BY DEF IInv
<1>. QED  BY <1>1, Invariance, PTL

(* A rank's row is that of the newest dump with the variant, whichever     *)
(* processes dumped it and however the manifest was re-ordered.            *)
THEOREM NewestDumpWins == Spec => []RowsOfNewestDump
<1>1. IInv => RowsOfNewestDump
  BY DEF IInv
<1>. QED  BY <1>1, Invariance, PTL

(* Exit code 4 if and only if a row of the report exceeds what the         *)
(* baseline was before the command by more than the threshold.             *)
THEOREM RegressionsAreReported == Spec => []RegressionsReported
<1>1. IInv => RegressionsReported
  BY DEF IInv
<1>. QED  BY <1>1, Invariance, PTL

(* A baseline saved from artifacts that are still there finds no           *)
(* regression in them, in whatever order the runs and the dumps happen.    *)
THEOREM OwnBaselinePasses == Spec => []UnchangedIsNoRegression
<1>1. IInv => UnchangedIsNoRegression
  BY DEF IInv
<1>. QED  BY <1>1, Invariance, PTL

(* Selecting a rank succeeds only if all of its artifacts, at least one,   *)
(* were analysed (analyzer.py, _run_artifact_dir).                         *)
THEOREM SelectionIsNeverSilent == Spec => []SelectionNeverSilent
<1>1. IInv => SelectionNeverSilent
  BY DEF IInv
<1>. QED  BY <1>1, Invariance, PTL

=============================================================================
