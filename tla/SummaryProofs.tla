--------------------------- MODULE SummaryProofs ---------------------------
(***************************************************************************)
(* The store of events and summaries refuses to open only when a file of   *)
(* its holds what a pending commit did not expect, hides no gap, keeps     *)
(* what it acknowledged and overlooks no event, and it implements the      *)
(* abstract ledger: for any number of events, windows, batches, crashes    *)
(* and edits, and for every shape of the tree.                             *)
(***************************************************************************)
EXTENDS SummaryProperties, FiniteSetTheorems, WellFoundedInduction, TLAPS

-----------------------------------------------------------------------------
(* Induction, and what a set of numbers adds up to. *)

LEMMA Induct ==
    ASSUME NEW good, NEW n \in Nat, 0 \in good, \A k \in 0..n : k \in good /\ k < n => k + 1 \in good
    PROVE  \A k \in 0..n : k \in good
<1> SUFFICES ASSUME NEW m \in 0..n, m \notin good
             PROVE  FALSE
  OBVIOUS
<1> DEFINE bad == {k \in Nat : k <= n /\ k \notin good}
           R == OpToRel(<, Nat)
<1>1. bad \in SUBSET Nat /\ bad # {}
  OBVIOUS
<1>2. IsWellFoundedOn(R, Nat)
  BY NatLessThanWellFounded
<1>3. \A y \in Nat, x \in Nat : y < x => <<y, x>> \in R
  BY DEF OpToRel
<1> HIDE DEF R
<1>4. PICK least \in bad : \A y \in bad : ~(<<y, least>> \in R)
  <2> HIDE DEF bad
  <2> QED
    BY <1>1, <1>2, WFMin
<1>5. least \in Nat /\ least <= n /\ least \notin good /\ least # 0
  BY <1>4
<1>6. least - 1 \in 0..n /\ least - 1 < least /\ least - 1 < n
  BY <1>5
<1>7. least - 1 \notin bad
  BY <1>3, <1>4, <1>5, <1>6
<1>8. least - 1 \in good
  BY <1>6, <1>7
<1> QED
  BY <1>5, <1>6, <1>8

-----------------------------------------------------------------------------
(* The way from a fragment up the tree. *)

Climbs(h, f, t) == h = [s \in -1..t |-> IF s = -1 THEN f ELSE <<s, h[s - 1][2] \div Arity(s)>>]

LEMMA ClimbExists ==
    ASSUME NEW f, NEW m \in Nat
    PROVE  \E h : Climbs(h, f, m - 1)
<1> DEFINE Up(h, s) == <<s, h[s - 1][2] \div Arity(s)>>
           Way(h, n) == h = [s \in -1..(n - 1) |-> IF s = -1 THEN f ELSE Up(h, s)]
           good == {n \in 0..m : \E h : Way(h, n)}
<1>1. 0 \in good
  <2>1. Way([s \in -1..(0 - 1) |-> f], 0)
    <3> HIDE DEF Up
    <3> QED
      OBVIOUS
  <2> HIDE DEF Way
  <2> QED
    BY <2>1
<1>2. ASSUME NEW n \in 0..m, n \in good, n < m
      PROVE  n + 1 \in good
  <2>1. PICK h : h = [s \in -1..(n - 1) |-> IF s = -1 THEN f ELSE Up(h, s)]
    BY <1>2
  <2> DEFINE g == [s \in -1..(n + 1 - 1) |-> IF s = -1 THEN f ELSE Up(h, s)]
  <2>2. \A s \in -1..(n - 1) : g[s] = h[s]
    <3> HIDE DEF Up
    <3> QED
      BY <2>1
  <2>3. \A s \in -1..(n + 1 - 1) : s # -1 => Up(h, s) = Up(g, s)
    <3>1. \A s \in -1..(n + 1 - 1) : s # -1 => s - 1 \in -1..(n - 1)
      OBVIOUS
    <3> HIDE DEF g
    <3> QED
      BY <2>2, <3>1
  <2>4. Way(g, n + 1)
    <3> HIDE DEF Up
    <3> QED
      BY <2>3
  <2>5. n + 1 \in 0..m
    BY <1>2
  <2> HIDE DEF Way, g
  <2> QED
    BY <2>4, <2>5
<1>3. m \in good
  <2> HIDE DEF good
  <2> QED
    BY <1>1, <1>2, Induct
<1> QED
  BY <1>3 DEF Climbs

LEMMA ClimbsAgree ==
    ASSUME NEW f, NEW m \in Nat, NEW g, Climbs(g, f, m - 1), NEW h, Climbs(h, f, m)
    PROVE  \A s \in -1..(m - 1) : g[s] = h[s]
<1> DEFINE good == {n \in 0..m : g[n - 1] = h[n - 1]}
<1>1. /\ \A s \in -1..(m - 1) : g[s] = IF s = -1 THEN f ELSE <<s, g[s - 1][2] \div Arity(s)>>
      /\ \A s \in -1..m : h[s] = IF s = -1 THEN f ELSE <<s, h[s - 1][2] \div Arity(s)>>
  BY DEF Climbs
<1>2. 0 \in good
  <2>1. 0 - 1 = -1 /\ -1 \in -1..(m - 1) /\ -1 \in -1..m /\ 0 \in 0..m
    OBVIOUS
  <2>2. g[-1] = f /\ h[-1] = f
    BY <1>1, <2>1
  <2> QED
    BY <2>1, <2>2
<1>3. ASSUME NEW n \in 0..m, n \in good, n < m
      PROVE  n + 1 \in good
  <2>1. n + 1 - 1 = n /\ n \in -1..(m - 1) /\ n \in -1..m /\ n # -1 /\ n + 1 \in 0..m
    BY <1>3
  <2>2. g[n] = <<n, g[n - 1][2] \div Arity(n)>> /\ h[n] = <<n, h[n - 1][2] \div Arity(n)>>
    BY <1>1, <2>1
  <2> QED
    BY <1>3, <2>1, <2>2
<1>4. \A n \in 0..m : n \in good
  <2> HIDE DEF good
  <2> QED
    BY <1>2, <1>3, Induct
<1>5. \A s \in -1..(m - 1) : s + 1 \in 0..m /\ (s + 1) - 1 = s
  OBVIOUS
<1> QED
  BY <1>4, <1>5

LEMMA AncestorSteps ==
    ASSUME NEW f, NEW t \in Nat
    PROVE  /\ AncestorAt(f, -1) = f
           /\ AncestorAt(f, t) = <<t, AncestorAt(f, t - 1)[2] \div Arity(t)>>
<1>1. \A m \in Nat : \E h : Climbs(h, f, m - 1) /\ AncestorAt(f, m - 1) = h[m - 1]
  <2> SUFFICES ASSUME NEW m \in Nat
               PROVE  \E h : Climbs(h, f, m - 1) /\ AncestorAt(f, m - 1) = h[m - 1]
    OBVIOUS
  <2> DEFINE h == CHOOSE h : Climbs(h, f, m - 1)
  <2>1. Climbs(h, f, m - 1)
    BY ClimbExists
  <2>2. AncestorAt(f, m - 1) = h[m - 1]
    BY DEF AncestorAt, Climbs
  <2> QED
    BY <2>1, <2>2
<1>2. PICK low : Climbs(low, f, -1) /\ AncestorAt(f, -1) = low[-1]
  <2>1. 0 - 1 = -1 /\ 0 \in Nat
    OBVIOUS
  <2> QED
    BY <1>1, <2>1
<1>3. PICK g : Climbs(g, f, t - 1) /\ AncestorAt(f, t - 1) = g[t - 1]
  BY <1>1
<1>4. PICK h : Climbs(h, f, t) /\ AncestorAt(f, t) = h[t]
  <2>1. t + 1 \in Nat /\ (t + 1) - 1 = t
    OBVIOUS
  <2> QED
    BY <1>1, <2>1
<1>5. low[-1] = f
  BY <1>2 DEF Climbs
<1>6. h[t] = <<t, h[t - 1][2] \div Arity(t)>>
  BY <1>4 DEF Climbs
<1>7. g[t - 1] = h[t - 1]
  <2>1. t - 1 \in -1..(t - 1)
    OBVIOUS
  <2> QED
    BY <1>3, <1>4, <2>1, ClimbsAgree
<1> QED
  BY <1>2, <1>3, <1>4, <1>5, <1>6, <1>7

-----------------------------------------------------------------------------
(* What lies below a unit. *)

LEMMA FragmentsFinite ==
    ASSUME NEW n \in Nat
    PROVE  IsFiniteSet(Fragments(n))
<1> DEFINE f == [i \in 0..(n - 1) |-> <<-1, i>>]
<1>1. Fragments(n) = {<<-1, i>> : i \in 0..(n - 1)}
  BY DEF Fragments, Tier, Width
<1>2. f \in Surjection(0..(n - 1), Fragments(n))
  BY <1>1 DEF Surjection
<1> QED
  BY <1>2, FS_Surjection, FS_Interval

LEMMA UnitIsNode ==
    ASSUME NEW n, NEW node \in Nodes(n)
    PROVE  node[1] \in Nat /\ node[2] \in Nat /\ node = <<node[1], node[2]>>
<1>1. PICK t \in 0..Top(n) : node \in Tier(n, t)
  BY DEF Nodes
<1>2. PICK i \in 0..(Width(n, t) - 1) : node = <<t, i>>
  BY <1>1 DEF Tier
<1> QED
  BY <1>2

LEMMA BelowIsChild ==
    ASSUME NEW n, NEW node \in Nodes(n), NEW c \in Below(n, node)
    PROVE  /\ c[1] = node[1] - 1 /\ c = <<c[1], c[2]>>
           /\ c[2] \div Arity(node[1]) = node[2]
<1>1. node[1] \in Nat
  BY UnitIsNode
<1> QED
  BY <1>1 DEF Below, Tier

LEMMA ArityPositive == \A t : Arity(t) \in Nat \ {0}
BY TreeAssumption DEF Arity

\* The fragments below a child are below its parent, and below no other child.
LEMMA BelowParent ==
    ASSUME NEW n \in Nat, NEW node \in Nodes(n), NEW c \in Below(n, node),
           NEW f \in FragmentsBelow(n, c)
    PROVE  f \in FragmentsBelow(n, node) /\ AncestorAt(f, node[1] - 1) = c
<1>1. node[1] \in Nat /\ node = <<node[1], node[2]>>
  BY UnitIsNode
<1>2. c[1] = node[1] - 1 /\ c[2] \div Arity(node[1]) = node[2]
  BY BelowIsChild
<1>3. f \in Fragments(n) /\ AncestorAt(f, node[1] - 1) = c
  BY <1>2 DEF FragmentsBelow
<1>4. AncestorAt(f, node[1]) = <<node[1], c[2] \div Arity(node[1])>>
  BY <1>1, <1>3, AncestorSteps
<1> QED
  BY <1>1, <1>2, <1>3, <1>4 DEF FragmentsBelow

-----------------------------------------------------------------------------
(* A receipt counts no more than lies below its unit. *)

SumsTo(h, b, n, missing, m) ==
    h = [k \in 0..m |-> IF k = 0 THEN 0 ELSE h[k - 1] + Inherited(b, n, missing, Child(n, k - 1))]

LEMMA SumExists ==
    ASSUME NEW b, NEW n, NEW missing, NEW m \in Nat
    PROVE  \E h : SumsTo(h, b, n, missing, m)
<1> DEFINE Plus(h, k) == h[k - 1] + Inherited(b, n, missing, Child(n, k - 1))
           Way(h, k) == h = [j \in 0..k |-> IF j = 0 THEN 0 ELSE Plus(h, j)]
           good == {k \in 0..m : \E h : Way(h, k)}
<1>1. 0 \in good
  <2>1. Way([j \in 0..0 |-> 0], 0)
    <3> HIDE DEF Plus
    <3> QED
      OBVIOUS
  <2> HIDE DEF Way
  <2> QED
    BY <2>1
<1>2. ASSUME NEW k \in 0..m, k \in good, k < m
      PROVE  k + 1 \in good
  <2>1. PICK h : h = [j \in 0..k |-> IF j = 0 THEN 0 ELSE Plus(h, j)]
    BY <1>2
  <2> DEFINE g == [j \in 0..(k + 1) |-> IF j = 0 THEN 0 ELSE Plus(h, j)]
  <2>2. \A j \in 0..k : g[j] = h[j]
    <3> HIDE DEF Plus
    <3> QED
      BY <2>1
  <2>3. \A j \in 0..(k + 1) : j # 0 => Plus(h, j) = Plus(g, j)
    <3>1. \A j \in 0..(k + 1) : j # 0 => j - 1 \in 0..k
      OBVIOUS
    <3> HIDE DEF g
    <3> QED
      BY <2>2, <3>1
  <2>4. Way(g, k + 1)
    <3> HIDE DEF Plus
    <3> QED
      BY <2>3
  <2>5. k + 1 \in 0..m
    BY <1>2
  <2> HIDE DEF Way, g
  <2> QED
    BY <2>4, <2>5
<1>3. m \in good
  <2> HIDE DEF good
  <2> QED
    BY <1>1, <1>2, Induct
<1> QED
  BY <1>3 DEF SumsTo

Lies(b, c) == Cardinality(FragmentsBelow(Count(b), c))

LEMMA ChildrenDiffer ==
    ASSUME NEW n, NEW j \in Nat, NEW k \in Nat, n[2] \in Nat, Child(n, j) = Child(n, k)
    PROVE  j = k
<1>1. n[2] * Arity(n[1]) \in Nat
  BY ArityPositive
<1> DEFINE base == n[2] * Arity(n[1])
<1>2. base + j = base + k
  BY DEF Child
<1> HIDE DEF base
<1> QED
  BY <1>1, <1>2 DEF base

LEMMA CountBounded ==
    ASSUME NEW b, NEW n \in Units(b), NEW missing, Count(b) \in Nat,
           \A c \in Below(Count(b), n) : Inherited(b, n, missing, c) \in 0..Lies(b, c)
    PROVE  MissingCount(b, n, missing) \in 0..Lies(b, n)
<1> DEFINE N == Count(b)
           m == Arity(n[1])
           Upto(k) == {f \in FragmentsBelow(N, n) :
                         \E j \in 0..(k - 1) : AncestorAt(f, n[1] - 1) = Child(n, j)}
<1>1. m \in Nat /\ n \in Nodes(N) /\ N \in Nat
  BY ArityPositive DEF Units
<1>2. IsFiniteSet(FragmentsBelow(N, n)) /\ \A c : IsFiniteSet(FragmentsBelow(N, c))
  <2>1. \A c : FragmentsBelow(N, c) \in SUBSET Fragments(N)
    BY DEF FragmentsBelow
  <2> QED
    BY <1>1, <2>1, FragmentsFinite, FS_Subset
<1>3. \A k : IsFiniteSet(Upto(k)) /\ Cardinality(Upto(k)) \in Nat
             /\ Cardinality(Upto(k)) <= Lies(b, n)
  <2>1. \A k : Upto(k) \in SUBSET FragmentsBelow(N, n)
    OBVIOUS
  <2> HIDE DEF Upto
  <2> QED
    BY <1>2, <2>1, FS_Subset, FS_CardinalityType DEF Lies
<1> DEFINE h == CHOOSE h : SumsTo(h, b, n, missing, m)
<1>4. SumsTo(h, b, n, missing, m)
  BY <1>1, SumExists
<1>5. MissingCount(b, n, missing) = h[m]
  BY DEF MissingCount, SumsTo
<1> HIDE DEF h
<1> DEFINE good == {k \in 0..m : h[k] \in 0..Cardinality(Upto(k))}
<1>6. 0 \in good
  <2>1. h[0] = 0
    BY <1>1, <1>4 DEF SumsTo
  <2> HIDE DEF Upto
  <2> QED
    BY <1>1, <1>3, <2>1
<1>7. ASSUME NEW k \in 0..m, k \in good, k < m
      PROVE  k + 1 \in good
  <2> DEFINE c == Child(n, k)
             more == Inherited(b, n, missing, c)
  <2>1. k + 1 \in 0..m /\ k \in Nat /\ (k + 1) - 1 = k /\ k + 1 # 0
    <3> HIDE DEF good, m
    <3> QED
      BY <1>1, <1>7
  <2>2. h[k + 1] = h[k] + more
    BY <1>4, <2>1 DEF SumsTo
  <2>3. h[k] \in 0..Cardinality(Upto(k))
    BY <1>7
  <2>4. Upto(k) \in SUBSET Upto(k + 1)
    BY <2>1
  <2>5. Cardinality(Upto(k)) <= Cardinality(Upto(k + 1))
    <3> HIDE DEF Upto
    <3> QED
      BY <1>3, <2>4, FS_Subset
  <2>6. CASE c \notin Below(N, n)
    <3>1. more = 0
      BY <2>6 DEF Inherited
    <3>2. h[k + 1] \in 0..Cardinality(Upto(k + 1))
      <4> HIDE DEF Upto, more
      <4> QED
        BY <1>3, <2>2, <2>3, <2>5, <3>1
    <3> QED
      BY <2>1, <3>2
  <2>7. CASE c \in Below(N, n)
    <3> DEFINE F == FragmentsBelow(N, c)
    <3>1. more \in 0..Cardinality(F)
      BY <2>7 DEF Lies
    <3>2. \A f \in F : f \in FragmentsBelow(N, n) /\ AncestorAt(f, n[1] - 1) = Child(n, k)
      BY <1>1, <2>7, BelowParent
    <3>3. F \in SUBSET Upto(k + 1)
      BY <2>1, <3>2
    <3>4. F \cap Upto(k) = {}
      <4>1. SUFFICES ASSUME NEW f \in F, NEW j \in 0..(k - 1), AncestorAt(f, n[1] - 1) = Child(n, j)
                     PROVE  FALSE
        OBVIOUS
      <4>2. Child(n, j) = Child(n, k) /\ j \in Nat /\ j # k
        BY <2>1, <3>2, <4>1
      <4>3. n[2] \in Nat
        BY <1>1, UnitIsNode
      <4> QED
        BY <2>1, <4>2, <4>3, ChildrenDiffer
    <3>5. Cardinality(F \cup Upto(k)) = Cardinality(F) + Cardinality(Upto(k))
      <4> HIDE DEF Upto
      <4>1. IsFiniteSet(F) /\ IsFiniteSet(Upto(k)) /\ Cardinality(F) \in Nat
        BY <1>2, <1>3, FS_CardinalityType
      <4>2. Cardinality(F \cup Upto(k))
              = Cardinality(F) + Cardinality(Upto(k)) - Cardinality(F \cap Upto(k))
        BY <4>1, FS_Union
      <4>3. Cardinality(F \cap Upto(k)) = 0
        BY <3>4, FS_EmptySet
      <4> QED
        BY <1>3, <4>1, <4>2, <4>3
    <3>6. Cardinality(F \cup Upto(k)) <= Cardinality(Upto(k + 1))
      <4>1. F \cup Upto(k) \in SUBSET Upto(k + 1)
        BY <2>4, <3>3
      <4> HIDE DEF Upto
      <4> QED
        BY <1>3, <4>1, FS_Subset
    <3>7. Cardinality(F) \in Nat
      BY <1>2, FS_CardinalityType
    <3>8. h[k + 1] \in 0..Cardinality(Upto(k + 1))
      <4> HIDE DEF Upto, more, F
      <4> QED
        BY <1>3, <2>2, <2>3, <3>1, <3>5, <3>6, <3>7
    <3> QED
      BY <2>1, <3>8
  <2> QED
    BY <2>6, <2>7
<1>8. m \in good
  <2> HIDE DEF good
  <2> QED
    BY <1>1, <1>6, <1>7, Induct
<1>9. Lies(b, n) \in Nat
  BY <1>2, FS_CardinalityType DEF Lies
<1>10. h[m] \in 0..Cardinality(Upto(m))
  BY <1>8
<1> HIDE DEF Upto, m
<1> QED
  BY <1>3, <1>5, <1>9, <1>10

-----------------------------------------------------------------------------
(***************************************************************************)
(* The inductive invariant, one part for each kind of record: events,      *)
(* texts, batches, the preparation under way, intents, units, and what the *)
(* holder of the lock is about to write.                                   *)
(***************************************************************************)
EventInv ==
    /\ trace \in [Events -> {"absent", "intact"} \cup Notes]
    /\ raw \subseteq Events /\ indexed \subseteq raw /\ acked \subseteq indexed
    /\ \A e \in indexed : trace[e] # "absent"

\* A file holds notes and the texts of batches that belong to it.
Content(f) == Notes \cup {b \in Prepared : Target(b) = f}
TextInv == DOMAIN text = Files /\ \A f \in Files : text[f] \in Seq(Content(f))

IsSeq(s) == s \in Seq(ToSet(s))
BatchInv ==
    /\ \A b \in Prepared :
         /\ b = [period |-> b.period, form |-> b.form, sources |-> b.sources,
                 upstream |-> b.upstream]
         /\ IsSeq(b.sources) /\ References(b.sources) \subseteq b.upstream
    /\ \A b \in frozen : b.form = "legacy"
    /\ \A b \in prepared \cup plans : b.form = "partitioned"
    /\ plans \cap prepared = {}

\* What is built was read from the inventory that is compared under the lock; the
\* summaries in it were committed when they were read, and still are.
SourcesFrom(period, inventory) ==
    IF period = Day THEN inventory
    ELSE LET files == SetToSeq({e \in Events : WindowOf[e] = period /\ inventory[e] # "absent"})
         IN  [k \in DOMAIN files |->
                IF inventory[files[k]] = "intact" THEN files[k] ELSE inventory[files[k]]]

BuildInv ==
    /\ build = [period |-> build.period, step |-> build.step, sources |-> build.sources,
                inventory |-> build.inventory, upstream |-> build.upstream]
    /\ build.step # "none" => build.period \in Windows \cup {Day}
    /\ build.step \in {"upstream", "ready"} =>
         /\ build.sources = SourcesFrom(build.period, build.inventory)
         /\ IsSeq(build.sources)
    /\ build.step = "upstream" => References(build.sources) \subseteq CommittedInto(build.period)
    /\ build.step = "ready" => References(build.sources) \subseteq build.upstream

\* The receipt of the root, and the coverage that agrees with it.
RootSummed(b, missing) ==
    \E r \in receipts, c \in covered :
        /\ r.batch = b /\ r.node = RootOf(b) /\ r.missing = missing
        /\ c.batch = b /\ r.count = Cardinality(c.missing)

Vouched(i) ==
    /\ i.batch \in plans
    /\ \E a \in anchors : a.batch = i.batch /\ a.before = i.before
    /\ RootSummed(i.batch, i.missing)

GoodIntent(i) ==
    /\ i = [batch |-> i.batch, status |-> i.status, before |-> i.before, missing |-> i.missing]
    /\ i.batch \in Prepared /\ i.status \in {"partitioning", "pending", "committed"}
    /\ i.batch \in prepared => i.status = "partitioning"
    /\ Partitioned(i.batch) /\ i.status # "partitioning" => Vouched(i)

IntentInv ==
    /\ \A i \in intents : GoodIntent(i)
    /\ \A i, k \in intents : i.batch = k.batch => i = k
    /\ \A i, k \in Pending : i = k
    /\ \A b \in plans : \E i \in intents : i.batch = b

NodeInv ==
    /\ \A r \in receipts :
         /\ r.batch \in plans /\ r.node \in Units(r.batch)
         /\ Valid(r.batch, r.node, r.missing)
         /\ r.count \in 0..Lies(r.batch, r.node)
         /\ [batch |-> r.batch, node |-> r.node, missing |-> r.missing] \in outputs
    /\ \A q, r \in receipts : q.batch = r.batch /\ q.node = r.node => q = r
    /\ \A c, d \in covered : c.batch = d.batch => c = d
    /\ \A a, b \in anchors : a.batch = b.batch => a = b

Announced(b) == \E i \in intents : i.batch = b /\ i.status = "partitioning"

ReceiptDue ==
    /\ job.item \in plans /\ job.node \in Units(job.item)
    /\ Valid(job.item, job.node, job.missing)
    /\ ReadyNode(job.item, job.node) /\ ~HasReceipt(job.item, job.node)
    /\ [batch |-> job.item, node |-> job.node, missing |-> job.missing] \in outputs

CommitDue ==
    /\ job.item \in plans /\ Announced(job.item)
    /\ \E missing : RootSummed(job.item, missing)

Calm == {"intent", "rename", "receipt", "finalize", "anchor", "pending"}

JobInv ==
    /\ job = [pc |-> job.pc, item |-> job.item, node |-> job.node, missing |-> job.missing]
    /\ job.pc \in Calm => Pending = {}
    /\ job.pc \in {"trace", "index", "ack"} => job.item \in raw
    /\ At("index") => trace[job.item] # "absent"
    /\ At("ack") => job.item \in indexed
    /\ job.pc \in {"intent", "rename"} => job.item \in prepared
    /\ At("rename") => Announced(job.item)
    /\ At("receipt") => ReceiptDue
    /\ At("finalize") => job.item \in plans
    /\ job.pc \in {"anchor", "pending"} => CommitDue
    /\ At("pending") => HasAnchor(job.item)
    /\ At("stamp") => \E i \in Pending : i.batch = job.item

StoreInv ==
    /\ EventInv /\ TextInv /\ BatchInv /\ BuildInv /\ IntentInv /\ NodeInv /\ JobInv

-----------------------------------------------------------------------------
(* What a step leaves alone keeps its part of the invariant. *)

LEMMA EventsKept == ASSUME EventInv, UNCHANGED eventVars PROVE EventInv'
BY DEF EventInv, eventVars

LEMMA TextsKept ==
    ASSUME TextInv, UNCHANGED text, Prepared \subseteq Prepared'
    PROVE  TextInv'
<1>1. \A f \in Files : Content(f) \subseteq Content(f)'
  BY DEF Content, Target
<1>2. \A f \in Files : Seq(Content(f)) \subseteq Seq(Content(f)')
  BY <1>1
<1> QED
  BY <1>2 DEF TextInv

LEMMA BatchesKept == ASSUME BatchInv, UNCHANGED planVars PROVE BatchInv'
BY DEF BatchInv, planVars, Prepared, References, Partitioned

\* What is committed stays committed.
CommitsKept ==
    \A i \in intents : i.status = "committed" =>
        \E k \in intents' : k.batch = i.batch /\ k.status = "committed"

LEMMA BuildKept ==
    ASSUME BuildInv, UNCHANGED build, CommitsKept
    PROVE  BuildInv'
<1>1. \A p : CommittedInto(p) \subseteq CommittedInto(p)'
  BY DEF CommittedInto, CommitsKept, Partitioned, Target
<1> QED
  BY <1>1 DEF BuildInv, SourcesFrom, References, Partitioned, IsSeq

LEMMA CommitsStay == UNCHANGED intents => CommitsKept
BY DEF CommitsKept

LEMMA NodesKept ==
    ASSUME NodeInv, UNCHANGED nodeVars, plans \subseteq plans'
    PROVE  NodeInv'
BY DEF NodeInv, nodeVars, Valid, Unreadable, Units, Count, Lies

LEMMA VouchedKept ==
    ASSUME NEW i, Vouched(i), UNCHANGED nodeVars, plans \subseteq plans'
    PROVE  Vouched(i)'
BY DEF Vouched, RootSummed, nodeVars, RootOf, Count

LEMMA IntentsKept ==
    ASSUME IntentInv, UNCHANGED <<planVars, intents, nodeVars>>
    PROVE  IntentInv'
<1>1. \A i : Vouched(i) => Vouched(i)'
  BY VouchedKept DEF planVars
<1> QED
  BY <1>1 DEF IntentInv, GoodIntent, planVars, Prepared, Pending, Partitioned

\* A job that has returned, or has recovered, owes nothing.
Released == job' = [pc |-> job'.pc, item |-> job'.item, node |-> job'.node, missing |-> job'.missing]
                /\ job'.pc \in {"free", "recover"}

LEMMA ReleasedOwesNothing == Released => JobInv'
BY DEF Released, JobInv, Calm, At

LEMMA ReturnReleases == Return => Released
BY DEF Return, Released, NoJob

LEMMA RecoverReleases == Take("recover", None) \/ (JobInv /\ Go("recover")) => Released
BY DEF Take, Go, Released, NoJob, JobInv

\* Steps that only move the holder of the lock.
LEMMA OnlyJob ==
    ASSUME StoreInv, UNCHANGED <<text, eventVars, planVars, intents, nodeVars, build>>, JobInv'
    PROVE  StoreInv'
<1>1. EventInv' /\ BatchInv' /\ BuildInv'
  BY EventsKept, BatchesKept, BuildKept, CommitsStay DEF StoreInv
<1>2. TextInv'
  BY TextsKept DEF StoreInv, planVars, Prepared
<1>3. IntentInv' /\ NodeInv'
  BY IntentsKept, NodesKept DEF StoreInv, planVars
<1> QED
  BY <1>1, <1>2, <1>3 DEF StoreInv

\* What the holder is about to do is not disturbed by those who do not hold the lock.
LEMMA JobKept ==
    ASSUME JobInv, UNCHANGED <<raw, indexed, acked, prepared, plans, intents, nodeVars, job>>,
           \A e \in indexed \cup raw : trace[e] # "absent" => trace'[e] # "absent"
    PROVE  JobInv'
<1>1. ReceiptDue => ReceiptDue'
  BY DEF ReceiptDue, nodeVars, Units, Count, Valid, Unreadable, ReadyNode, HasReceipt
<1>2. CommitDue => CommitDue'
  BY DEF CommitDue, Announced, RootSummed, nodeVars, RootOf, Count
<1>3. HasAnchor(job.item) => HasAnchor(job.item)'
  BY DEF HasAnchor, nodeVars
<1> QED
  BY <1>1, <1>2, <1>3 DEF JobInv, At, Pending, Announced

-----------------------------------------------------------------------------
(* The beginning, and the steps of events. *)

LEMMA InitStore == Init => StoreInv
<1> SUFFICES ASSUME Init PROVE StoreInv
  OBVIOUS
<1>1. EventInv
  <2>1. \A e \in Events : trace[e] = IF e \in Early THEN "intact" ELSE "absent"
    BY DEF Init
  <2>2. trace \in [Events -> {"absent", "intact"} \cup Notes]
    BY DEF Init
  <2> QED
    BY <2>1, <2>2, StoreAssumption DEF Init, EventInv
<1>2. TextInv
  <2>1. \A f \in Files : text[f] = <<>>
    BY DEF Init
  <2> QED
    BY <2>1 DEF Init, TextInv
<1>3. BatchInv /\ BuildInv
  BY DEF Init, BatchInv, BuildInv, Prepared, NoBuild
<1>4. IntentInv /\ NodeInv
  BY DEF Init, IntentInv, GoodIntent, NodeInv, Pending
<1>5. JobInv
  BY DEF Init, JobInv, NoJob, At, Calm
<1> QED
  BY <1>1, <1>2, <1>3, <1>4, <1>5 DEF StoreInv

\* Steps that touch only events and the job.
LEMMA OnlyEvents ==
    ASSUME StoreInv, UNCHANGED <<text, planVars, intents, nodeVars, build>>, EventInv', JobInv'
    PROVE  StoreInv'
<1>1. BatchInv' /\ BuildInv'
  BY BatchesKept, BuildKept, CommitsStay DEF StoreInv
<1>2. TextInv'
  BY TextsKept DEF StoreInv, planVars, Prepared
<1>3. IntentInv' /\ NodeInv'
  BY IntentsKept, NodesKept DEF StoreInv, planVars
<1> QED
  BY <1>1, <1>2, <1>3 DEF StoreInv

LEMMA AppendEventKeeps ==
    ASSUME StoreInv, NEW e \in Events, AppendEvent(e)
    PROVE  StoreInv'
<1>1. EventInv'
  BY DEF AppendEvent, StoreInv, EventInv
<1>2. JobInv'
  BY DEF AppendEvent, Take, NoJob, JobInv, At, Calm
<1> QED
  BY <1>1, <1>2, OnlyEvents DEF AppendEvent

LEMMA RecoverEventKeeps ==
    ASSUME StoreInv, NEW e \in Events, RecoverEvent(e)
    PROVE  StoreInv'
<1>1. JobInv'
  BY DEF RecoverEvent, Take, NoJob, JobInv, At, Calm, eventVars
<1> QED
  BY <1>1, OnlyJob DEF RecoverEvent

LEMMA WriteTraceKeeps ==
    ASSUME StoreInv, WriteTrace
    PROVE  StoreInv'
<1>1. job.item \in raw /\ job.item \in Events
  BY DEF WriteTrace, At, StoreInv, JobInv, EventInv
<1>2. CASE trace[job.item] \in {"absent", "intact"}
  <2>1. trace' = [trace EXCEPT ![job.item] = "intact"] /\ Go("index")
    BY <1>2 DEF WriteTrace
  <2>2. EventInv'
    BY <1>1, <2>1 DEF WriteTrace, StoreInv, EventInv
  <2>3. trace'[job.item] # "absent"
    BY <1>1, <2>1 DEF StoreInv, EventInv
  <2>4. JobInv'
    BY <1>1, <2>1, <2>3 DEF WriteTrace, Go, StoreInv, JobInv, At, Calm
  <2> QED
    BY <2>2, <2>4, OnlyEvents DEF WriteTrace
<1>3. CASE trace[job.item] \notin {"absent", "intact"}
  <2>1. UNCHANGED eventVars /\ JobInv'
    BY <1>3, ReturnReleases, ReleasedOwesNothing DEF WriteTrace, eventVars
  <2> QED
    BY <2>1, OnlyJob DEF WriteTrace
<1> QED
  BY <1>2, <1>3

LEMMA IndexEventKeeps ==
    ASSUME StoreInv, IndexEvent
    PROVE  StoreInv'
<1>1. job.item \in raw /\ trace[job.item] # "absent"
  BY DEF IndexEvent, At, StoreInv, JobInv
<1>2. EventInv'
  BY <1>1 DEF IndexEvent, StoreInv, EventInv
<1>3. JobInv'
  BY <1>1 DEF IndexEvent, Go, StoreInv, JobInv, At, Calm
<1> QED
  BY <1>2, <1>3, OnlyEvents DEF IndexEvent

LEMMA AckEventKeeps ==
    ASSUME StoreInv, AckEvent
    PROVE  StoreInv'
<1>1. job.item \in indexed
  BY DEF AckEvent, At, StoreInv, JobInv
<1>2. EventInv'
  BY <1>1 DEF AckEvent, StoreInv, EventInv
<1>3. JobInv'
  BY ReturnReleases, ReleasedOwesNothing DEF AckEvent
<1> QED
  BY <1>2, <1>3, OnlyEvents DEF AckEvent

-----------------------------------------------------------------------------
(* The steps of those who edit, and of failures. *)

LEMMA HolderFailsKeeps == ASSUME StoreInv, HolderFails PROVE StoreInv'
<1>1. JobInv'
  BY ReturnReleases, ReleasedOwesNothing DEF HolderFails
<1> QED
  BY <1>1, OnlyJob DEF HolderFails

LEMMA NoBuildBuilt == ASSUME build' = NoBuild PROVE BuildInv'
BY DEF NoBuild, BuildInv

\* Steps that touch only the preparation under way.
LEMMA OnlyBuild ==
    ASSUME StoreInv, UNCHANGED <<text, eventVars, planVars, intents, nodeVars, job>>, BuildInv'
    PROVE  StoreInv'
<1>1. EventInv' /\ BatchInv'
  BY EventsKept, BatchesKept DEF StoreInv
<1>2. TextInv'
  BY TextsKept DEF StoreInv, planVars, Prepared
<1>3. IntentInv' /\ NodeInv'
  BY IntentsKept, NodesKept DEF StoreInv, planVars
<1>4. JobInv'
  BY JobKept DEF StoreInv, eventVars, planVars
<1> QED
  BY <1>1, <1>2, <1>3, <1>4 DEF StoreInv

LEMMA BuildFailsKeeps == ASSUME StoreInv, BuildFails PROVE StoreInv'
BY NoBuildBuilt, OnlyBuild DEF BuildFails

LEMMA EditKeeps ==
    ASSUME StoreInv, NEW m \in Notes, Edit(m)
    PROVE  StoreInv'
<1>1. m # "absent"
  BY StoreAssumption
<1>2. EventInv' /\ \A e \in Events : trace[e] # "absent" => trace'[e] # "absent"
  <2>1. CASE UNCHANGED eventVars
    BY <2>1, EventsKept DEF StoreInv, eventVars
  <2>2. ASSUME NEW e \in Events, EditTrace(e, m)
        PROVE  EventInv' /\ \A d \in Events : trace[d] # "absent" => trace'[d] # "absent"
    BY <1>1, <2>2 DEF EditTrace, StoreInv, EventInv
  <2> QED
    BY <2>1, <2>2 DEF Edit, AppendNote, Rewrite
<1>3. TextInv'
  <2>1. UNCHANGED planVars /\ \A f \in Files : Content(f)' = Content(f)
    BY DEF Edit, planVars, Content, Prepared, Target
  <2>2. CASE UNCHANGED text
    BY <2>1, <2>2 DEF StoreInv, TextInv
  <2>3. ASSUME NEW f \in Files, AppendNote(f, m) \/ Rewrite(f, m)
        PROVE  TextInv'
    <3>1. m \in Content(f) /\ text[f] \in Seq(Content(f)) /\ DOMAIN text = Files
      BY DEF Content, StoreInv, TextInv
    <3>2. Append(text[f], m) \in Seq(Content(f)) /\ <<m>> \in Seq(Content(f))
      BY <3>1
    <3>3. /\ DOMAIN text' = Files /\ text'[f] \in {Append(text[f], m), <<m>>}
          /\ \A g \in Files : g # f => text'[g] = text[g]
      BY <2>3, <3>1 DEF AppendNote, Rewrite
    <3> QED
      BY <2>1, <3>2, <3>3 DEF StoreInv, TextInv
  <2> QED
    BY <2>2, <2>3 DEF Edit, EditTrace
<1>4. BatchInv' /\ BuildInv'
  BY BatchesKept, BuildKept, CommitsStay DEF Edit, StoreInv
<1>5. IntentInv' /\ NodeInv'
  BY IntentsKept, NodesKept DEF Edit, StoreInv, planVars
<1>6. JobInv'
  <2>1. UNCHANGED <<raw, indexed, acked>> /\ raw \cup indexed \subseteq Events
    BY DEF Edit, AppendNote, Rewrite, EditTrace, eventVars, StoreInv, EventInv
  <2> QED
    BY <1>2, <2>1, JobKept DEF Edit, StoreInv, planVars
<1> QED
  BY <1>2, <1>3, <1>4, <1>5, <1>6 DEF StoreInv

-----------------------------------------------------------------------------
(* The steps of recovery. *)

LEMMA RecoverKeeps == ASSUME StoreInv, Recover PROVE StoreInv'
<1>1. JobInv'
  BY RecoverReleases, ReleasedOwesNothing DEF Recover, StoreInv
<1> QED
  BY <1>1, OnlyJob DEF Recover

LEMMA EndRecoveryKeeps == ASSUME StoreInv, EndRecovery PROVE StoreInv'
<1>1. JobInv'
  BY ReturnReleases, ReleasedOwesNothing DEF EndRecovery
<1> QED
  BY <1>1, OnlyJob DEF EndRecovery

\* A prepared plan with an intent is published.
LEMMA PlanPublished ==
    ASSUME StoreInv, NEW b \in prepared, \E i \in intents : i.batch = b,
           prepared' = prepared \ {b}, plans' = plans \cup {b},
           UNCHANGED <<text, eventVars, frozen, intents, nodeVars, build>>, JobInv'
    PROVE  StoreInv'
<1>1. Prepared' = Prepared
  BY DEF Prepared
<1>2. EventInv' /\ TextInv' /\ BuildInv' /\ NodeInv'
  BY <1>1, EventsKept, TextsKept, BuildKept, CommitsStay, NodesKept DEF StoreInv
<1>3. BatchInv'
  BY <1>1 DEF StoreInv, BatchInv, References, Partitioned, IsSeq
<1>4. IntentInv'
  <2>1. \A i : Vouched(i) => Vouched(i)'
    BY VouchedKept
  <2> QED
    BY <1>1, <2>1 DEF StoreInv, IntentInv, GoodIntent, Pending, Partitioned
<1> QED
  BY <1>2, <1>3, <1>4 DEF StoreInv

LEMMA RecoverPlanKeeps == ASSUME StoreInv, RecoverPlan PROVE StoreInv'
<1>1. PICK i \in Unpublished :
        prepared' = prepared \ {i.batch} /\ plans' = plans \cup {i.batch}
  BY DEF RecoverPlan
<1>2. i \in intents /\ i.batch \in prepared
  BY DEF Unpublished
<1>3. JobInv'
  BY ReleasedOwesNothing DEF RecoverPlan, At, Released, StoreInv, JobInv
<1> QED
  BY <1>1, <1>2, <1>3, PlanPublished DEF RecoverPlan

LEMMA RecoverTargetKeeps == ASSUME StoreInv, RecoverTarget PROVE StoreInv'
<1>1. PICK i \in Pending :
        /\ IF text[Target(i.batch)] = i.before
           THEN text' = [text EXCEPT ![Target(i.batch)] = After(i)] ELSE text' = text
        /\ Take("stamp", i.batch)
  BY DEF RecoverTarget
<1>2. i \in intents /\ i.batch \in Prepared /\ Target(i.batch) \in Files
  BY DEF Pending, StoreInv, IntentInv, GoodIntent, Target, Files
<1>3. TextInv'
  <2>1. UNCHANGED planVars /\ \A f \in Files : Content(f)' = Content(f)
    BY DEF RecoverTarget, planVars, Content, Prepared, Target
  <2>2. CASE text' = text
    BY <2>1, <2>2 DEF StoreInv, TextInv
  <2>3. CASE text' = [text EXCEPT ![Target(i.batch)] = After(i)] /\ text[Target(i.batch)] = i.before
    <3> DEFINE f == Target(i.batch)
    <3>1. i.batch \in Content(f) /\ text[f] \in Seq(Content(f)) /\ DOMAIN text = Files
      BY <1>2 DEF Content, StoreInv, TextInv
    <3>2. After(i) \in Seq(Content(f))
      BY <2>3, <3>1 DEF After
    <3> HIDE DEF f
    <3>3. /\ DOMAIN text' = Files /\ (f \in Files => text'[f] = After(i))
          /\ \A g \in Files : g # f => text'[g] = text[g]
      BY <2>3, <3>1 DEF f
    <3> QED
      BY <1>2, <2>1, <3>2, <3>3 DEF StoreInv, TextInv, f
  <2> QED
    BY <1>1, <2>2, <2>3
<1>4. EventInv' /\ BatchInv' /\ BuildInv'
  BY EventsKept, BatchesKept, BuildKept, CommitsStay DEF RecoverTarget, StoreInv
<1>5. IntentInv' /\ NodeInv'
  BY IntentsKept, NodesKept DEF RecoverTarget, StoreInv, planVars
<1>6. JobInv'
  BY <1>1 DEF RecoverTarget, Take, NoJob, JobInv, At, Calm, Pending
<1> QED
  BY <1>3, <1>4, <1>5, <1>6 DEF StoreInv

\* Steps that touch only intents and the job.
LEMMA OnlyIntents ==
    ASSUME StoreInv, UNCHANGED <<text, eventVars, planVars, nodeVars, build>>,
           CommitsKept, IntentInv', JobInv'
    PROVE  StoreInv'
<1>1. EventInv' /\ BatchInv' /\ BuildInv'
  BY EventsKept, BatchesKept, BuildKept DEF StoreInv
<1>2. TextInv'
  BY TextsKept DEF StoreInv, planVars, Prepared
<1>3. NodeInv'
  BY NodesKept DEF StoreInv, planVars
<1> QED
  BY <1>1, <1>2, <1>3 DEF StoreInv

LEMMA IntentFound ==
    ASSUME IntentInv, NEW i \in intents
    PROVE  IntentOf(i.batch) = i
BY DEF IntentInv, IntentOf

LEMMA StampIntentKeeps == ASSUME StoreInv, StampIntent PROVE StoreInv'
<1>1. PICK i \in Pending : i.batch = job.item
  BY DEF StampIntent, At, StoreInv, JobInv
<1>2. i \in intents /\ i.status = "pending" /\ IntentOf(job.item) = i
  BY <1>1, IntentFound DEF Pending, StoreInv
<1> DEFINE k == [i EXCEPT !.status = "committed"]
<1>3. intents' = (intents \ {i}) \cup {k}
  BY <1>2 DEF StampIntent
<1>4. k = [batch |-> i.batch, status |-> "committed", before |-> i.before, missing |-> i.missing]
  BY <1>2 DEF StoreInv, IntentInv, GoodIntent
<1> HIDE DEF k
<1>5. k.batch = i.batch /\ k.status = "committed" /\ k.before = i.before /\ k.missing = i.missing
  BY <1>4
<1>6. CommitsKept
  BY <1>2, <1>3 DEF CommitsKept
<1>7. IntentInv'
  <2>1. \A x : Vouched(x) => Vouched(x)'
    BY VouchedKept DEF StampIntent, planVars
  <2>2. Vouched(i) => Vouched(k)
    BY <1>5 DEF Vouched
  <2>3. UNCHANGED <<frozen, prepared, plans>> /\ Prepared' = Prepared
    BY DEF StampIntent, planVars, Prepared
  <2>4. \A x \in intents' : GoodIntent(x)'
    <3>1. \A x \in intents : GoodIntent(x)'
      BY <2>1, <2>3 DEF StoreInv, IntentInv, GoodIntent, Partitioned
    <3>2. GoodIntent(k)'
      BY <1>2, <1>4, <1>5, <2>1, <2>2, <2>3 DEF StoreInv, IntentInv, GoodIntent, Partitioned
    <3> QED
      BY <1>3, <3>1, <3>2
  <2>5. \A x, y \in intents' : x.batch = y.batch => x = y
    BY <1>2, <1>3, <1>5 DEF StoreInv, IntentInv
  <2>6. \A x, y \in Pending' : x = y
    BY <1>2, <1>3, <1>5 DEF StoreInv, IntentInv, GoodIntent, Pending
  <2>7. \A b \in plans' : \E x \in intents' : x.batch = b
    BY <1>2, <1>3, <1>5, <2>3 DEF StoreInv, IntentInv
  <2> QED
    BY <2>4, <2>5, <2>6, <2>7 DEF IntentInv
<1>8. JobInv'
  BY RecoverReleases, ReleasedOwesNothing DEF StampIntent
<1> QED
  BY <1>6, <1>7, <1>8, OnlyIntents DEF StampIntent

-----------------------------------------------------------------------------
(* What a preparation reads. *)

LEMMA SetToSeqTyped ==
    ASSUME NEW S, IsFiniteSet(S)
    PROVE  SetToSeq(S) \in Seq(S)
<1>1. Cardinality(S) \in Nat /\ ExistsBijection(1..Cardinality(S), S)
  BY FS_CardinalityType
<1>2. \E f \in [1..Cardinality(S) -> S] : IsInjective(f)
  BY <1>1 DEF ExistsBijection, Bijection, Injection, IsInjective
<1>3. SetToSeq(S) \in [1..Cardinality(S) -> S]
  BY <1>2 DEF SetToSeq
<1> QED
  BY <1>1, <1>3

LEMMA SourcesRead ==
    ASSUME EventInv, NEW p \in Windows
    PROVE  SourcesOf(p) \in Seq(Events \cup Notes)
<1> DEFINE found == {e \in Events : WindowOf[e] = p /\ trace[e] # "absent"}
           files == SetToSeq(found)
<1>1. files \in Seq(found)
  <2>1. IsFiniteSet(found)
    BY StoreAssumption, FS_Subset
  <2> HIDE DEF found
  <2> QED
    BY <2>1, SetToSeqTyped
<1>2. \A k \in DOMAIN files : files[k] \in found
  <2> HIDE DEF found, files
  <2> QED
    BY <1>1
<1>3. \A e \in found : e \in Events /\ (trace[e] # "intact" => trace[e] \in Notes)
  BY DEF EventInv
<1>4. SourcesOf(p) = [k \in DOMAIN files |->
                        IF trace[files[k]] = "intact" THEN files[k] ELSE trace[files[k]]]
  BY StoreAssumption DEF SourcesOf
<1>5. DOMAIN files = 1..Len(files) /\ Len(files) \in Nat
  <2> HIDE DEF found, files
  <2> QED
    BY <1>1
<1> HIDE DEF found, files
<1> QED
  BY <1>2, <1>3, <1>4, <1>5

LEMMA TypedIsSeq == ASSUME NEW S, NEW s \in Seq(S) PROVE IsSeq(s) /\ ToSet(s) \subseteq S
BY DEF IsSeq, ToSet

LEMMA SourcesAreSeq ==
    ASSUME EventInv, TextInv, NEW p \in Windows \cup {Day}
    PROVE  /\ IsSeq(SourcesOf(p)) /\ SourcesOf(p) = SourcesFrom(p, Inventory(p))
           /\ \A b \in References(SourcesOf(p)) :
                p = Day /\ b \in Prepared /\ Target(b) = "hourly" /\ Partitioned(b)
<1>1. SourcesOf(p) = SourcesFrom(p, Inventory(p))
  BY DEF SourcesOf, SourcesFrom, Inventory
<1>2. CASE p = Day
  <2>1. SourcesOf(p) \in Seq(Content("hourly"))
    BY <1>2 DEF SourcesOf, TextInv, Files
  <2>2. IsSeq(SourcesOf(p)) /\ ToSet(SourcesOf(p)) \subseteq Content("hourly")
    BY <2>1, TypedIsSeq
  <2> QED
    BY <1>1, <1>2, <2>2 DEF References, Content
<1>3. CASE p # Day
  <2>1. IsSeq(SourcesOf(p)) /\ ToSet(SourcesOf(p)) \subseteq Events \cup Notes
    BY <1>3, SourcesRead, TypedIsSeq
  <2> QED
    BY <1>1, <2>1 DEF References
<1> QED
  BY <1>2, <1>3

-----------------------------------------------------------------------------
(* The steps of a preparation. *)

\* A batch that enters a store changes nothing that is on record of others.
LEMMA BatchAdded ==
    ASSUME StoreInv, UNCHANGED <<text, eventVars, plans, intents, nodeVars>>,
           Prepared \subseteq Prepared', BatchInv', BuildInv', JobInv',
           \A i \in intents : i.batch \in prepared' => i.batch \in prepared \/ i.batch \notin Prepared
                                                       \/ i.status = "partitioning"
    PROVE  StoreInv'
<1>1. EventInv' /\ TextInv' /\ NodeInv'
  BY EventsKept, TextsKept, NodesKept DEF StoreInv
<1>2. \A i : Vouched(i) => Vouched(i)'
  BY VouchedKept
<1>3. IntentInv'
  BY <1>2 DEF StoreInv, IntentInv, GoodIntent, Pending, Partitioned
<1> QED
  BY <1>1, <1>3 DEF StoreInv

LEMMA PrepareLegacyKeeps ==
    ASSUME StoreInv, NEW p \in Windows \cup {Day}, PrepareLegacy(p)
    PROVE  StoreInv'
<1> DEFINE b == [period |-> p, form |-> "legacy", sources |-> SourcesOf(p), upstream |-> {}]
<1>1. frozen' = frozen \cup {b} /\ References(SourcesOf(p)) = {}
  BY DEF PrepareLegacy, NeedsPartition
<1>2. /\ b.form = "legacy" /\ b.sources = SourcesOf(p) /\ b.upstream = {}
      /\ b = [period |-> b.period, form |-> b.form, sources |-> b.sources,
              upstream |-> b.upstream]
  OBVIOUS
<1>3. IsSeq(b.sources)
  BY SourcesAreSeq DEF StoreInv
<1> HIDE DEF b
<1>4. Prepared' = Prepared \cup {b}
  BY <1>1 DEF PrepareLegacy, Prepared
<1>5. BatchInv'
  BY <1>1, <1>2, <1>3, <1>4
     DEF PrepareLegacy, StoreInv, BatchInv, References, Partitioned, IsSeq
<1>6. BuildInv'
  BY BuildKept, CommitsStay DEF PrepareLegacy, StoreInv
<1>7. JobInv'
  BY JobKept DEF PrepareLegacy, StoreInv, eventVars
<1> QED
  BY <1>4, <1>5, <1>6, <1>7, BatchAdded DEF PrepareLegacy

LEMMA StartBuildKeeps ==
    ASSUME StoreInv, NEW p \in Windows \cup {Day}, StartBuild(p)
    PROVE  StoreInv'
<1>1. build' = [period |-> p, step |-> "read", sources |-> <<>>, inventory |-> None,
                upstream |-> {}]
  BY DEF StartBuild, NoBuild
<1>2. BuildInv'
  BY <1>1 DEF BuildInv
<1> QED
  BY <1>2, OnlyBuild DEF StartBuild

LEMMA ReadSourcesKeeps == ASSUME StoreInv, ReadSources PROVE StoreInv'
<1> DEFINE p == build.period
           s == SourcesOf(p)
<1>1. p \in Windows \cup {Day}
  BY DEF ReadSources, StoreInv, BuildInv
<1>2. CASE s # <<>> /\ Verified(s)
  <2>1. build' = [build EXCEPT !.step = "upstream", !.sources = s, !.inventory = Inventory(p)]
    BY <1>2 DEF ReadSources
  <2>2. build' = [period |-> p, step |-> "upstream", sources |-> s,
                  inventory |-> Inventory(p), upstream |-> build.upstream]
    BY <2>1 DEF StoreInv, BuildInv
  <2>3. IsSeq(s) /\ s = SourcesFrom(p, Inventory(p))
    BY <1>1, SourcesAreSeq DEF StoreInv
  <2>4. References(s) \subseteq CommittedInto(p)
    <3> SUFFICES ASSUME NEW b \in References(s)
                 PROVE  b \in CommittedInto(p)
      OBVIOUS
    <3>1. p = Day /\ Target(b) = "hourly" /\ Partitioned(b)
      BY <1>1, SourcesAreSeq DEF StoreInv
    <3>2. StatusOf(b) = "committed"
      BY <1>2 DEF Verified, Committed
    <3>3. \E i \in intents : i.batch = b /\ i.status = "committed"
      BY <3>2 DEF StatusOf
    <3> QED
      BY <3>1, <3>3 DEF CommittedInto
  <2>5. BuildInv'
    <3>1. UNCHANGED intents
      BY DEF ReadSources
    <3> HIDE DEF p, s
    <3> QED
      BY <1>1, <2>2, <2>3, <2>4, <3>1
         DEF BuildInv, SourcesFrom, References, Partitioned, IsSeq, CommittedInto, Target
  <2> QED
    BY <2>5, OnlyBuild DEF ReadSources
<1>3. CASE ~(s # <<>> /\ Verified(s))
  BY <1>3, NoBuildBuilt, OnlyBuild DEF ReadSources
<1> QED
  BY <1>2, <1>3

LEMMA ListUpstreamKeeps == ASSUME StoreInv, ListUpstream PROVE StoreInv'
<1>1. build' = [period |-> build.period, step |-> "ready", sources |-> build.sources,
                inventory |-> build.inventory, upstream |-> CommittedInto(build.period)]
  BY DEF ListUpstream, StoreInv, BuildInv
<1>2. /\ build.period \in Windows \cup {Day} /\ IsSeq(build.sources)
      /\ build.sources = SourcesFrom(build.period, build.inventory)
      /\ References(build.sources) \subseteq CommittedInto(build.period)
  BY DEF ListUpstream, StoreInv, BuildInv
<1>3. BuildInv'
  BY <1>1, <1>2 DEF BuildInv, SourcesFrom, References, Partitioned, IsSeq
<1> QED
  BY <1>3, OnlyBuild DEF ListUpstream

LEMMA PublishKeeps == ASSUME StoreInv, Publish PROVE StoreInv'
<1>1. BuildInv'
  BY NoBuildBuilt DEF Publish
<1>2. CASE UNCHANGED <<prepared, job>>
  <2>1. UNCHANGED planVars /\ Prepared' = Prepared
    BY <1>2 DEF Publish, planVars, Prepared
  <2>2. BatchInv' /\ JobInv'
    BY <1>2, <2>1, BatchesKept, JobKept DEF Publish, StoreInv, eventVars
  <2> QED
    BY <1>1, <1>2, <2>1, <2>2, BatchAdded DEF Publish
<1>3. CASE ~UNCHANGED <<prepared, job>>
  <2> DEFINE b == BuiltBatch
  <2>1. prepared' = prepared \cup {b} /\ Take("intent", b) /\ b \notin plans
    BY <1>3 DEF Publish
  <2>2. /\ b.form = "partitioned" /\ b.sources = build.sources /\ b.upstream = build.upstream
        /\ b = [period |-> b.period, form |-> b.form, sources |-> b.sources,
                upstream |-> b.upstream]
    BY DEF BuiltBatch
  <2>3. IsSeq(build.sources) /\ References(build.sources) \subseteq build.upstream
    BY DEF Publish, StoreInv, BuildInv
  <2> HIDE DEF b
  <2>4. Prepared' = Prepared \cup {b}
    BY <2>1 DEF Publish, Prepared
  <2>5. BatchInv'
    BY <2>1, <2>2, <2>3, <2>4 DEF Publish, StoreInv, BatchInv, References, Partitioned, IsSeq
  <2>6. \A i \in intents : i.batch \in prepared' =>
          i.batch \in prepared \/ i.batch \notin Prepared \/ i.status = "partitioning"
    <3>1. b \in Prepared => b \in prepared
      BY <2>1, <2>2 DEF StoreInv, BatchInv, Prepared
    <3> QED
      BY <2>1, <3>1
  <2>7. JobInv'
    <3>1. Pending' = {}
      BY DEF Publish, Recovered, NothingToRecover, Pending
    <3> QED
      BY <2>1, <3>1 DEF Take, NoJob, JobInv, At, Calm
  <2> QED
    BY <1>1, <2>4, <2>5, <2>6, <2>7, BatchAdded DEF Publish
<1> QED
  BY <1>2, <1>3

LEMMA StatusNone ==
    ASSUME IntentInv, NEW b
    PROVE  StatusOf(b) = "none" <=> ~\E i \in intents : i.batch = b
BY DEF IntentInv, GoodIntent, StatusOf

\* A new intent, of a batch that has none.
LEMMA IntentAdded ==
    ASSUME StoreInv, NEW k, intents' = intents \cup {k}, GoodIntent(k)',
           \A i \in intents : i.batch # k.batch, k.status # "partitioning" => Pending = {},
           UNCHANGED <<text, eventVars, planVars, nodeVars, build>>, JobInv'
    PROVE  StoreInv'
<1>1. CommitsKept
  BY DEF CommitsKept
<1>2. \A i : Vouched(i) => Vouched(i)'
  BY VouchedKept DEF planVars
<1>3. UNCHANGED <<frozen, prepared, plans>> /\ Prepared' = Prepared
  BY DEF planVars, Prepared
<1>4. \A i \in intents : GoodIntent(i)'
  BY <1>2, <1>3 DEF StoreInv, IntentInv, GoodIntent, Partitioned
<1>5. IntentInv'
  BY <1>3, <1>4 DEF StoreInv, IntentInv, Pending
<1> QED
  BY <1>1, <1>5, OnlyIntents

LEMMA WriteIntentKeeps == ASSUME StoreInv, WriteIntent PROVE StoreInv'
<1>b. PICK b : b = job.item
  OBVIOUS
<1> DEFINE k == [batch |-> b, status |-> "partitioning", before |-> <<>>, missing |-> {}]
<1>1. b \in prepared /\ Pending = {}
  BY <1>b DEF WriteIntent, At, Calm, StoreInv, JobInv
<1>2. job' = [pc |-> "rename", item |-> b, node |-> job.node, missing |-> job.missing]
  BY <1>b DEF WriteIntent, Go, StoreInv, JobInv
<1>3. CASE StatusOf(b) = "none"
  <2>1. intents' = intents \cup {k}
    BY <1>b, <1>3 DEF WriteIntent
  <2>2. k.batch = b /\ k.status = "partitioning"
        /\ k = [batch |-> k.batch, status |-> k.status, before |-> k.before, missing |-> k.missing]
    OBVIOUS
  <2> HIDE DEF k
  <2>3. GoodIntent(k)'
    BY <1>1, <2>2 DEF WriteIntent, planVars, GoodIntent, Prepared
  <2>4. \A i \in intents : i.batch # k.batch
    BY <1>3, <2>2, StatusNone DEF StoreInv
  <2>5. JobInv'
    <3>1. Pending' = {} /\ Announced(b)'
      BY <1>1, <2>1, <2>2 DEF Pending, Announced
    <3> QED
      BY <1>1, <1>2, <3>1 DEF WriteIntent, planVars, JobInv, At, Calm
  <2> QED
    BY <2>1, <2>2, <2>3, <2>4, <2>5, IntentAdded DEF WriteIntent
<1>4. CASE StatusOf(b) # "none"
  <2>1. intents' = intents /\ \E i \in intents : i.batch = b
    BY <1>b, <1>4 DEF WriteIntent, StatusOf
  <2>2. Announced(b)
    BY <1>1, <2>1 DEF Announced, StoreInv, IntentInv, GoodIntent
  <2>3. JobInv'
    <3>1. Pending' = {} /\ Announced(b)'
      BY <1>1, <2>1, <2>2 DEF Pending, Announced
    <3> QED
      BY <1>1, <1>2, <3>1 DEF WriteIntent, planVars, JobInv, At, Calm
  <2> QED
    BY <2>1, <2>3, OnlyJob DEF WriteIntent
<1> QED
  BY <1>3, <1>4

LEMMA RenamePlanKeeps == ASSUME StoreInv, RenamePlan PROVE StoreInv'
<1>1. job.item \in prepared /\ \E i \in intents : i.batch = job.item
  BY DEF RenamePlan, At, StoreInv, JobInv, Announced
<1>2. JobInv'
  BY ReturnReleases, ReleasedOwesNothing DEF RenamePlan
<1> QED
  BY <1>1, <1>2, PlanPublished DEF RenamePlan

-----------------------------------------------------------------------------
(* The steps of a commit. *)

LEMMA CommitSummaryKeeps ==
    ASSUME StoreInv, NEW b \in frozen, NEW missing, CommitSummary(b, missing)
    PROVE  StoreInv'
<1>0. PICK before : before = text[Target(b)]
  OBVIOUS
<1> DEFINE k == [batch |-> b, status |-> "pending", before |-> before, missing |-> missing]
<1>1. intents' = intents \cup {k} /\ StatusOf(b) = "none" /\ Pending = {}
  BY <1>0 DEF CommitSummary, Recovered, NothingToRecover
<1>2. k.batch = b /\ k.status = "pending"
      /\ k = [batch |-> k.batch, status |-> k.status, before |-> k.before, missing |-> k.missing]
  OBVIOUS
<1> HIDE DEF k
<1>3. b \in Prepared /\ b \notin prepared /\ ~Partitioned(b)
  BY DEF Prepared, StoreInv, BatchInv, Partitioned
<1>4. GoodIntent(k)'
  BY <1>2, <1>3 DEF CommitSummary, planVars, GoodIntent, Prepared, Partitioned
<1>5. \A i \in intents : i.batch # k.batch
  BY <1>1, <1>2, StatusNone DEF StoreInv
<1>6. JobInv'
  BY RecoverReleases, ReleasedOwesNothing DEF CommitSummary, StoreInv
<1> QED
  BY <1>1, <1>4, <1>5, <1>6, IntentAdded DEF CommitSummary

SummedKept == \A b, missing : RootSummed(b, missing) => RootSummed(b, missing)'

\* Steps that touch only what is on record of units, and the job.
LEMMA OnlyNodes ==
    ASSUME StoreInv, UNCHANGED <<text, eventVars, planVars, intents, build>>,
           anchors \subseteq anchors', SummedKept, NodeInv', JobInv'
    PROVE  StoreInv'
<1>1. EventInv' /\ BatchInv' /\ BuildInv'
  BY EventsKept, BatchesKept, BuildKept, CommitsStay DEF StoreInv
<1>2. TextInv'
  BY TextsKept DEF StoreInv, planVars, Prepared
<1>3. \A i : Vouched(i) => Vouched(i)'
  BY DEF SummedKept, Vouched, planVars
<1>4. IntentInv'
  BY <1>3 DEF StoreInv, IntentInv, GoodIntent, planVars, Prepared, Pending, Partitioned
<1> QED
  BY <1>1, <1>2, <1>4 DEF StoreInv

LEMMA SummedStays == ASSUME UNCHANGED covered, receipts \subseteq receipts' PROVE SummedKept
BY DEF SummedKept, RootSummed, RootOf, Count

LEMMA FinalizeTaken ==
    ASSUME StoreInv, UNCHANGED <<planVars, intents>>, NEW b \in plans, Pending = {},
           Take("finalize", b)
    PROVE  JobInv'
<1>1. Pending' = {}
  BY DEF Pending
<1> QED
  BY <1>1 DEF Take, NoJob, JobInv, At, Calm, planVars

LEMMA CommitNodeKeeps ==
    ASSUME StoreInv, NEW b \in plans, NEW n \in Units(b), NEW missing, CommitNode(b, n, missing)
    PROVE  StoreInv'
<1>1. Pending = {} /\ Pending' = {}
  BY DEF CommitNode, Recovered, NothingToRecover, Pending
<1>2. CASE HasReceipt(b, n)
  <2>1. UNCHANGED nodeVars /\ JobInv'
    BY <1>1, <1>2, FinalizeTaken DEF CommitNode, nodeVars
  <2> QED
    BY <2>1, OnlyJob DEF CommitNode
<1>3. CASE ~HasReceipt(b, n)
  <2> DEFINE o == [batch |-> b, node |-> n, missing |-> missing]
  <2>1. /\ outputs' = {x \in outputs : <<x.batch, x.node>> # <<b, n>>} \cup {o}
        /\ job' = [pc |-> "receipt", item |-> b, node |-> n, missing |-> missing]
        /\ ReadyNode(b, n) /\ Valid(b, n, missing)
    BY <1>3 DEF CommitNode
  <2>2. NodeInv'
    <3>1. \A r \in receipts :
            [batch |-> r.batch, node |-> r.node, missing |-> r.missing] \in outputs'
      <4> SUFFICES ASSUME NEW r \in receipts
                   PROVE  [batch |-> r.batch, node |-> r.node, missing |-> r.missing] \in outputs'
        OBVIOUS
      <4>1. r.batch # b \/ r.node # n
        BY <1>3 DEF HasReceipt
      <4>2. [batch |-> r.batch, node |-> r.node, missing |-> r.missing] \in outputs
        BY DEF StoreInv, NodeInv
      <4> QED
        BY <2>1, <4>1, <4>2
    <3>2. UNCHANGED <<receipts, covered, anchors, plans>>
      BY DEF CommitNode, planVars
    <3> QED
      BY <3>1, <3>2 DEF StoreInv, NodeInv, Valid, Unreadable, Units, Count, Lies
  <2>3. JobInv'
    <3>1. ReceiptDue'
      BY <1>3, <2>1 DEF CommitNode, planVars, ReceiptDue, Units, Count, Valid, Unreadable,
                        ReadyNode, HasReceipt
    <3> QED
      BY <1>1, <2>1, <3>1 DEF JobInv, At, Calm
  <2>4. SummedKept
    BY SummedStays DEF CommitNode
  <2> QED
    BY <2>2, <2>3, <2>4, OnlyNodes DEF CommitNode
<1> QED
  BY <1>2, <1>3

LEMMA ReceiptFound ==
    ASSUME NodeInv, NEW r \in receipts
    PROVE  ReceiptOf(r.batch, r.node) = r
BY DEF NodeInv, ReceiptOf

LEMMA LiesNat == ASSUME NEW b, Count(b) \in Nat, NEW c PROVE Lies(b, c) \in Nat
<1>1. FragmentsBelow(Count(b), c) \in SUBSET Fragments(Count(b))
  BY DEF FragmentsBelow
<1> QED
  BY <1>1, FragmentsFinite, FS_Subset, FS_CardinalityType DEF Lies

LEMMA CountNat == ASSUME BatchInv, NEW b \in Prepared PROVE Count(b) \in Nat
BY DEF BatchInv, IsSeq, Count

\* A unit whose children have their receipts counts no more than lies below it.
LEMMA DueCountBounded ==
    ASSUME StoreInv, ReceiptDue
    PROVE  MissingCount(job.item, job.node, job.missing) \in 0..Lies(job.item, job.node)
<1> DEFINE b == job.item
           n == job.node
<1>1. Count(b) \in Nat /\ n \in Units(b) /\ ReadyNode(b, n)
  BY CountNat DEF StoreInv, ReceiptDue, Prepared
<1>2. ASSUME NEW c \in Below(Count(b), n)
      PROVE  Inherited(b, n, job.missing, c) \in 0..Lies(b, c)
  <2>1. Lies(b, c) \in Nat
    BY <1>1, LiesNat
  <2>2. CASE c \in job.missing
    BY <2>1, <2>2 DEF Inherited, Lies
  <2>3. CASE c \notin job.missing /\ n[1] = 0
    BY <1>2, <2>1, <2>3 DEF Inherited
  <2>4. CASE c \notin job.missing /\ n[1] # 0
    <3>1. PICK r \in receipts : r.batch = b /\ r.node = c
      BY <1>1, <2>4 DEF ReadyNode, HasReceipt
    <3>2. ReceiptOf(b, c) = r /\ r.count \in 0..Lies(b, c)
      BY <3>1, ReceiptFound DEF StoreInv, NodeInv
    <3> QED
      BY <1>2, <2>4, <3>2 DEF Inherited
  <2> QED
    BY <2>2, <2>3, <2>4
<1> HIDE DEF b, n
<1>3. MissingCount(b, n, job.missing) \in 0..Lies(b, n)
  BY <1>1, <1>2, CountBounded
<1> QED
  BY <1>3 DEF b, n

LEMMA WriteReceiptKeeps == ASSUME StoreInv, WriteReceipt PROVE StoreInv'
<1>1. ReceiptDue /\ Pending = {}
  BY DEF WriteReceipt, At, Calm, StoreInv, JobInv
<1>2. PICK r : r = [batch |-> job.item, node |-> job.node, missing |-> job.missing,
                    count |-> MissingCount(job.item, job.node, job.missing)]
  OBVIOUS
<1>3. receipts' = receipts \cup {r}
  BY <1>2 DEF WriteReceipt
<1>4. /\ r.batch \in plans /\ r.node \in Units(r.batch)
      /\ Valid(r.batch, r.node, r.missing) /\ ~HasReceipt(r.batch, r.node)
      /\ r.count \in 0..Lies(r.batch, r.node)
      /\ [batch |-> r.batch, node |-> r.node, missing |-> r.missing] \in outputs
  BY <1>1, <1>2, DueCountBounded DEF ReceiptDue
<1>5. UNCHANGED <<outputs, covered, anchors, plans>>
  BY DEF WriteReceipt, planVars
<1>6. NodeInv'
  <2>1. \A q \in receipts' :
         /\ q.batch \in plans /\ q.node \in Units(q.batch)
         /\ Valid(q.batch, q.node, q.missing)
         /\ q.count \in 0..Lies(q.batch, q.node)
         /\ [batch |-> q.batch, node |-> q.node, missing |-> q.missing] \in outputs
    BY <1>3, <1>4 DEF StoreInv, NodeInv
  <2>2. \A p, q \in receipts' : p.batch = q.batch /\ p.node = q.node => p = q
    BY <1>3, <1>4 DEF StoreInv, NodeInv, HasReceipt
  <2> QED
    BY <1>5, <2>1, <2>2 DEF StoreInv, NodeInv, Valid, Unreadable, Units, Count, Lies
<1>7. SummedKept
  BY <1>3, <1>5, SummedStays
<1>8. JobInv'
  <2>1. PICK b \in plans : b = job.item
    BY <1>1 DEF ReceiptDue
  <2>2. Take("finalize", b)
    BY <2>1 DEF WriteReceipt
  <2> QED
    BY <1>1, <2>2, FinalizeTaken DEF WriteReceipt
<1> QED
  BY <1>5, <1>6, <1>7, <1>8, OnlyNodes DEF WriteReceipt

LEMMA StatusFound ==
    ASSUME IntentInv, NEW i \in intents
    PROVE  StatusOf(i.batch) = i.status
BY DEF IntentInv, StatusOf

LEMMA FinalizeKeeps ==
    ASSUME StoreInv, NEW b \in plans, Pending = {}, Finalize(b)
    PROVE  StoreInv'
<1>1. UNCHANGED <<planVars, intents, outputs, receipts, anchors>> /\ Pending' = {}
  BY DEF Finalize, Pending
<1> DEFINE fit == /\ HasReceipt(b, RootOf(b)) /\ ~Committed(b) /\ SourcesUnchanged(b)
                  /\ ReceiptOf(b, RootOf(b)).count = Cardinality(Coverage(b))
<1>2. CASE ~fit
  <2>1. Return /\ UNCHANGED nodeVars
    BY <1>1, <1>2 DEF Finalize, nodeVars
  <2>2. JobInv'
    BY <2>1, ReturnReleases, ReleasedOwesNothing
  <2> QED
    BY <2>1, <2>2, OnlyJob DEF Finalize
<1>3. CASE fit
  <2>1. PICK c : c = [batch |-> b, missing |-> Coverage(b)]
    OBVIOUS
  <2>2. covered' = {x \in covered : x.batch # b} \cup {c} /\ Take("anchor", b)
    BY <1>3, <2>1 DEF Finalize
  <2>3. PICK r \in receipts : r.batch = b /\ r.node = RootOf(b)
    BY <1>3 DEF HasReceipt
  <2>4. r.count = Cardinality(c.missing) /\ c.batch = b
    <3>1. ReceiptOf(b, RootOf(b)) = r
      BY <2>3, ReceiptFound DEF StoreInv
    <3> QED
      BY <1>3, <2>1, <3>1
  <2>5. NodeInv'
    BY <1>1, <2>2, <2>4
       DEF StoreInv, NodeInv, planVars, Valid, Unreadable, Units, Count, Lies
  <2>6. RootOf(b)' = RootOf(b)
    BY DEF RootOf, Count
  <2>7. SummedKept
    <3> SUFFICES ASSUME NEW d, NEW missing, RootSummed(d, missing)
                 PROVE  RootSummed(d, missing)'
      BY DEF SummedKept
    <3>1. CASE d # b
      BY <1>1, <2>2, <3>1 DEF RootSummed, RootOf, Count
    <3>2. CASE d = b
      <4>1. r.missing = missing
        BY <2>3, <3>2 DEF RootSummed, StoreInv, NodeInv
      <4> QED
        BY <1>1, <2>2, <2>3, <2>4, <2>6, <3>2, <4>1 DEF RootSummed
    <3> QED
      BY <3>1, <3>2
  <2>8. RootSummed(b, r.missing)'
    BY <1>1, <2>2, <2>3, <2>4, <2>6 DEF RootSummed
  <2>9. Announced(b)
    <3>1. PICK i \in intents : i.batch = b
      BY DEF StoreInv, IntentInv
    <3>2. i.status # "committed"
      BY <1>3, <3>1, StatusFound DEF Committed, StoreInv
    <3>3. i.status # "pending"
      BY <3>1 DEF Pending
    <3> QED
      BY <3>1, <3>2, <3>3 DEF Announced, StoreInv, IntentInv, GoodIntent
  <2>10. JobInv'
    BY <1>1, <2>2, <2>8, <2>9 DEF Take, NoJob, JobInv, At, Calm, CommitDue, Announced, planVars
  <2> QED
    BY <1>1, <2>5, <2>7, <2>10, OnlyNodes DEF Finalize
<1> QED
  BY <1>2, <1>3

LEMMA WriteAnchorKeeps == ASSUME StoreInv, WriteAnchor PROVE StoreInv'
<1>0. PICK b, image : b = job.item /\ image = text[Target(b)]
  OBVIOUS
<1>1. CommitDue /\ Pending = {} /\ Pending' = {}
  BY DEF WriteAnchor, At, Calm, StoreInv, JobInv, Pending
<1>2. UNCHANGED <<planVars, intents, outputs, receipts, covered>>
  BY DEF WriteAnchor
<1>3. anchors' = IF HasAnchor(b) THEN anchors
                 ELSE anchors \cup {[batch |-> b, before |-> image]}
  BY <1>0 DEF WriteAnchor
<1>4. NodeInv'
  BY <1>2, <1>3
     DEF StoreInv, NodeInv, HasAnchor, planVars, Valid, Unreadable, Units, Count, Lies
<1>5. job' = [pc |-> "pending", item |-> b, node |-> job.node, missing |-> job.missing]
  BY <1>0 DEF WriteAnchor, Go, StoreInv, JobInv
<1>6. HasAnchor(b)'
  <2>1. CASE HasAnchor(b)
    BY <1>3, <2>1 DEF HasAnchor
  <2>2. CASE ~HasAnchor(b)
    <3>1. [batch |-> b, before |-> image] \in anchors'
      BY <1>3, <2>2
    <3>2. [batch |-> b, before |-> image].batch = b
      OBVIOUS
    <3> QED
      BY <3>1, <3>2 DEF HasAnchor
  <2> QED
    BY <2>1, <2>2
<1>7. SummedKept
  BY <1>2, SummedStays
<1>8. JobInv'
  <2>1. CommitDue'
    BY <1>0, <1>1, <1>2, <1>5, <1>7 DEF CommitDue, Announced, SummedKept, planVars
  <2> QED
    BY <1>1, <1>5, <1>6, <2>1 DEF JobInv, At, Calm
<1> QED
  BY <1>2, <1>3, <1>4, <1>7, <1>8, OnlyNodes DEF WriteAnchor

LEMMA WritePendingKeeps == ASSUME StoreInv, WritePending PROVE StoreInv'
<1>0. PICK b, before, missing :
        /\ b = job.item /\ before = BeforeOf(b) /\ missing = ReceiptOf(b, RootOf(b)).missing
  OBVIOUS
<1>1. CommitDue /\ HasAnchor(b) /\ Pending = {}
  BY <1>0 DEF WritePending, At, Calm, StoreInv, JobInv
<1>2. b \in plans /\ \E any : RootSummed(b, any)
  BY <1>0, <1>1 DEF CommitDue
<1>3. PICK i \in intents : i.batch = b /\ i.status = "partitioning"
  BY <1>0, <1>1 DEF CommitDue, Announced
<1>4. PICK k : k = [batch |-> b, status |-> "pending", before |-> before, missing |-> missing]
  OBVIOUS
<1>5. intents' = (intents \ {i}) \cup {k}
  <2>1. IntentOf(b) = i
    BY <1>3, IntentFound DEF StoreInv
  <2> QED
    BY <1>0, <1>4, <2>1 DEF WritePending
<1>6. UNCHANGED <<frozen, prepared, plans, outputs, receipts, covered, anchors>>
  BY DEF WritePending, planVars, nodeVars
<1>7. CommitsKept
  BY <1>3, <1>5 DEF CommitsKept
<1>8. Vouched(k)
  <2>1. PICK any : RootSummed(b, any)
    BY <1>2
  <2>2. any = missing
    <3>1. PICK r \in receipts : r.batch = b /\ r.node = RootOf(b) /\ r.missing = any
      BY <2>1 DEF RootSummed
    <3>2. ReceiptOf(b, RootOf(b)) = r
      BY <3>1, ReceiptFound DEF StoreInv
    <3> QED
      BY <1>0, <3>1, <3>2
  <2>3. PICK a \in anchors : a.batch = b
    BY <1>1 DEF HasAnchor
  <2>4. a.before = before
    BY <1>0, <2>3 DEF BeforeOf, StoreInv, NodeInv
  <2> QED
    BY <1>2, <1>4, <2>1, <2>2, <2>3, <2>4 DEF Vouched
<1>9. IntentInv'
  <2>1. \A x : Vouched(x) => Vouched(x)'
    BY VouchedKept DEF WritePending, planVars
  <2>2. Prepared' = Prepared
    BY <1>6 DEF Prepared
  <2>3. \A x \in intents' : GoodIntent(x)'
    <3>1. \A x \in intents : GoodIntent(x)'
      BY <1>6, <2>1, <2>2 DEF StoreInv, IntentInv, GoodIntent, Partitioned
    <3>2. b \in Prepared /\ b \notin prepared
      BY <1>2 DEF Prepared, StoreInv, BatchInv
    <3>3. GoodIntent(k)'
      BY <1>4, <1>6, <1>8, <2>1, <2>2, <3>2 DEF GoodIntent, Partitioned
    <3> QED
      BY <1>5, <3>1, <3>3
  <2>4. \A x, y \in intents' : x.batch = y.batch => x = y
    BY <1>3, <1>4, <1>5 DEF StoreInv, IntentInv
  <2>5. \A x, y \in Pending' : x = y
    BY <1>1, <1>5 DEF Pending
  <2>6. \A d \in plans' : \E x \in intents' : x.batch = d
    BY <1>3, <1>4, <1>5, <1>6 DEF StoreInv, IntentInv
  <2> QED
    BY <2>3, <2>4, <2>5, <2>6 DEF IntentInv
<1>10. JobInv'
  BY RecoverReleases, ReleasedOwesNothing DEF WritePending
<1> QED
  BY <1>7, <1>9, <1>10, OnlyIntents DEF WritePending

-----------------------------------------------------------------------------
(* Every step keeps the invariant. *)

LEMMA StoreStutters == ASSUME StoreInv, UNCHANGED vars PROVE StoreInv'
<1>1. JobInv'
  BY JobKept DEF vars, StoreInv, eventVars, planVars
<1> QED
  BY <1>1, OnlyJob DEF vars

LEMMA StoreStep == ASSUME StoreInv, [Next]_vars PROVE StoreInv'
<1>1. CASE EventStep
  BY <1>1, AppendEventKeeps, RecoverEventKeeps, WriteTraceKeeps, IndexEventKeeps, AckEventKeeps
     DEF EventStep
<1>2. CASE RecoveryStep
  BY <1>2, RecoverKeeps, RecoverPlanKeeps, RecoverTargetKeeps, StampIntentKeeps, EndRecoveryKeeps
     DEF RecoveryStep
<1>3. CASE PrepareStep
  BY <1>3, PrepareLegacyKeeps, StartBuildKeeps, ReadSourcesKeeps, ListUpstreamKeeps,
     PublishKeeps, WriteIntentKeeps, RenamePlanKeeps DEF PrepareStep
<1>4. CASE CommitStep
  <2>1. ASSUME NEW b \in plans, NextNodes(b)
        PROVE  StoreInv'
    BY <2>1, FinalizeKeeps DEF NextNodes, Recovered, NothingToRecover
  <2>2. CASE FinalizeAfterNode
    <3>1. job.item \in plans /\ Pending = {}
      BY <2>2 DEF FinalizeAfterNode, At, Calm, StoreInv, JobInv
    <3>2. PICK b \in plans : b = job.item
      BY <3>1
    <3>3. Finalize(b)
      BY <2>2, <3>2 DEF FinalizeAfterNode
    <3> QED
      BY <3>1, <3>3, FinalizeKeeps
  <2> QED
    BY <1>4, <2>1, <2>2, CommitSummaryKeeps, CommitNodeKeeps, WriteReceiptKeeps,
       WriteAnchorKeeps, WritePendingKeeps DEF CommitStep
<1>5. CASE HolderFails \/ BuildFails \/ \E m \in Notes : Edit(m)
  BY <1>5, HolderFailsKeeps, BuildFailsKeeps, EditKeeps
<1>6. CASE UNCHANGED vars
  BY <1>6, StoreStutters
<1> QED
  BY <1>1, <1>2, <1>3, <1>4, <1>5, <1>6 DEF Next

LEMMA StoreHolds == Spec => []StoreInv
BY InitStore, StoreStep, PTL DEF Spec

-----------------------------------------------------------------------------
(* What it says of the properties. *)

LEMMA EvidenceFound ==
    ASSUME StoreInv, NEW i \in intents, Vouched(i)
    PROVE  EvidenceHolds(i)
<1> DEFINE b == i.batch
<1>1. PICK a \in anchors : a.batch = b /\ a.before = i.before
  BY DEF Vouched
<1>2. PICK r \in receipts, c \in covered :
        /\ r.batch = b /\ r.node = RootOf(b) /\ r.missing = i.missing
        /\ c.batch = b /\ r.count = Cardinality(c.missing)
  BY DEF Vouched, RootSummed
<1>3. ReceiptOf(b, RootOf(b)) = r
  BY <1>2, ReceiptFound DEF StoreInv
<1>4. CoverageOf(b) = c.missing
  BY <1>2 DEF CoverageOf, StoreInv, NodeInv
<1>5. BeforeOf(b) = i.before
  BY <1>1 DEF BeforeOf, StoreInv, NodeInv
<1>6. b \in plans /\ HasAnchor(b) /\ HasReceipt(b, RootOf(b)) /\ \E x \in covered : x.batch = b
  BY <1>1, <1>2 DEF Vouched, HasAnchor, HasReceipt
<1> QED
  BY <1>2, <1>3, <1>4, <1>5, <1>6 DEF EvidenceHolds

LEMMA InvAgrees == StoreInv => EvidenceAgrees
<1> SUFFICES ASSUME StoreInv PROVE EvidenceAgrees
  OBVIOUS
<1>1. TypeOK
  <2>1. /\ DOMAIN text = Files
        /\ trace \in [Events -> {"absent", "intact"} \cup Notes]
        /\ raw \subseteq Events /\ indexed \subseteq raw /\ acked \subseteq indexed
        /\ plans \cap prepared = {}
    BY DEF StoreInv, TextInv, EventInv, BatchInv
  <2>2. /\ {i.batch : i \in intents} \subseteq Prepared
        /\ \A i \in intents : i.status \in {"partitioning", "pending", "committed"}
        /\ \A i, k \in intents : i.batch = k.batch => i = k
    BY DEF StoreInv, IntentInv, GoodIntent
  <2>3. \A r \in receipts :
          /\ r.batch \in plans /\ r.node \in Units(r.batch)
          /\ Valid(r.batch, r.node, r.missing)
          /\ r.count \in 0..Cardinality(FragmentsBelow(Count(r.batch), r.node))
    BY DEF StoreInv, NodeInv, Lies
  <2> QED
    BY <2>1, <2>2, <2>3 DEF TypeOK
<1>2. Cardinality(Pending) <= 1
  <2>1. CASE Pending = {}
    BY <2>1, FS_EmptySet
  <2>2. CASE Pending # {}
    <3>1. PICK i \in Pending : TRUE
      BY <2>2
    <3>2. Pending = {i}
      BY DEF StoreInv, IntentInv
    <3>3. Cardinality({i}) = 1
      BY FS_Singleton
    <3> QED
      BY <3>2, <3>3
  <2> QED
    BY <2>1, <2>2
<1>3. \A i \in intents :
        Partitioned(i.batch) /\ i.status # "partitioning" => EvidenceHolds(i)
  BY EvidenceFound DEF StoreInv, IntentInv, GoodIntent
<1> QED
  BY <1>1, <1>2, <1>3 DEF EvidenceAgrees

(***************************************************************************)
(* RecordsAgree: through any crashes, retries and edits the records of the *)
(* store have their form, one commit at most is in progress, and the       *)
(* evidence of every commit is whole and agrees with it (recover_plan).    *)
(***************************************************************************)
THEOREM RecordsAgree == Spec => []EvidenceAgrees
BY StoreHolds, InvAgrees, PTL

(***************************************************************************)
(* GapsAreListed: each partitioned summary in the frozen sources of        *)
(* another is listed upstream, although sources and commits are read       *)
(* outside the lock, one after the other (embedded_references, _upstream). *)
(***************************************************************************)
THEOREM GapsAreListed == Spec => []NoGapLost
<1>1. StoreInv => NoGapLost
  BY DEF StoreInv, BatchInv, NoGapLost
<1> QED
  BY <1>1, StoreHolds, PTL

(***************************************************************************)
(* AcknowledgedStays: an acknowledged event has its original, its file and *)
(* its index entry, and the receipt of a unit the text it vouches for,     *)
(* wherever the process died (append_event, commit_node).                  *)
(***************************************************************************)
THEOREM AcknowledgedStays == Spec => []AcknowledgedKept
<1>1. StoreInv => AcknowledgedKept
  BY DEF StoreInv, EventInv, NodeInv, AcknowledgedKept
<1> QED
  BY <1>1, StoreHolds, PTL

LEMMA OverlooksNothing ==
    ASSUME StoreInv, [Next]_vars, NEW b \in Prepared' \ Prepared
    PROVE  b.sources = SourcesOf(b.period)
<1>1. CASE \E p \in Windows \cup {Day} : PrepareLegacy(p)
  <2>1. PICK p \in Windows \cup {Day} : PrepareLegacy(p)
    BY <1>1
  <2>2. b = [period |-> p, form |-> "legacy", sources |-> SourcesOf(p), upstream |-> {}]
    BY <2>1 DEF PrepareLegacy, Prepared
  <2> QED
    BY <2>2
<1>2. CASE Publish
  <2>1. b = BuiltBatch /\ build.inventory = Inventory(build.period)
    BY <1>2 DEF Publish, Prepared
  <2>2. build.period \in Windows \cup {Day}
        /\ build.sources = SourcesFrom(build.period, build.inventory)
    BY <1>2 DEF Publish, StoreInv, BuildInv
  <2>3. SourcesOf(build.period) = SourcesFrom(build.period, Inventory(build.period))
    BY <2>2, SourcesAreSeq DEF StoreInv
  <2> QED
    BY <2>1, <2>2, <2>3 DEF BuiltBatch
<1>3. CASE RecoverPlan
  <2>1. Prepared' = Prepared
    BY <1>3 DEF RecoverPlan, Unpublished, Prepared
  <2> QED
    BY <2>1
<1>4. CASE RenamePlan
  <2>1. Prepared' = Prepared
    BY <1>4 DEF RenamePlan, At, StoreInv, JobInv, Prepared
  <2> QED
    BY <2>1
<1>5. CASE UNCHANGED planVars
  <2>1. Prepared' = Prepared
    BY <1>5 DEF planVars, Prepared
  <2> QED
    BY <2>1
<1>6. \/ \E p \in Windows \cup {Day} : PrepareLegacy(p)
      \/ Publish \/ RecoverPlan \/ RenamePlan \/ UNCHANGED planVars
  <2>1. EventStep => UNCHANGED planVars
    BY DEF EventStep, AppendEvent, RecoverEvent, WriteTrace, IndexEvent, AckEvent
  <2>2. RecoveryStep => RecoverPlan \/ UNCHANGED planVars
    BY DEF RecoveryStep, Recover, RecoverTarget, StampIntent, EndRecovery
  <2>3. PrepareStep => \/ \E p \in Windows \cup {Day} : PrepareLegacy(p)
                       \/ Publish \/ RenamePlan \/ UNCHANGED planVars
    BY DEF PrepareStep, StartBuild, ReadSources, ListUpstream, WriteIntent
  <2>4. CommitStep => UNCHANGED planVars
    BY DEF CommitStep, CommitSummary, CommitNode, NextNodes, FinalizeAfterNode, Finalize,
           WriteReceipt, WriteAnchor, WritePending
  <2>5. HolderFails \/ BuildFails \/ (\E m \in Notes : Edit(m)) => UNCHANGED planVars
    BY DEF HolderFails, BuildFails, Edit
  <2>6. UNCHANGED vars => UNCHANGED planVars
    BY DEF vars
  <2> QED
    BY <2>1, <2>2, <2>3, <2>4, <2>5, <2>6 DEF Next
<1> QED
  BY <1>1, <1>2, <1>3, <1>4, <1>5, <1>6

(***************************************************************************)
(* NoneOverlooked: a batch enters the store with every source that its     *)
(* window has at that moment, although a plan is built outside the lock    *)
(* (_prepare_legacy_summary, prepare).                                     *)
(***************************************************************************)
THEOREM NoneOverlooked == Spec => NothingOverlooked
<1>1. StoreInv /\ [Next]_vars =>
        [\A b \in Prepared' \ Prepared : b.sources = SourcesOf(b.period)]_vars
  BY OverlooksNothing
<1> QED
  BY <1>1, StoreHolds, PTL DEF Spec, NothingOverlooked

-----------------------------------------------------------------------------
(***************************************************************************)
(* The abstract ledger.  What a file holds was written into it, and what   *)
(* it held before a batch was added is not what it holds afterwards: an    *)
(* editor writes no text twice, and none that is a batch.                  *)
(***************************************************************************)
NotesAreNoBatches ==
    \A m \in Notes : \A p, f, s, u :
        m # [period |-> p, form |-> f, sources |-> s, upstream |-> u]

\* An image of the file from before its batch was added.
Earlier(a) ==
    /\ IsSeq(a.before) /\ ToSet(a.before) \subseteq notes \cup written
    /\ a.batch \notin ToSet(a.before)

NotAgain(i) ==
    i.batch \in written => ~(ToSet(text[Target(i.batch)]) \subseteq ToSet(i.before))

WrittenInv ==
    /\ notes \subseteq Notes /\ written \subseteq Prepared
    /\ \A f \in Files : ToSet(text[f]) \subseteq notes \cup written
    /\ \A b \in written : \E i \in intents : i.batch = b
    /\ \A i \in intents :
         /\ i.status = "partitioning" => i.batch \notin written
         /\ i.status = "committed" => i.batch \in written
    /\ \A a \in anchors : Earlier(a)
    /\ \A i \in Pending : Earlier(i) /\ NotAgain(i)
    /\ At("stamp") => job.item \in written

LEMMA AppendedSet ==
    ASSUME NEW s, IsSeq(s), NEW x
    PROVE  IsSeq(Append(s, x)) /\ ToSet(Append(s, x)) = ToSet(s) \cup {x}
<1>1. s \in Seq(ToSet(s)) /\ Len(s) \in Nat /\ DOMAIN s = 1..Len(s)
  BY DEF IsSeq
<1>2. /\ Append(s, x) \in Seq(ToSet(s) \cup {x}) /\ DOMAIN Append(s, x) = 1..(Len(s) + 1)
      /\ Append(s, x)[Len(s) + 1] = x /\ \A k \in 1..Len(s) : Append(s, x)[k] = s[k]
  BY <1>1
<1>3. ToSet(Append(s, x)) = ToSet(s) \cup {x}
  <2>1. ToSet(Append(s, x)) \subseteq ToSet(s) \cup {x}
    BY <1>2, TypedIsSeq
  <2>2. x \in ToSet(Append(s, x))
    BY <1>1, <1>2 DEF ToSet
  <2>3. \A k \in 1..Len(s) : s[k] \in ToSet(Append(s, x))
    BY <1>1, <1>2 DEF ToSet
  <2> QED
    BY <1>1, <2>1, <2>2, <2>3 DEF ToSet
<1> QED
  BY <1>2, <1>3, TypedIsSeq

LEMMA TextIsSeq == ASSUME TextInv, NEW f \in Files PROVE IsSeq(text[f])
BY TypedIsSeq DEF TextInv

LEMMA BatchIsNoNote ==
    ASSUME NotesAreNoBatches, BatchInv, NEW b \in Prepared
    PROVE  b \notin Notes
BY DEF NotesAreNoBatches, BatchInv

LEMMA WrittenKept ==
    ASSUME WrittenInv, UNCHANGED <<text, written, notes, intents, anchors>>,
           Prepared \subseteq Prepared', job'.pc = "stamp" => job' = job
    PROVE  WrittenInv'
BY DEF WrittenInv, Earlier, NotAgain, Pending, Target, At, IsSeq

\* The ledger sees a step that leaves files and commits alone as a preparation.
LEMMA PreparesOnly ==
    ASSUME UNCHANGED <<text, written, intents>>, Prepared \subseteq Prepared'
    PROVE  [Promised!LedgerNext]_(Promised!ledgerVars)
BY DEF Promised!LedgerNext, Promised!Prepare, Promised!ledgerVars

Mirrors == WrittenInv' /\ [Promised!LedgerNext]_(Promised!ledgerVars)

LEMMA QuietMirrors ==
    ASSUME WrittenInv, UNCHANGED <<text, written, notes, intents, anchors>>,
           Prepared \subseteq Prepared', job'.pc = "stamp" => job' = job
    PROVE  Mirrors
BY WrittenKept, PreparesOnly DEF Mirrors

Done == {i.batch : i \in {i \in intents : i.status = "committed"}}

\* A new image of a file belongs to a batch that was not written.
LEMMA ImageIsEarlier ==
    ASSUME NotesAreNoBatches, StoreInv, WrittenInv, NEW b \in Prepared \ written
    PROVE  /\ IsSeq(text[Target(b)]) /\ ToSet(text[Target(b)]) \subseteq notes \cup written
           /\ b \notin ToSet(text[Target(b)])
<1>1. Target(b) \in Files
  BY DEF Target, Files
<1>2. b \notin Notes /\ notes \subseteq Notes
  BY BatchIsNoNote DEF StoreInv, WrittenInv
<1> QED
  BY <1>1, <1>2, TextIsSeq DEF StoreInv, WrittenInv

\* A new intent that is not committed yet, of a batch that has none.
LEMMA AddedMirrors ==
    ASSUME WrittenInv, NEW k, intents' = intents \cup {k}, k.batch \notin written,
           k.status \in {"partitioning", "pending"}, k.status = "pending" => Earlier(k),
           UNCHANGED <<text, written, notes, anchors, planVars>>, job'.pc # "stamp"
    PROVE  Mirrors
<1>1. UNCHANGED <<Prepared, Done>>
  BY DEF Prepared, planVars, Done
<1>2. WrittenInv'
  BY <1>1 DEF WrittenInv, Earlier, NotAgain, Pending, Target, At, IsSeq
<1> QED
  BY <1>1, <1>2 DEF Mirrors, Promised!ledgerVars, Done

LEMMA WriteIntentMirrors ==
    ASSUME StoreInv, WrittenInv, WriteIntent
    PROVE  Mirrors
<1>1. job'.pc # "stamp"
  BY DEF WriteIntent, Go, StoreInv, JobInv
<1>2. CASE StatusOf(job.item) = "none"
  <2>1. PICK k : k = [batch |-> job.item, status |-> "partitioning", before |-> <<>>,
                      missing |-> {}]
    OBVIOUS
  <2>2. intents' = intents \cup {k}
    BY <1>2, <2>1 DEF WriteIntent
  <2>3. k.batch \notin written
    BY <1>2, <2>1, StatusNone DEF StoreInv, WrittenInv
  <2>4. k.status = "partitioning"
    BY <2>1
  <2> QED
    BY <1>1, <2>2, <2>3, <2>4, AddedMirrors DEF WriteIntent, historyVars, nodeVars
<1>3. CASE StatusOf(job.item) # "none"
  <2>1. intents' = intents /\ Prepared' = Prepared
    BY <1>3 DEF WriteIntent, planVars, Prepared
  <2> QED
    BY <1>1, <2>1, QuietMirrors DEF WriteIntent, historyVars, nodeVars
<1> QED
  BY <1>2, <1>3

LEMMA CommitSummaryMirrors ==
    ASSUME NotesAreNoBatches, StoreInv, WrittenInv,
           NEW b \in frozen, NEW missing, CommitSummary(b, missing)
    PROVE  Mirrors
<1>1. PICK k : k = [batch |-> b, status |-> "pending", before |-> text[Target(b)],
                    missing |-> missing]
  OBVIOUS
<1>2. intents' = intents \cup {k}
  BY <1>1 DEF CommitSummary
<1>3. b \in Prepared \ written
  BY StatusNone DEF CommitSummary, StoreInv, WrittenInv, Prepared
<1>4. Earlier(k)
  BY <1>1, <1>3, ImageIsEarlier DEF Earlier
<1>5. job'.pc # "stamp"
  BY DEF CommitSummary, Go, StoreInv, JobInv
<1>6. k.batch = b /\ k.status = "pending"
  BY <1>1
<1> QED
  BY <1>2, <1>3, <1>4, <1>5, <1>6, AddedMirrors DEF CommitSummary, historyVars, nodeVars

LEMMA WriteAnchorMirrors ==
    ASSUME NotesAreNoBatches, StoreInv, WrittenInv, WriteAnchor
    PROVE  Mirrors
<1>1. job.item \in Prepared \ written
  BY DEF WriteAnchor, At, StoreInv, JobInv, CommitDue, Announced, WrittenInv, Prepared
<1>2. PICK a : a = [batch |-> job.item, before |-> text[Target(job.item)]]
  OBVIOUS
<1>3. Earlier(a)
  BY <1>1, <1>2, ImageIsEarlier DEF Earlier
<1>4. anchors' \subseteq anchors \cup {a}
  BY <1>2 DEF WriteAnchor
<1>5. UNCHANGED <<text, written, notes, intents>> /\ Prepared' = Prepared
  BY DEF WriteAnchor, historyVars, planVars, Prepared
<1>6. job'.pc # "stamp"
  BY DEF WriteAnchor, Go, StoreInv, JobInv
<1>7. \A x \in anchors' : Earlier(x)
  BY <1>3, <1>4 DEF WrittenInv
<1>8. WrittenInv'
  BY <1>5, <1>6, <1>7 DEF WrittenInv, Earlier, NotAgain, Pending, Target, At, IsSeq
<1> QED
  BY <1>5, <1>8, PreparesOnly DEF Mirrors

LEMMA WritePendingMirrors ==
    ASSUME StoreInv, WrittenInv, WritePending
    PROVE  Mirrors
<1>0. PICK b : b = job.item
  OBVIOUS
<1>1. CommitDue /\ HasAnchor(b) /\ Pending = {}
  BY <1>0 DEF WritePending, At, Calm, StoreInv, JobInv
<1>2. PICK i \in intents : i.batch = b /\ i.status = "partitioning"
  BY <1>0, <1>1 DEF CommitDue, Announced
<1>3. PICK k : k = [batch |-> b, status |-> "pending", before |-> BeforeOf(b),
                    missing |-> ReceiptOf(b, RootOf(b)).missing]
  OBVIOUS
<1>4. intents' = (intents \ {i}) \cup {k}
  <2>1. IntentOf(b) = i
    BY <1>2, IntentFound DEF StoreInv
  <2> QED
    BY <1>0, <1>3, <2>1 DEF WritePending
<1>5. b \notin written
  BY <1>2 DEF WrittenInv
<1>6. Earlier(k)
  <2>1. PICK a \in anchors : a.batch = b
    BY <1>1 DEF HasAnchor
  <2>2. a.before = BeforeOf(b)
    BY <2>1 DEF BeforeOf, StoreInv, NodeInv
  <2> QED
    BY <1>3, <2>1, <2>2 DEF WrittenInv, Earlier
<1>7. UNCHANGED <<text, written, notes, anchors>> /\ Prepared' = Prepared
  BY DEF WritePending, historyVars, nodeVars, planVars, Prepared
<1>8. Done' = Done
  BY <1>2, <1>3, <1>4 DEF Done
<1>9. WrittenInv'
  <2>1. Pending' = {k}
    BY <1>1, <1>3, <1>4 DEF Pending
  <2>2. job'.pc # "stamp"
    BY DEF WritePending, Take, NoJob
  <2>3. \A d \in written : \E x \in intents' : x.batch = d
    BY <1>2, <1>4, <1>5 DEF WrittenInv
  <2>4. \A x \in intents' :
          /\ x.status = "partitioning" => x.batch \notin written
          /\ x.status = "committed" => x.batch \in written
    BY <1>3, <1>4 DEF WrittenInv
  <2>5. Earlier(k)' /\ NotAgain(k)' /\ \A a \in anchors' : Earlier(a)'
    BY <1>3, <1>5, <1>6, <1>7 DEF WrittenInv, Earlier, NotAgain, IsSeq
  <2> QED
    BY <1>7, <2>1, <2>2, <2>3, <2>4, <2>5 DEF WrittenInv, At
<1> QED
  BY <1>7, <1>8, <1>9 DEF Mirrors, Promised!ledgerVars, Done

LEMMA StampIntentMirrors ==
    ASSUME StoreInv, WrittenInv, StampIntent
    PROVE  Mirrors
<1>1. PICK i \in Pending : i.batch = job.item
  BY DEF StampIntent, At, StoreInv, JobInv
<1>2. i \in intents /\ i.status = "pending" /\ IntentOf(job.item) = i
  BY <1>1, IntentFound DEF Pending, StoreInv
<1>3. PICK k : k = [i EXCEPT !.status = "committed"]
  OBVIOUS
<1>4. intents' = (intents \ {i}) \cup {k}
  BY <1>2, <1>3 DEF StampIntent
<1>5. k.batch = i.batch /\ k.status = "committed"
  BY <1>2, <1>3 DEF StoreInv, IntentInv, GoodIntent
<1>6. i.batch \in written
  BY <1>1 DEF StampIntent, WrittenInv
<1>7. UNCHANGED <<text, written, notes, anchors>> /\ Prepared' = Prepared /\ i.batch \in Prepared
  BY <1>2 DEF StampIntent, historyVars, nodeVars, planVars, Prepared, StoreInv, IntentInv, GoodIntent
<1>8. Done' = Done \cup {i.batch}
  BY <1>2, <1>4, <1>5 DEF Done
<1>9. WrittenInv'
  <2>1. Pending' \subseteq Pending
    BY <1>4, <1>5 DEF Pending
  <2>2. job'.pc # "stamp"
    BY DEF StampIntent, Take, NoJob
  <2>3. \A d \in written : \E x \in intents' : x.batch = d
    BY <1>2, <1>4, <1>5 DEF WrittenInv
  <2>4. \A x \in intents' :
          /\ x.status = "partitioning" => x.batch \notin written
          /\ x.status = "committed" => x.batch \in written
    BY <1>4, <1>5, <1>6 DEF WrittenInv
  <2>5. /\ \A x \in Pending' : Earlier(x)' /\ NotAgain(x)'
        /\ \A a \in anchors' : Earlier(a)'
    BY <1>7, <2>1 DEF WrittenInv, Earlier, NotAgain, IsSeq, Target
  <2> QED
    BY <1>7, <2>2, <2>3, <2>4, <2>5 DEF WrittenInv, At
<1>10. Promised!Acknowledge(i.batch)
  BY <1>6, <1>7, <1>8 DEF Promised!Acknowledge, Done
<1> QED
  BY <1>7, <1>9, <1>10 DEF Mirrors, Promised!LedgerNext

LEMMA RecoverTargetMirrors ==
    ASSUME NotesAreNoBatches, StoreInv, WrittenInv, RecoverTarget
    PROVE  Mirrors
<1>1. PICK i \in Pending :
        /\ ~Refused(i)
        /\ IF text[Target(i.batch)] = i.before
           THEN /\ text' = [text EXCEPT ![Target(i.batch)] = After(i)]
                /\ written' = written \cup {i.batch}
           ELSE UNCHANGED <<text, written>>
        /\ Take("stamp", i.batch)
  BY DEF RecoverTarget
<1>2. PICK b, f : b = i.batch /\ f = Target(i.batch)
  OBVIOUS
<1>3. i \in intents /\ b \in Prepared /\ b \notin Notes /\ f \in Files
  BY <1>2, BatchIsNoNote DEF Pending, StoreInv, IntentInv, GoodIntent, Target, Files
<1>4. Earlier(i) /\ NotAgain(i) /\ notes \subseteq Notes
  BY DEF WrittenInv
<1>5. IsSeq(After(i)) /\ ToSet(After(i)) = ToSet(i.before) \cup {b}
  BY <1>2, <1>4, AppendedSet DEF Earlier, After
<1>6. UNCHANGED <<intents, notes, anchors>> /\ Prepared' = Prepared /\ Pending' = Pending
  BY DEF RecoverTarget, nodeVars, planVars, Prepared, Pending
<1>7. At("stamp")' => job'.item = b
  BY <1>1, <1>2 DEF Take, NoJob
<1>8. CASE text[f] = i.before
  <2>1. text' = [text EXCEPT ![f] = After(i)] /\ written' = written \cup {b}
    BY <1>1, <1>2, <1>8
  <2>2. b \notin written
    BY <1>2, <1>4, <1>8 DEF NotAgain
  <2>3. DOMAIN text = Files
    BY DEF StoreInv, TextInv
  <2>4. text'[f] = After(i) /\ \A g \in Files : g # f => text'[g] = text[g]
    BY <1>3, <2>1, <2>3
  <2>5. \A g \in Files : ToSet(text'[g]) \subseteq notes' \cup written'
    BY <1>4, <1>5, <1>6, <2>1, <2>4 DEF WrittenInv, Earlier
  <2>6. \A k \in intents' :
          /\ k.status = "partitioning" => k.batch \notin written'
          /\ k.status = "committed" => k.batch \in written'
    <3>1. \A k \in intents : k.batch = b => k = i
      BY <1>2, <1>3 DEF StoreInv, IntentInv
    <3>2. i.status = "pending"
      BY DEF Pending
    <3> QED
      BY <1>6, <2>1, <3>1, <3>2 DEF WrittenInv
  <2>7. \A k \in Pending' : Earlier(k)' /\ NotAgain(k)'
    <3>1. Pending' = {i}
      BY <1>6 DEF StoreInv, IntentInv
    <3>2. Earlier(i)'
      BY <1>4, <1>6, <2>1 DEF Earlier, IsSeq
    <3>3. NotAgain(i)'
      BY <1>2, <1>4, <1>5, <2>4 DEF NotAgain, Target, Earlier
    <3> QED
      BY <3>1, <3>2, <3>3
  <2>8. \A a \in anchors' : Earlier(a)'
    BY <1>6, <2>1 DEF WrittenInv, Earlier, IsSeq
  <2>9. \A d \in written' : \E k \in intents' : k.batch = d
    BY <1>2, <1>3, <1>6, <2>1 DEF WrittenInv
  <2>10. WrittenInv'
    BY <1>3, <1>6, <1>7, <2>1, <2>5, <2>6, <2>7, <2>8, <2>9 DEF WrittenInv
  <2>11. Promised!Write(b)
    <3>1. After(i) = Append(text[f], b)
      BY <1>2, <1>8 DEF After
    <3> QED
      BY <1>2, <1>6, <2>1, <2>2, <3>1 DEF Promised!Write
  <2> QED
    BY <1>3, <2>10, <2>11 DEF Mirrors, Promised!LedgerNext
<1>9. CASE text[f] # i.before
  <2>1. UNCHANGED <<text, written>>
    BY <1>1, <1>2, <1>9
  <2>2. text[f] = After(i)
    BY <1>1, <1>2, <1>9 DEF Refused, Pending
  <2>3. b \in written
    BY <1>3, <1>4, <1>5, <2>2 DEF WrittenInv
  <2>4. WrittenInv'
    BY <1>6, <1>7, <2>1, <2>3 DEF WrittenInv, Earlier, NotAgain, Target, IsSeq
  <2> QED
    BY <1>6, <2>1, <2>4, PreparesOnly DEF Mirrors
<1> QED
  BY <1>8, <1>9

LEMMA EditMirrors ==
    ASSUME NotesAreNoBatches, StoreInv, WrittenInv, NEW m \in Notes, Edit(m)
    PROVE  Mirrors
<1>1. /\ m \notin notes /\ notes' = notes \cup {m} /\ UNCHANGED <<intents, anchors, written, job>>
      /\ Prepared' = Prepared /\ Pending' = Pending
  BY DEF Edit, nodeVars, planVars, Prepared, Pending
<1>2. m \notin written
  BY BatchIsNoNote DEF StoreInv, WrittenInv
<1>3. ASSUME NEW x, Earlier(x) PROVE Earlier(x)' /\ m \notin ToSet(x.before)
  BY <1>1, <1>2, <1>3 DEF Earlier, IsSeq
<1>4. CASE UNCHANGED text
  <2>1. WrittenInv'
    BY <1>1, <1>3, <1>4 DEF WrittenInv, NotAgain, Target, At
  <2> QED
    BY <1>1, <1>4, <2>1, PreparesOnly DEF Mirrors
<1>5. ASSUME NEW f \in Files, AppendNote(f, m) \/ Rewrite(f, m)
      PROVE  Mirrors
  <2>1. DOMAIN text = Files /\ IsSeq(text[f])
    BY TextIsSeq DEF StoreInv, TextInv
  <2>2. /\ text' \in {[text EXCEPT ![f] = Append(@, m)], [text EXCEPT ![f] = <<m>>]}
        /\ \A g \in Files : g # f => text'[g] = text[g]
        /\ text'[f] \in {Append(text[f], m), <<m>>}
    BY <1>5, <2>1 DEF AppendNote, Rewrite
  <2>3. m \in ToSet(text'[f]) /\ ToSet(text'[f]) \subseteq ToSet(text[f]) \cup {m}
    <3>1. ToSet(<<m>>) = {m}
      BY DEF ToSet
    <3>2. ToSet(Append(text[f], m)) = ToSet(text[f]) \cup {m}
      BY <2>1, AppendedSet
    <3>3. CASE text'[f] = Append(text[f], m)
      BY <3>2, <3>3
    <3>4. CASE text'[f] = <<m>>
      BY <3>1, <3>4
    <3> QED
      BY <2>2, <3>3, <3>4
  <2>4. \A g \in Files : ToSet(text'[g]) \subseteq notes' \cup written'
    BY <1>1, <2>2, <2>3 DEF WrittenInv
  <2>5. ASSUME NEW k \in Pending PROVE NotAgain(k)'
    <3>1. Target(k.batch) \in Files /\ Target(k.batch)' = Target(k.batch)
      BY DEF Target, Files
    <3>2. m \notin ToSet(k.before)
      BY <1>3 DEF WrittenInv
    <3>3. CASE Target(k.batch) = f
      BY <2>3, <3>1, <3>2, <3>3 DEF NotAgain
    <3>4. CASE Target(k.batch) # f
      <4>1. text'[Target(k.batch)] = text[Target(k.batch)]
        BY <2>2, <3>1, <3>4
      <4>2. NotAgain(k)
        BY DEF WrittenInv
      <4> QED
        BY <1>1, <3>1, <4>1, <4>2 DEF NotAgain
    <3> QED
      BY <3>3, <3>4
  <2>6. WrittenInv'
    BY <1>1, <1>3, <2>4, <2>5 DEF WrittenInv, At
  <2>7. Promised!Edited(f, m)
    BY <1>1, <2>2 DEF Promised!Edited
  <2> QED
    BY <2>1, <2>6, <2>7 DEF Mirrors, Promised!LedgerNext
<1> QED
  BY <1>4, <1>5 DEF Edit, EditTrace

\* The holder comes to "stamp" only from its recovery.
LEMMA NotStamped ==
    ASSUME JobInv
    PROVE  /\ \A pc : pc # "stamp" /\ Go(pc) => job'.pc # "stamp"
           /\ \A pc, x : pc # "stamp" /\ Take(pc, x) => job'.pc # "stamp"
           /\ Return => job'.pc # "stamp"
<1>1. ASSUME NEW pc, pc # "stamp", Go(pc) PROVE job'.pc # "stamp"
  <2>1. job = [pc |-> job.pc, item |-> job.item, node |-> job.node, missing |-> job.missing]
    BY DEF JobInv
  <2>2. job' = [job EXCEPT !.pc = pc]
    BY <1>1 DEF Go
  <2>3. job' = [pc |-> pc, item |-> job.item, node |-> job.node, missing |-> job.missing]
    BY <2>1, <2>2
  <2> QED
    BY <1>1, <2>3
<1>2. ASSUME NEW pc, NEW x, pc # "stamp", Take(pc, x) PROVE job'.pc # "stamp"
  BY <1>2 DEF Take, NoJob
<1>3. ASSUME Return PROVE job'.pc # "stamp"
  BY <1>3 DEF Return, NoJob
<1> QED
  BY <1>1, <1>2, <1>3

LEMMA EveryStepMirrors ==
    ASSUME NotesAreNoBatches, StoreInv, WrittenInv, [Next]_vars
    PROVE  Mirrors
<1> DEFINE quiet == /\ UNCHANGED <<text, written, notes, intents, anchors>>
                    /\ Prepared \subseteq Prepared' /\ (job'.pc = "stamp" => job' = job)
<1>1. CASE EventStep
  <2>1. UNCHANGED <<text, written, notes, intents, anchors>> /\ Prepared' = Prepared
    BY <1>1 DEF EventStep, AppendEvent, RecoverEvent, WriteTrace, IndexEvent, AckEvent,
       historyVars, nodeVars, planVars, Prepared
  <2>2. job'.pc # "stamp"
    BY <1>1, NotStamped
       DEF EventStep, AppendEvent, RecoverEvent, WriteTrace, IndexEvent, AckEvent, StoreInv
  <2> QED
    BY <2>1, <2>2, QuietMirrors
<1>2. CASE RecoveryStep
  <2>1. CASE Recover \/ EndRecovery
    <3>1. quiet
      BY <2>1 DEF Recover, EndRecovery, Go, Return, NoJob, StoreInv, JobInv,
         historyVars, nodeVars, planVars, Prepared
    <3> QED
      BY <3>1, QuietMirrors
  <2>2. CASE RecoverPlan
    <3>1. quiet
      BY <2>2 DEF RecoverPlan, Unpublished, historyVars, nodeVars, Prepared
    <3> QED
      BY <3>1, QuietMirrors
  <2> QED
    BY <1>2, <2>1, <2>2, RecoverTargetMirrors, StampIntentMirrors DEF RecoveryStep
<1>3. CASE PrepareStep
  <2>1. ASSUME NEW p \in Windows \cup {Day}, PrepareLegacy(p) \/ StartBuild(p)
        PROVE  quiet
    BY <2>1 DEF PrepareLegacy, StartBuild, historyVars, nodeVars, planVars, Prepared
  <2>2. ReadSources \/ ListUpstream => quiet
    BY DEF ReadSources, ListUpstream, historyVars, nodeVars, planVars, Prepared
  <2>3. Publish => quiet
    <3>1. Publish => /\ UNCHANGED <<text, written, notes, intents, anchors>>
                     /\ Prepared \subseteq Prepared'
      BY DEF Publish, historyVars, nodeVars, Prepared
    <3>2. Publish => job' = job \/ job'.pc # "stamp"
      BY NotStamped DEF Publish, StoreInv
    <3> QED
      BY <3>1, <3>2
  <2>4. RenamePlan => quiet
    <3>1. RenamePlan => /\ UNCHANGED <<text, written, notes, intents, anchors>>
                        /\ Prepared \subseteq Prepared'
      BY DEF RenamePlan, historyVars, nodeVars, Prepared
    <3>2. RenamePlan => job'.pc # "stamp"
      BY NotStamped DEF RenamePlan, StoreInv
    <3> QED
      BY <3>1, <3>2
  <2> QED
    BY <1>3, <2>1, <2>2, <2>3, <2>4, QuietMirrors, WriteIntentMirrors DEF PrepareStep
<1>4. CASE CommitStep
  <2>1. ASSUME NEW b, Finalize(b)
        PROVE  quiet
    <3>1. UNCHANGED <<text, written, notes, intents, anchors>> /\ Prepared' = Prepared
      BY <2>1 DEF Finalize, historyVars, planVars, Prepared
    <3>2. job'.pc # "stamp"
      BY <2>1, NotStamped DEF Finalize, StoreInv
    <3> QED
      BY <3>1, <3>2
  <2>2. ASSUME NEW b \in plans, NEW n \in Units(b), NEW missing, CommitNode(b, n, missing)
        PROVE  quiet
    <3>1. UNCHANGED <<text, written, notes, intents, anchors>> /\ Prepared' = Prepared
      BY <2>2 DEF CommitNode, historyVars, planVars, Prepared
    <3>2. CASE HasReceipt(b, n)
      <4>1. Take("finalize", b)
        BY <2>2, <3>2 DEF CommitNode
      <4> QED
        BY <3>1, <4>1, NotStamped DEF StoreInv
    <3>3. CASE ~HasReceipt(b, n)
      <4>1. job'.pc = "receipt"
        BY <2>2, <3>3 DEF CommitNode
      <4> QED
        BY <3>1, <4>1
    <3> QED
      BY <3>2, <3>3
  <2>3. WriteReceipt => quiet
    BY DEF WriteReceipt, Take, NoJob, historyVars, planVars, Prepared
  <2> HIDE DEF quiet
  <2>4. quiet => Mirrors
    BY QuietMirrors DEF quiet
  <2> QED
    BY <1>4, <2>1, <2>2, <2>3, <2>4, CommitSummaryMirrors, WriteAnchorMirrors,
       WritePendingMirrors DEF CommitStep, NextNodes, FinalizeAfterNode
<1>5. CASE HolderFails \/ BuildFails \/ \E m \in Notes : Edit(m)
  <2>1. HolderFails \/ BuildFails => quiet
    BY DEF HolderFails, BuildFails, Return, NoJob, nodeVars, planVars, Prepared
  <2> QED
    BY <1>5, <2>1, QuietMirrors, EditMirrors
<1>6. CASE UNCHANGED vars
  <2>1. quiet
    BY <1>6 DEF vars, historyVars, nodeVars, planVars, Prepared
  <2> QED
    BY <2>1, QuietMirrors
<1> QED
  BY <1>1, <1>2, <1>3, <1>4, <1>5, <1>6 DEF Next

LEMMA InitWritten == Init => WrittenInv /\ Promised!LedgerInit
<1> SUFFICES ASSUME Init
             PROVE  WrittenInv /\ Promised!LedgerInit
  OBVIOUS
<1>1. \A f \in Files : text[f] = <<>>
  BY DEF Init
<1>2. WrittenInv
  BY <1>1 DEF Init, WrittenInv, Pending, At, NoJob, ToSet
<1> QED
  BY <1>1, <1>2 DEF Init, Promised!LedgerInit, Prepared

(***************************************************************************)
(* StoreImplementsLedger: if no note is a batch, then through crashes,     *)
(* replays and edits each batch is added to its file at most once, after   *)
(* all that the file holds, and is committed only when it has been added   *)
(* (commit_summary, commit_node, _recover_commits).                        *)
(***************************************************************************)
THEOREM StoreImplementsLedger ==
    ASSUME NotesAreNoBatches
    PROVE  Spec => ImplementsLedger
<1>1. StoreInv /\ WrittenInv /\ [Next]_vars =>
        WrittenInv' /\ [Promised!LedgerNext]_(Promised!ledgerVars)
  BY EveryStepMirrors DEF Mirrors
<1> QED
  BY <1>1, InitWritten, StoreHolds, PTL DEF Spec, ImplementsLedger, Promised!LedgerSpec

-----------------------------------------------------------------------------
(***************************************************************************)
(* Why a start is refused.  From the moment when the before image of a     *)
(* file is taken, the file holds that image, or something that is not in   *)
(* it; once its commit is pending, nothing but a note comes after the      *)
(* batch itself.                                                           *)
(***************************************************************************)
Grown(a) ==
    LET now == text[Target(a.batch)]
    IN  now = a.before \/ ~(ToSet(now) \subseteq ToSet(a.before))

Expected(i) == text[Target(i.batch)] \in {i.before, After(i)} \/ Changed(i)

ImageInv ==
    /\ \A a \in anchors : a.batch \in plans /\ (Announced(a.batch) => Grown(a))
    /\ \A i \in Pending : Expected(i)

\* No file is touched, and no image is taken.
LEMMA ImagesKept ==
    ASSUME ImageInv, UNCHANGED <<text, written, notes, anchors>>, plans \subseteq plans',
           \A a \in anchors : Announced(a.batch)' => Announced(a.batch),
           Pending' \subseteq Pending
    PROVE  ImageInv'
<1>1. \A a \in anchors : Grown(a)' <=> Grown(a)
  BY DEF Grown, Target
<1>2. \A i \in Pending : Expected(i)' <=> Expected(i)
  BY DEF Expected, Changed, Target, After
<1> QED
  BY <1>1, <1>2 DEF ImageInv

LEMMA QuietKeepsImages ==
    ASSUME ImageInv, UNCHANGED <<text, written, notes, anchors, intents>>, plans \subseteq plans'
    PROVE  ImageInv'
BY ImagesKept DEF Announced, Pending

\* A commit of the first protocol is pending with what its file holds now.
LEMMA CommitSummaryKeepsImages ==
    ASSUME ImageInv, NEW b \in frozen, NEW missing, CommitSummary(b, missing)
    PROVE  ImageInv'
<1>1. PICK k : k = [batch |-> b, status |-> "pending", before |-> text[Target(b)],
                    missing |-> missing]
  OBVIOUS
<1>2. intents' = intents \cup {k} /\ UNCHANGED <<text, written, notes, anchors, plans>>
  BY <1>1 DEF CommitSummary, historyVars, nodeVars, planVars
<1>3. k.batch = b /\ k.status = "pending" /\ k.before = text[Target(b)]
  BY <1>1
<1>4. Expected(k)'
  BY <1>2, <1>3 DEF Expected, Target
<1>5. \A i \in Pending : Expected(i)'
  BY <1>2 DEF ImageInv, Expected, Changed, Target, After
<1>6. \A i \in Pending' : i = k \/ i \in Pending
  BY <1>2 DEF Pending
<1>7. \A a \in anchors : a.batch \in plans' /\ (Announced(a.batch)' => Grown(a)')
  BY <1>2, <1>3 DEF ImageInv, Announced, Grown, Target
<1> QED
  BY <1>2, <1>4, <1>5, <1>6, <1>7 DEF ImageInv

\* A new plan has no image yet.
LEMMA WriteIntentKeepsImages ==
    ASSUME StoreInv, ImageInv, WriteIntent
    PROVE  ImageInv'
<1>1. job.item \notin plans /\ UNCHANGED <<text, written, notes, anchors, plans>>
  BY DEF WriteIntent, At, StoreInv, JobInv, BatchInv, historyVars, nodeVars, planVars
<1>2. PICK k : k = [batch |-> job.item, status |-> "partitioning", before |-> <<>>, missing |-> {}]
  OBVIOUS
<1>3. intents' \subseteq intents \cup {k} /\ k.batch = job.item /\ k.status = "partitioning"
  BY <1>2 DEF WriteIntent
<1>4. \A a \in anchors : Announced(a.batch)' => Announced(a.batch)
  BY <1>1, <1>3 DEF ImageInv, Announced
<1>5. Pending' \subseteq Pending
  BY <1>3 DEF Pending
<1> QED
  BY <1>1, <1>4, <1>5, ImagesKept

LEMMA WriteAnchorKeepsImages ==
    ASSUME StoreInv, ImageInv, WriteAnchor
    PROVE  ImageInv'
<1>1. PICK a : a = [batch |-> job.item, before |-> text[Target(job.item)]]
  OBVIOUS
<1>2. anchors' \subseteq anchors \cup {a} /\ a.batch = job.item /\ a.before = text[Target(job.item)]
  BY <1>1 DEF WriteAnchor
<1>3. UNCHANGED <<text, written, notes, intents, plans>> /\ job.item \in plans
  BY DEF WriteAnchor, historyVars, planVars, At, StoreInv, JobInv, CommitDue
<1>4. a.batch \in plans' /\ Grown(a)'
  BY <1>2, <1>3 DEF Grown, Target
<1>5. \A x \in anchors : x.batch \in plans' /\ (Announced(x.batch)' => Grown(x)')
  BY <1>3 DEF ImageInv, Announced, Grown, Target
<1>6. \A i \in Pending' : Expected(i)'
  BY <1>3 DEF ImageInv, Pending, Expected, Changed, Target, After
<1> QED
  BY <1>2, <1>4, <1>5, <1>6 DEF ImageInv

\* The anchored image becomes the before image: what came after it is a note, or another batch.
LEMMA WritePendingKeepsImages ==
    ASSUME StoreInv, WrittenInv, ImageInv, WritePending
    PROVE  ImageInv'
<1>0. PICK b : b = job.item
  OBVIOUS
<1>1. CommitDue /\ HasAnchor(b) /\ Pending = {}
  BY <1>0 DEF WritePending, At, Calm, StoreInv, JobInv
<1>2. PICK i \in intents : i.batch = b /\ i.status = "partitioning"
  BY <1>0, <1>1 DEF CommitDue, Announced
<1>3. PICK k : k = [batch |-> b, status |-> "pending", before |-> BeforeOf(b),
                    missing |-> ReceiptOf(b, RootOf(b)).missing]
  OBVIOUS
<1>4. k.batch = b /\ k.status = "pending" /\ k.before = BeforeOf(b)
  BY <1>3
<1>5. intents' = (intents \ {i}) \cup {k}
  <2>1. IntentOf(b) = i
    BY <1>2, IntentFound DEF StoreInv
  <2> QED
    BY <1>0, <1>3, <2>1 DEF WritePending
<1>6. UNCHANGED <<text, written, notes, anchors, plans>>
  BY DEF WritePending, historyVars, nodeVars, planVars
<1>7. PICK a \in anchors : a.batch = b /\ a.before = k.before
  <2>1. PICK a \in anchors : a.batch = b
    BY <1>1 DEF HasAnchor
  <2>2. a.before = BeforeOf(b)
    BY <2>1 DEF BeforeOf, StoreInv, NodeInv
  <2> QED
    BY <1>4, <2>1, <2>2
<1>8. Grown(a)
  BY <1>2, <1>7 DEF ImageInv, Announced
<1>9. Partitioned(b) /\ b \notin written /\ Target(b) \in Files
  BY <1>0, <1>1, <1>2 DEF CommitDue, StoreInv, BatchInv, Partitioned, WrittenInv, Target, Files
<1>10. Expected(k)
  <2>1. CASE text[Target(b)] = k.before
    BY <1>4, <2>1 DEF Expected
  <2>2. CASE text[Target(b)] # k.before
    <3>1. PICK x \in ToSet(text[Target(b)]) \ ToSet(k.before) : TRUE
      BY <1>7, <1>8, <2>2 DEF Grown
    <3>2. x \in notes \cup (written \ {b})
      BY <1>9, <3>1 DEF WrittenInv
    <3> QED
      BY <1>4, <1>9, <3>1, <3>2 DEF Expected, Changed
  <2> QED
    BY <2>1, <2>2
<1>11. Pending' = {k} /\ Expected(k)'
  BY <1>1, <1>4, <1>5, <1>6, <1>10 DEF Pending, Expected, Changed, Target, After
<1>12. \A c \in anchors : c.batch \in plans' /\ (Announced(c.batch)' => Grown(c)')
  BY <1>4, <1>5, <1>6 DEF ImageInv, Announced, Grown, Target
<1> QED
  BY <1>6, <1>11, <1>12 DEF ImageInv

LEMMA StampIntentKeepsImages ==
    ASSUME StoreInv, ImageInv, StampIntent
    PROVE  ImageInv'
<1>1. PICK i \in Pending : i.batch = job.item
  BY DEF StampIntent, At, StoreInv, JobInv
<1>2. i \in intents /\ IntentOf(job.item) = i
  BY <1>1, IntentFound DEF Pending, StoreInv
<1>3. PICK k : k = [i EXCEPT !.status = "committed"]
  OBVIOUS
<1>4. intents' = (intents \ {i}) \cup {k} /\ k.status = "committed"
  BY <1>2, <1>3 DEF StampIntent, StoreInv, IntentInv, GoodIntent
<1>5. UNCHANGED <<text, written, notes, anchors, plans>>
  BY DEF StampIntent, historyVars, nodeVars, planVars
<1>6. \A a \in anchors : Announced(a.batch)' => Announced(a.batch)
  BY <1>4 DEF Announced
<1>7. Pending' \subseteq Pending
  BY <1>4 DEF Pending
<1> QED
  BY <1>5, <1>6, <1>7, ImagesKept

\* The batch of the one pending commit is new to every image of its file.
LEMMA RecoverTargetKeepsImages ==
    ASSUME NotesAreNoBatches, StoreInv, WrittenInv, ImageInv, RecoverTarget
    PROVE  ImageInv'
<1>1. PICK i \in Pending :
        IF text[Target(i.batch)] = i.before
        THEN /\ text' = [text EXCEPT ![Target(i.batch)] = After(i)]
             /\ written' = written \cup {i.batch}
        ELSE UNCHANGED <<text, written>>
  BY DEF RecoverTarget
<1>2. PICK b, f : b = i.batch /\ f = Target(i.batch)
  OBVIOUS
<1>3. i \in intents /\ i.status = "pending" /\ b \in Prepared /\ b \notin Notes /\ f \in Files
  BY <1>2, BatchIsNoNote DEF Pending, StoreInv, IntentInv, GoodIntent, Target, Files
<1>4. UNCHANGED <<intents, notes, anchors, plans>> /\ Pending' = Pending
  BY DEF RecoverTarget, nodeVars, planVars, Pending
<1>5. CASE text[f] = i.before
  <2>1. text' = [text EXCEPT ![f] = After(i)] /\ DOMAIN text = Files
    BY <1>1, <1>2, <1>5 DEF StoreInv, TextInv
  <2>2. text'[f] = After(i) /\ \A g \in Files : g # f => text'[g] = text[g]
    BY <1>3, <2>1
  <2>3. Earlier(i) /\ NotAgain(i) /\ notes \subseteq Notes
    BY DEF WrittenInv
  <2>4. b \notin written
    BY <1>2, <1>5, <2>3 DEF NotAgain
  <2>5. b \in ToSet(text'[f])
    BY <1>2, <2>2, <2>3, AppendedSet DEF Earlier, After
  <2>6. Pending' = {i} /\ Expected(i)'
    BY <1>2, <1>4, <2>2 DEF StoreInv, IntentInv, Expected, After, Target
  <2>7. ASSUME NEW a \in anchors, Announced(a.batch)'
        PROVE  Grown(a)'
    <3>1. Announced(a.batch) /\ Target(a.batch) \in Files /\ Target(a.batch)' = Target(a.batch)
      BY <1>4, <2>7 DEF Announced, Target, Files
    <3>2. CASE Target(a.batch) = f
      <4>1. b \notin ToSet(a.before)
        BY <1>3, <2>3, <2>4 DEF WrittenInv, Earlier
      <4> QED
        BY <2>5, <3>1, <3>2, <4>1 DEF Grown
    <3>3. CASE Target(a.batch) # f
      BY <2>2, <3>1, <3>3 DEF Grown, ImageInv
    <3> QED
      BY <3>2, <3>3
  <2> QED
    BY <1>4, <2>6, <2>7 DEF ImageInv
<1>6. CASE text[f] # i.before
  BY <1>1, <1>2, <1>4, <1>6, QuietKeepsImages
<1> QED
  BY <1>5, <1>6

\* A note is new to every image of its file.
LEMMA EditKeepsImages ==
    ASSUME NotesAreNoBatches, StoreInv, WrittenInv, ImageInv, NEW m \in Notes, Edit(m)
    PROVE  ImageInv'
<1>1. /\ m \notin notes /\ notes' = notes \cup {m}
      /\ UNCHANGED <<intents, anchors, written, plans>> /\ Pending' = Pending
  BY DEF Edit, nodeVars, planVars, Pending
<1>2. m \notin written
  BY BatchIsNoNote DEF StoreInv, WrittenInv
<1>3. ASSUME NEW x, Earlier(x) PROVE m \notin ToSet(x.before)
  BY <1>1, <1>2, <1>3 DEF Earlier
<1>4. \A f \in Files : text'[f] = text[f] \/ m \in ToSet(text'[f])
  <2>1. CASE UNCHANGED text
    BY <2>1
  <2>2. ASSUME NEW f \in Files, AppendNote(f, m) \/ Rewrite(f, m)
        PROVE  \A g \in Files : text'[g] = text[g] \/ m \in ToSet(text'[g])
    <3>1. DOMAIN text = Files /\ IsSeq(text[f])
      BY TextIsSeq DEF StoreInv, TextInv
    <3>2. /\ \A g \in Files : g # f => text'[g] = text[g]
          /\ text'[f] \in {Append(text[f], m), <<m>>}
      BY <2>2, <3>1 DEF AppendNote, Rewrite
    <3>3. m \in ToSet(<<m>>)
      BY DEF ToSet
    <3>4. m \in ToSet(Append(text[f], m))
      BY <3>1, AppendedSet
    <3> QED
      BY <3>2, <3>3, <3>4
  <2> QED
    BY <2>1, <2>2 DEF Edit, EditTrace
<1>5. ASSUME NEW a \in anchors, Announced(a.batch)'
      PROVE  Grown(a)'
  <2>1. Announced(a.batch) /\ Target(a.batch) \in Files /\ Target(a.batch)' = Target(a.batch)
    BY <1>1, <1>5 DEF Announced, Target, Files
  <2>2. m \notin ToSet(a.before)
    BY <1>3 DEF WrittenInv
  <2>3. Grown(a)
    BY <2>1 DEF ImageInv
  <2>4. text'[Target(a.batch)] = text[Target(a.batch)] \/ m \in ToSet(text'[Target(a.batch)])
    BY <1>4, <2>1
  <2> QED
    BY <2>1, <2>2, <2>3, <2>4 DEF Grown
<1>6. ASSUME NEW i \in Pending
      PROVE  Expected(i)'
  <2>1. Target(i.batch) \in Files /\ Target(i.batch)' = Target(i.batch) /\ After(i)' = After(i)
    BY DEF Target, Files, After
  <2>2. m \notin ToSet(i.before)
    BY <1>3 DEF WrittenInv
  <2>3. CASE text'[Target(i.batch)] = text[Target(i.batch)]
    <3>1. Expected(i)
      BY DEF ImageInv
    <3> QED
      BY <1>1, <2>1, <2>3, <3>1 DEF Expected, Changed
  <2>4. CASE m \in ToSet(text'[Target(i.batch)])
    BY <1>1, <2>1, <2>2, <2>4 DEF Expected, Changed
  <2> QED
    BY <1>4, <2>1, <2>3, <2>4
<1> QED
  BY <1>1, <1>5, <1>6 DEF ImageInv

LEMMA ImageStep ==
    ASSUME NotesAreNoBatches, StoreInv, WrittenInv, ImageInv, [Next]_vars
    PROVE  ImageInv'
<1> DEFINE quiet == UNCHANGED <<text, written, notes, anchors, intents>> /\ plans \subseteq plans'
<1>1. CASE EventStep
  <2>1. quiet
    BY <1>1 DEF EventStep, AppendEvent, RecoverEvent, WriteTrace, IndexEvent, AckEvent,
       historyVars, nodeVars, planVars
  <2> QED
    BY <2>1, QuietKeepsImages
<1>2. CASE RecoveryStep
  <2>1. Recover \/ RecoverPlan \/ EndRecovery => quiet
    BY DEF Recover, RecoverPlan, EndRecovery, historyVars, nodeVars, planVars
  <2> QED
    BY <1>2, <2>1, QuietKeepsImages, RecoverTargetKeepsImages, StampIntentKeepsImages DEF RecoveryStep
<1>3. CASE PrepareStep
  <2>1. ASSUME NEW p \in Windows \cup {Day}, PrepareLegacy(p) \/ StartBuild(p)
        PROVE  quiet
    BY <2>1 DEF PrepareLegacy, StartBuild, historyVars, nodeVars, planVars
  <2>2. ReadSources \/ ListUpstream \/ Publish \/ RenamePlan => quiet
    BY DEF ReadSources, ListUpstream, Publish, RenamePlan, historyVars, nodeVars, planVars
  <2> QED
    BY <1>3, <2>1, <2>2, QuietKeepsImages, WriteIntentKeepsImages DEF PrepareStep
<1>4. CASE CommitStep
  <2>1. ASSUME NEW b, Finalize(b)
        PROVE  quiet
    BY <2>1 DEF Finalize, historyVars, planVars
  <2>2. ASSUME NEW b \in plans, NEW n \in Units(b), NEW missing, CommitNode(b, n, missing)
        PROVE  quiet
    BY <2>2 DEF CommitNode, historyVars, planVars
  <2>3. WriteReceipt => quiet
    BY DEF WriteReceipt, historyVars, planVars
  <2> HIDE DEF quiet
  <2>4. quiet => ImageInv'
    BY QuietKeepsImages DEF quiet
  <2> QED
    BY <1>4, <2>1, <2>2, <2>3, <2>4, CommitSummaryKeepsImages, WriteAnchorKeepsImages,
       WritePendingKeepsImages DEF CommitStep, NextNodes, FinalizeAfterNode
<1>5. CASE HolderFails \/ BuildFails \/ \E m \in Notes : Edit(m)
  <2>1. HolderFails \/ BuildFails => quiet
    BY DEF HolderFails, BuildFails, nodeVars, planVars
  <2> QED
    BY <1>5, <2>1, QuietKeepsImages, EditKeepsImages
<1>6. CASE UNCHANGED vars
  <2>1. quiet
    BY <1>6 DEF vars, historyVars, nodeVars, planVars
  <2> QED
    BY <2>1, QuietKeepsImages
<1> QED
  BY <1>1, <1>2, <1>3, <1>4, <1>5, <1>6 DEF Next

(***************************************************************************)
(* OnlyChangesRefused: if no note is a batch, then the store refuses to    *)
(* start only for a pending commit whose file holds what was added after   *)
(* its before image was taken: a note or, for a partitioned batch, another *)
(* batch (_recover_commits, _final_image).                                 *)
(***************************************************************************)
THEOREM OnlyChangesRefused ==
    ASSUME NotesAreNoBatches
    PROVE  Spec => []RefusesOnlyChanges
<1>1. Init => ImageInv
  BY DEF Init, ImageInv, Pending
<1>2. StoreInv /\ WrittenInv /\ ImageInv /\ [Next]_vars => WrittenInv' /\ ImageInv'
  BY EveryStepMirrors, ImageStep DEF Mirrors
<1>3. StoreInv /\ ImageInv => RefusesOnlyChanges
  <2> SUFFICES ASSUME StoreInv, ImageInv
               PROVE  RefusesOnlyChanges
    OBVIOUS
  <2>1. EvidenceAgrees
    BY InvAgrees
  <2>2. ASSUME NEW i \in intents, Refused(i)
        PROVE  i.status = "pending" /\ Changed(i)
    <3>1. i.status = "pending" /\ text[Target(i.batch)] \notin {i.before, After(i)}
      BY <2>1, <2>2 DEF Refused, EvidenceAgrees
    <3> QED
      BY <3>1 DEF ImageInv, Expected, Pending
  <2> QED
    BY <2>1, <2>2 DEF RefusesOnlyChanges
<1> QED
  BY <1>1, <1>2, <1>3, InitWritten, StoreHolds, PTL DEF Spec
=============================================================================
