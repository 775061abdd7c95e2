---------------------------- MODULE ResourceProofs ----------------------------
(***************************************************************************)
(* The counters that the service collects, for any number of epochs,       *)
(* threads and counters and for any size of the buffer: none is lost       *)
(* unless the service says so, none is entered that is not its own, and    *)
(* what was reported adds up.                                              *)
(*                                                                         *)
(* FeedInv adds to the properties what they rest on: what runtime.json     *)
(* holds in each phase, which server can be left, and that no counter      *)
(* anywhere is higher than what its thread used.  flush goes through its   *)
(* buffer turn by turn; what it leaves is shown by induction over the      *)
(* turns, with the least number at which a claim fails (LeastNatural).     *)
(***************************************************************************)
EXTENDS ResourceProperties, FiniteSetTheorems, WellFoundedInduction, TLAPS

-----------------------------------------------------------------------------
(* Induction over a buffer. *)

LEMMA LeastNatural ==
    ASSUME NEW T \in SUBSET Nat, T # {}
    PROVE  \E x \in T : \A y \in T : x <= y
<1> DEFINE R == OpToRel(<, Nat)
<1>1. IsWellFoundedOn(R, Nat)
  BY NatLessThanWellFounded
<1>2. \A y \in Nat, x \in Nat : y < x => <<y, x>> \in R
  BY DEF OpToRel
<1> HIDE DEF R
<1>3. PICK x \in T : \A y \in T : ~(<<y, x>> \in R)
  BY <1>1, WFMin
<1>4. ASSUME NEW y \in T
      PROVE  x <= y
  <2>1. ~(y < x)
    BY <1>2, <1>3
  <2> QED
    BY <2>1
<1> QED
  BY <1>3, <1>4

\* A property of 0 that passes from one number to the next holds of all of them.
LEMMA Induct ==
    ASSUME NEW good, NEW n \in Nat, 0 \in good, \A k \in 0..n : k \in good /\ k < n => k + 1 \in good
    PROVE  \A k \in 0..n : k \in good
<1> SUFFICES ASSUME NEW m \in 0..n, m \notin good
             PROVE  FALSE
  OBVIOUS
<1> DEFINE bad == {k \in Nat : k <= n /\ k \notin good}
<1>1. bad \in SUBSET Nat /\ bad # {}
  OBVIOUS
<1>2. PICK least \in bad : \A k \in bad : least <= k
  BY <1>1, LeastNatural
<1>3. least \in Nat /\ least <= n /\ least \notin good /\ least # 0
  BY <1>2
<1>4. least - 1 \in 0..n /\ least - 1 \notin bad /\ least - 1 < n
  BY <1>2, <1>3
<1>5. least - 1 \in good
  BY <1>4
<1> QED
  BY <1>3, <1>4, <1>5

-----------------------------------------------------------------------------
(* Whose a thread is. *)

LEMMA OwnedMore ==
    ASSUME NEW t, NEW known, NEW links, NEW more, NEW longer,
           known \subseteq more, links \subseteq longer, Owned(t, known, links)
    PROVE  Owned(t, more, longer)
BY DEF Owned

-----------------------------------------------------------------------------
(* The ledger. *)

Totals == 0..MaxTotal
States == {"known", "out_of_order_or_counter_reset"}
LedgerEvents == [epoch : Epochs, note : Note, state : States]

Ledgers == [events : SUBSET LedgerEvents,
            first : [Keys -> Totals \cup {None}],
            high : [Keys -> Totals \cup {None}],
            increase : [Keys -> Int]]

OfKey(l, k) == {x \in l.events : <<x.epoch, x.note.thread>> = k}

Balanced(l, k) ==
    /\ l.high[k] = None => OfKey(l, k) = {} /\ l.first[k] = None /\ l.increase[k] = 0
    /\ l.high[k] # None =>
         /\ l.first[k] # None /\ l.increase[k] = l.high[k] - l.first[k]
         /\ \E x \in OfKey(l, k) : x.note.total = l.high[k]
         /\ \A x \in OfKey(l, k) : x.note.total <= l.high[k]

GoodLedger(l) == l \in Ledgers /\ \A k \in Keys : Balanced(l, k)

HasNote(l, e, n) == \E x \in l.events : x.epoch = e /\ x.note = n

LEMMA EmptyIsGood == GoodLedger(EmptyLedger)
BY FeedAssumption DEF GoodLedger, Ledgers, EmptyLedger, Balanced, OfKey

LEMMA SameBalance ==
    ASSUME NEW l, NEW new, NEW k, Balanced(l, k), OfKey(new, k) = OfKey(l, k),
           new.high[k] = l.high[k], new.first[k] = l.first[k], new.increase[k] = l.increase[k]
    PROVE  Balanced(new, k)
BY DEF Balanced

LEMMA NotLess ==
    ASSUME NEW a \in Nat, NEW b \in Nat, ~(a < b)
    PROVE  b <= a
OBVIOUS

\* A counter that is entered as stale leaves the rest of the ledger alone.
LEMMA StaleKeeps ==
    ASSUME NEW l, GoodLedger(l), NEW x \in LedgerEvents, NEW key \in Keys,
           key = <<x.epoch, x.note.thread>>, l.high[key] # None, x.note.total < l.high[key],
           NEW new, new = [l EXCEPT !.events = l.events \cup {x}]
    PROVE  GoodLedger(new)
<1>1. l \in Ledgers /\ \A k \in Keys : Balanced(l, k)
  BY DEF GoodLedger
<1>2. /\ new \in Ledgers /\ new.events = l.events \cup {x} /\ new.first = l.first
      /\ new.high = l.high /\ new.increase = l.increase
  BY <1>1 DEF Ledgers
<1>3. ASSUME NEW k \in Keys, k # key
      PROVE  Balanced(new, k)
  <2>1. OfKey(new, k) = OfKey(l, k)
    BY <1>2, <1>3 DEF OfKey
  <2> QED
    BY <2>1, <1>1, <1>2 DEF Balanced
<1>4. Balanced(new, key)
  <2>1. OfKey(new, key) = OfKey(l, key) \cup {x}
    BY <1>2 DEF OfKey
  <2>2. Balanced(l, key) /\ l.high[key] \in Totals
    BY <1>1 DEF Ledgers
  <2>3. x.note.total <= l.high[key]
    BY <2>2, FeedAssumption DEF LedgerEvents, Note, Totals
  <2> QED
    BY <2>1, <2>2, <2>3, <1>2 DEF Balanced
<1> QED
  BY <1>2, <1>3, <1>4 DEF GoodLedger

\* A counter that does not decline becomes the high water mark of its thread.
LEMMA KnownKeeps ==
    ASSUME NEW l, GoodLedger(l), NEW x \in LedgerEvents, NEW key \in Keys,
           key = <<x.epoch, x.note.thread>>, NEW t, t = x.note.total,
           NEW old, old = l.high[key], old # None => ~(t < old),
           NEW new,
           new = [events |-> l.events \cup {x},
                  first |-> IF old = None THEN [l.first EXCEPT ![key] = t] ELSE l.first,
                  high |-> [l.high EXCEPT ![key] = t],
                  increase |-> IF old = None THEN l.increase
                               ELSE [l.increase EXCEPT ![key] = @ + t - old]]
    PROVE  GoodLedger(new)
<1>1. /\ l.events \subseteq LedgerEvents
      /\ l.first \in [Keys -> Totals \cup {None}]
      /\ l.high \in [Keys -> Totals \cup {None}]
      /\ l.increase \in [Keys -> Int]
      /\ \A k \in Keys : Balanced(l, k)
  BY DEF GoodLedger, Ledgers
<1>2. Totals \subseteq Nat /\ None \notin Nat
  BY FeedAssumption DEF Totals
<1>3. t \in Totals /\ old \in Totals \cup {None} /\ l.first[key] \in Totals \cup {None}
  BY <1>1 DEF LedgerEvents, Note, Totals
<1>4. PICK i \in Int : i = l.increase[key]
  BY <1>1
<1>5. new \in Ledgers
  <2>1. [l.first EXCEPT ![key] = t] \in [Keys -> Totals \cup {None}]
    BY <1>1, <1>3
  <2>2. [l.high EXCEPT ![key] = t] \in [Keys -> Totals \cup {None}]
    BY <1>1, <1>3
  <2>3. old # None => [l.increase EXCEPT ![key] = @ + t - old] \in [Keys -> Int]
    <3>1. old # None => i + t - old \in Int
      BY <1>2, <1>3
    <3> QED
      BY <1>1, <1>4, <3>1
  <2> QED
    BY <1>1, <2>1, <2>2, <2>3 DEF Ledgers
<1>6. ASSUME NEW k \in Keys, k # key
      PROVE  Balanced(new, k)
  <2>1. OfKey(new, k) = OfKey(l, k)
    BY <1>6 DEF OfKey
  <2>2. new.high[k] = l.high[k] /\ new.first[k] = l.first[k] /\ new.increase[k] = l.increase[k]
    BY <1>1, <1>6
  <2>3. Balanced(l, k)
    BY <1>1
  <2> QED
    BY <2>1, <2>2, <2>3, SameBalance
<1>7. Balanced(new, key)
  <2>1. OfKey(new, key) = OfKey(l, key) \cup {x}
    BY DEF OfKey
  <2>2. new.high[key] = t /\ t # None /\ t \in Nat
    BY <1>1, <1>2, <1>3
  <2>3. Balanced(l, key)
    BY <1>1
  <2>4. CASE old = None
    <3>1. OfKey(l, key) = {} /\ i = 0
      BY <1>4, <2>3, <2>4 DEF Balanced
    <3>2. new.first[key] = t /\ new.increase[key] = 0
      BY <1>1, <1>4, <2>4, <3>1
    <3>3. t - t = 0 /\ t <= t
      BY <2>2
    <3> QED
      BY <2>1, <2>2, <3>1, <3>2, <3>3 DEF Balanced
  <2>5. CASE old # None
    <3>1. old \in Nat /\ old <= t
      <4>1. old \in Nat
        BY <1>2, <1>3, <2>5
      <4>2. ~(t < old)
        BY <2>5
      <4> QED
        BY <2>2, <4>1, <4>2, NotLess
    <3>2. PICK base \in Nat : base = l.first[key]
      BY <1>2, <1>3, <2>3, <2>5 DEF Balanced
    <3>3. i = old - base
      BY <1>4, <2>3, <2>5, <3>2 DEF Balanced
    <3>4. new.first[key] = base /\ new.increase[key] = i + t - old
      BY <1>1, <1>4, <2>5, <3>2
    <3>5. new.increase[key] = t - base
      BY <2>2, <3>1, <3>3, <3>4
    <3>6. ASSUME NEW y \in OfKey(l, key)
          PROVE  y.note.total <= t
      <4>1. y.note.total <= old
        BY <2>3, <2>5 DEF Balanced
      <4>2. y.note.total \in Nat
        BY <1>1, <1>2 DEF OfKey, LedgerEvents, Note, Totals
      <4> QED
        BY <2>2, <3>1, <4>1, <4>2
    <3>7. t <= t /\ base # None
      BY <1>2, <2>2, <3>2
    <3> QED
      BY <2>1, <2>2, <3>4, <3>5, <3>6, <3>7 DEF Balanced
  <2> QED
    BY <2>4, <2>5
<1> QED
  BY <1>5, <1>6, <1>7 DEF GoodLedger

LEMMA RecordKeeps ==
    ASSUME NEW l, GoodLedger(l), NEW e \in Epochs, NEW n \in Note,
           NEW new, new = Record(l, e, n)
    PROVE  /\ GoodLedger(new)
           /\ l.events \subseteq new.events
           /\ \A x \in new.events \ l.events : x.epoch = e /\ x.note = n
           /\ HasNote(new, e, n)
<1>1. CASE Recorded(l, e, n)
  BY <1>1 DEF Recorded, Record, HasNote
<1>2. CASE ~Recorded(l, e, n)
  <2>1. PICK key \in Keys : key = <<e, n.thread>>
    BY DEF Keys, Note
  <2>2. PICK x \in LedgerEvents :
            x.epoch = e /\ x.note = n /\ Noted(l, e, n) = l.events \cup {x}
    <3> DEFINE x == [epoch |-> e, note |-> n, state |-> StateOf(l, e, n)]
    <3>1. x \in LedgerEvents
      BY DEF LedgerEvents, States, StateOf
    <3> QED
      BY <3>1 DEF Noted
  <2>3. l.events \cup {x} \in SUBSET LedgerEvents /\ l \in Ledgers
    BY DEF GoodLedger, Ledgers
  <2>4. CASE StateOf(l, e, n) # "known"
    <3>1. new = [l EXCEPT !.events = l.events \cup {x}]
      BY <1>2, <2>2, <2>4 DEF Record
    <3>2. l.high[key] # None /\ x.note.total < l.high[key]
      BY <2>1, <2>2, <2>4 DEF StateOf
    <3>3. GoodLedger(new)
      BY <2>1, <2>2, <3>1, <3>2, StaleKeeps
    <3>4. new.events = l.events \cup {x}
      BY <2>3, <3>1 DEF Ledgers
    <3> QED
      BY <2>2, <3>3, <3>4 DEF HasNote
  <2>5. CASE StateOf(l, e, n) = "known"
    <3>1. PICK old : old = l.high[key]
      OBVIOUS
    <3>2. new = [events |-> l.events \cup {x},
                 first |-> IF old = None THEN [l.first EXCEPT ![key] = n.total] ELSE l.first,
                 high |-> [l.high EXCEPT ![key] = n.total],
                 increase |-> IF old = None THEN l.increase
                              ELSE [l.increase EXCEPT ![key] = @ + n.total - old]]
      BY <1>2, <2>1, <2>2, <2>5, <3>1 DEF Record
    <3>3. old # None => ~(n.total < old)
      BY <2>1, <2>5, <3>1 DEF StateOf
    <3>4. GoodLedger(new)
      BY <2>1, <2>2, <3>1, <3>2, <3>3, KnownKeeps
    <3>5. new.events = l.events \cup {x}
      BY <3>2
    <3> QED
      BY <2>2, <3>4, <3>5 DEF HasNote
  <2> QED
    BY <2>4, <2>5
<1> QED
  BY <1>1, <1>2

-----------------------------------------------------------------------------
(* What flush does to a buffer. *)

Begun == [ledger |-> ledger, left |-> <<>>]

LEMMA SweepExists ==
    ASSUME NEW buffer, NEW known, NEW links, NEW m \in Nat
    PROVE  \E f : f = [k \in 0..m |-> IF k = 0 THEN Begun
                                     ELSE Swept(f[k - 1], buffer[k], known, links)]
<1> DEFINE Turn(f, k) == Swept(f[k - 1], buffer[k], known, links)
           Run(f, n) == f = [k \in 0..n |-> IF k = 0 THEN Begun ELSE Turn(f, k)]
           good == {n \in 0..m : \E f : Run(f, n)}
<1>1. 0 \in good
  <2>1. Run([k \in 0..0 |-> Begun], 0)
    <3> HIDE DEF Turn
    <3> QED
      OBVIOUS
  <2> HIDE DEF Run
  <2> QED
    BY <2>1
<1>2. ASSUME NEW n \in 0..m, n \in good, n < m
      PROVE  n + 1 \in good
  <2>1. PICK f : f = [k \in 0..n |-> IF k = 0 THEN Begun ELSE Turn(f, k)]
    BY <1>2
  <2> DEFINE g == [k \in 0..(n + 1) |-> IF k = 0 THEN Begun ELSE Turn(f, k)]
  <2>2. \A k \in 0..n : g[k] = f[k]
    <3> HIDE DEF Turn
    <3> QED
      BY <2>1
  <2>3. \A k \in 0..(n + 1) : k # 0 => Turn(f, k) = Turn(g, k)
    <3>1. \A k \in 0..(n + 1) : k # 0 => k - 1 \in 0..n
      OBVIOUS
    <3> QED
      BY <2>2, <3>1
  <2>4. Run(g, n + 1)
    <3> HIDE DEF Turn
    <3> QED
      BY <2>3
  <2>5. n + 1 \in 0..m
    BY <1>2
  <2> HIDE DEF Run, g
  <2> QED
    BY <2>4, <2>5
<1>3. m \in good
  <2> HIDE DEF good
  <2> QED
    BY <1>1, <1>2, Induct
<1> QED
  BY <1>3

LEMMA SweepTurns ==
    ASSUME NEW buffer, NEW known, NEW links, Len(buffer) \in Nat,
           NEW done, done = Sweep(buffer, known, links)
    PROVE  /\ done[0] = Begun
           /\ \A k \in 1..Len(buffer) : done[k] = Swept(done[k - 1], buffer[k], known, links)
<1>1. done = [k \in 0..Len(buffer) |-> IF k = 0 THEN Begun
                                       ELSE Swept(done[k - 1], buffer[k], known, links)]
  BY SweepExists DEF Sweep, Begun
<1> QED
  BY <1>1

\* After k turns each counter is in the ledger or left over, and nothing else is.
In(n, s) == \E i \in 1..Len(s) : s[i] = n

SweptWell(done, buffer, known, links, k) ==
    /\ done \in [ledger : Ledgers, left : Seq(Note)]
    /\ GoodLedger(done.ledger)
    /\ ledger.events \subseteq done.ledger.events
    /\ \A x \in done.ledger.events \ ledger.events :
         /\ x.epoch = epoch /\ Owned(x.note.thread, known, links)
         /\ In(x.note, buffer)
    /\ Len(done.left) <= k
    /\ \A n \in Note : In(n, done.left) => In(n, buffer)
    /\ \A i \in 1..k : In(buffer[i], done.left) \/ HasNote(done.ledger, epoch, buffer[i])

LEMMA ConcatFacts ==
    ASSUME NEW S, NEW s \in Seq(S), NEW t \in Seq(S)
    PROVE  /\ s \o t \in Seq(S) /\ Len(s \o t) = Len(s) + Len(t)
           /\ \A i \in 1..Len(s) : (s \o t)[i] = s[i]
           /\ \A i \in 1..Len(t) : (s \o t)[Len(s) + i] = t[i]
OBVIOUS

LEMMA InAppend ==
    ASSUME NEW S, NEW s \in Seq(S), NEW n \in S
    PROVE  /\ Append(s, n) \in Seq(S) /\ Len(Append(s, n)) = Len(s) + 1 /\ Len(s) \in Nat
           /\ \A m : In(m, Append(s, n)) <=> In(m, s) \/ m = n
<1>1. /\ Append(s, n) \in Seq(S) /\ Len(Append(s, n)) = Len(s) + 1 /\ Len(s) \in Nat
      /\ \A i \in 1..Len(s) : Append(s, n)[i] = s[i]
      /\ Append(s, n)[Len(s) + 1] = n
  OBVIOUS
<1>2. \A i : i \in 1..(Len(s) + 1) <=> i \in 1..Len(s) \/ i = Len(s) + 1
  BY <1>1
<1> QED
  BY <1>1, <1>2 DEF In

LEMMA TurnKeeps ==
    ASSUME NEW buffer \in Seq(Note), NEW known, NEW links, epoch \in Epochs,
           NEW k \in 1..Len(buffer), NEW old, SweptWell(old, buffer, known, links, k - 1),
           NEW new, new = Swept(old, buffer[k], known, links)
    PROVE  SweptWell(new, buffer, known, links, k)
<1>1. PICK n \in Note : n = buffer[k]
  OBVIOUS
<1>2. In(n, buffer)
  BY <1>1 DEF In
<1>3. \A i \in 1..k : i \in 1..(k - 1) \/ i = k
  OBVIOUS
<1>4. /\ old \in [ledger : Ledgers, left : Seq(Note)] /\ GoodLedger(old.ledger)
      /\ old.left \in Seq(Note) /\ Len(old.left) \in Nat /\ Len(old.left) <= k - 1
  BY DEF SweptWell
<1>5. CASE Owned(n.thread, known, links)
  <2>1. PICK l : l = Record(old.ledger, epoch, n)
    OBVIOUS
  <2>2. new = [old EXCEPT !.ledger = l]
    BY <1>1, <1>5, <2>1 DEF Swept
  <2>3. /\ GoodLedger(l) /\ old.ledger.events \subseteq l.events
        /\ \A x \in l.events \ old.ledger.events : x.epoch = epoch /\ x.note = n
        /\ HasNote(l, epoch, n)
    BY <1>4, <2>1, RecordKeeps
  <2>4. l \in Ledgers
    BY <2>3 DEF GoodLedger
  <2>5. new \in [ledger : Ledgers, left : Seq(Note)] /\ new.ledger = l /\ new.left = old.left
    BY <1>4, <2>2, <2>4
  <2>6. ASSUME NEW x \in l.events \ ledger.events
        PROVE  x.epoch = epoch /\ Owned(x.note.thread, known, links) /\ In(x.note, buffer)
    BY <1>2, <1>5, <2>3 DEF SweptWell
  <2>7. ASSUME NEW i \in 1..k
        PROVE  In(buffer[i], old.left) \/ HasNote(l, epoch, buffer[i])
    BY <1>1, <1>3, <2>3 DEF SweptWell, HasNote
  <2>8. ledger.events \subseteq l.events /\ \A m \in Note : In(m, old.left) => In(m, buffer)
    BY <2>3 DEF SweptWell
  <2>9. Len(old.left) <= k
    BY <1>4
  <2> QED
    BY <2>3, <2>5, <2>6, <2>7, <2>8, <2>9 DEF SweptWell
<1>6. CASE ~Owned(n.thread, known, links)
  <2>1. PICK rest : rest = Append(old.left, n)
    OBVIOUS
  <2>2. new = [old EXCEPT !.left = rest]
    BY <1>1, <1>6, <2>1 DEF Swept
  <2>3. /\ rest \in Seq(Note) /\ Len(rest) = Len(old.left) + 1
        /\ \A m : In(m, rest) <=> In(m, old.left) \/ m = n
    BY <1>4, <2>1, InAppend
  <2>4. new \in [ledger : Ledgers, left : Seq(Note)] /\ new.ledger = old.ledger /\ new.left = rest
    BY <1>4, <2>2, <2>3
  <2>5. \A m \in Note : In(m, rest) => In(m, buffer)
    BY <1>2, <2>3 DEF SweptWell
  <2>6. ASSUME NEW i \in 1..k
        PROVE  In(buffer[i], rest) \/ HasNote(old.ledger, epoch, buffer[i])
    BY <1>1, <1>3, <2>3 DEF SweptWell
  <2>7. Len(rest) <= k
    BY <1>4, <2>3
  <2> QED
    BY <2>4, <2>5, <2>6, <2>7 DEF SweptWell
<1> QED
  BY <1>5, <1>6

LEMMA SweepWell ==
    ASSUME NEW buffer \in Seq(Note), NEW known, NEW links, epoch \in Epochs, GoodLedger(ledger),
           NEW k \in 0..Len(buffer)
    PROVE  SweptWell(Sweep(buffer, known, links)[k], buffer, known, links, k)
<1>1. PICK done : done = Sweep(buffer, known, links)
  OBVIOUS
<1>2. /\ Len(buffer) \in Nat /\ done[0] = Begun
      /\ \A i \in 1..Len(buffer) : done[i] = Swept(done[i - 1], buffer[i], known, links)
  <2>1. Len(buffer) \in Nat
    OBVIOUS
  <2> QED
    BY <1>1, <2>1, SweepTurns
<1> DEFINE good == {i \in 0..Len(buffer) : SweptWell(done[i], buffer, known, links, i)}
<1>3. 0 \in good
  <2>1. Begun \in [ledger : Ledgers, left : Seq(Note)] /\ Begun.ledger = ledger /\ Begun.left = <<>>
    BY DEF Begun, GoodLedger
  <2>2. ~In(0, <<>>) /\ \A n : ~In(n, <<>>)
    BY DEF In
  <2>3. Len(<<>>) <= 0 /\ 1..0 = {}
    OBVIOUS
  <2>4. SweptWell(Begun, buffer, known, links, 0)
    BY <2>1, <2>2, <2>3 DEF SweptWell
  <2> QED
    BY <1>2, <2>4
<1>4. ASSUME NEW i \in 0..Len(buffer), i \in good, i < Len(buffer)
      PROVE  i + 1 \in good
  <2>1. i + 1 \in 1..Len(buffer) /\ (i + 1) - 1 = i
    BY <1>2, <1>4
  <2>2. SweptWell(done[(i + 1) - 1], buffer, known, links, (i + 1) - 1)
    BY <1>4, <2>1
  <2>3. done[i + 1] = Swept(done[(i + 1) - 1], buffer[i + 1], known, links)
    BY <1>2, <2>1
  <2>4. SweptWell(done[i + 1], buffer, known, links, i + 1)
    BY <2>1, <2>2, <2>3, TurnKeeps
  <2> QED
    BY <2>1, <2>4
<1>5. k \in good
  <2> HIDE DEF good
  <2> QED
    BY <1>2, <1>3, <1>4, Induct
<1> QED
  BY <1>1, <1>5

\* What flush leaves behind, wherever it ends.
Flushed(buffer, known, links) ==
    /\ GoodLedger(ledger')
    /\ ledger.events \subseteq ledger'.events
    /\ \A x \in ledger'.events \ ledger.events :
         x.epoch = epoch /\ Owned(x.note.thread, known, links) /\ In(x.note, buffer)
    /\ pending' \in Seq(Note) /\ Len(pending') <= Len(buffer)
    /\ \A n \in Note : In(n, pending') => In(n, buffer)
    /\ \A n \in Note : In(n, buffer) => In(n, pending') \/ HasNote(ledger', epoch, n)
    /\ attempted' \subseteq attempted
    /\ faults' = faults \/ (faults' = faults + 1 /\ faults < MaxFaults)

LEMMA FlushAllFacts ==
    ASSUME NEW buffer \in Seq(Note), NEW known, NEW links, epoch \in Epochs, GoodLedger(ledger),
           FlushAll(buffer, known, links)
    PROVE  Flushed(buffer, known, links)
<1>1. PICK done : done = Sweep(buffer, known, links)[Len(buffer)]
  OBVIOUS
<1>2. Len(buffer) \in Nat /\ Len(buffer) \in 0..Len(buffer)
  OBVIOUS
<1>3. SweptWell(done, buffer, known, links, Len(buffer))
  BY <1>1, <1>2, SweepWell
<1>4. ledger' = done.ledger /\ pending' = done.left /\ attempted' \subseteq attempted
      /\ faults' = faults
  BY <1>1 DEF FlushAll
<1>5. ASSUME NEW n \in Note, In(n, buffer)
      PROVE  In(n, done.left) \/ HasNote(done.ledger, epoch, n)
  BY <1>3, <1>5 DEF SweptWell, In
<1> QED
  BY <1>3, <1>4, <1>5 DEF SweptWell, Flushed

LEMMA FlushFailsFacts ==
    ASSUME NEW buffer \in Seq(Note), NEW known, NEW links, epoch \in Epochs, GoodLedger(ledger),
           FlushFails(buffer, known, links)
    PROVE  Flushed(buffer, known, links) /\ error'
<1>1. PICK k \in 1..Len(buffer) :
          LET done == Sweep(buffer, known, links)[k - 1]
          IN  /\ ledger' = done.ledger
              /\ pending' = done.left \o SubSeq(buffer, k, Len(buffer))
  <2>1. DOMAIN buffer = 1..Len(buffer)
    OBVIOUS
  <2> QED
    BY <2>1, Zenon DEF FlushFails
<1>2. PICK done : done = Sweep(buffer, known, links)[k - 1]
  OBVIOUS
<1>3. Len(buffer) \in Nat /\ k - 1 \in 0..Len(buffer)
  OBVIOUS
<1>4. SweptWell(done, buffer, known, links, k - 1)
  BY <1>2, <1>3, SweepWell
<1>5. PICK rest : rest = SubSeq(buffer, k, Len(buffer))
  OBVIOUS
<1>6. /\ rest \in Seq(Note) /\ Len(rest) = Len(buffer) - k + 1
      /\ \A i \in 1..Len(rest) : rest[i] = buffer[k + i - 1]
  BY <1>5
<1>7. ledger' = done.ledger /\ pending' = done.left \o rest
  BY <1>1, <1>2, <1>5
<1>8. PICK left \in Seq(Note) : left = done.left
  BY <1>4 DEF SweptWell
<1>9. Len(left) \in Nat /\ Len(left) <= k - 1
  BY <1>4, <1>8 DEF SweptWell
<1>10. /\ left \o rest \in Seq(Note) /\ Len(left \o rest) = Len(left) + Len(rest)
       /\ \A i \in 1..Len(left) : (left \o rest)[i] = left[i]
       /\ \A i \in 1..Len(rest) : (left \o rest)[Len(left) + i] = rest[i]
  <2>1. left \in Seq(Note) /\ rest \in Seq(Note)
    BY <1>6, <1>8
  <2> QED
    BY <2>1, ConcatFacts
<1>11. Len(left \o rest) <= Len(buffer)
  BY <1>3, <1>6, <1>9, <1>10
<1>12. ASSUME NEW n \in Note
       PROVE  In(n, left \o rest) <=> In(n, left) \/ In(n, rest)
  <2>1. \A i \in 1..Len(left) : i \in 1..Len(left \o rest)
    BY <1>6, <1>9, <1>10
  <2>2. \A i \in 1..Len(rest) : Len(left) + i \in 1..Len(left \o rest)
    BY <1>6, <1>9, <1>10
  <2>3. \A i \in 1..Len(left \o rest) :
            \/ i \in 1..Len(left)
            \/ i - Len(left) \in 1..Len(rest) /\ i = Len(left) + (i - Len(left))
    BY <1>6, <1>9, <1>10
  <2>4. In(n, left) \/ In(n, rest) => In(n, left \o rest)
    BY <1>10, <2>1, <2>2 DEF In
  <2>5. ASSUME NEW i \in 1..Len(left \o rest), (left \o rest)[i] = n, i \notin 1..Len(left)
        PROVE  In(n, rest)
    <3>1. PICK j \in 1..Len(rest) : i = Len(left) + j
      BY <2>3, <2>5
    <3>2. rest[j] = n
      BY <1>10, <2>5, <3>1
    <3> QED
      BY <3>2 DEF In
  <2>6. In(n, left \o rest) => In(n, left) \/ In(n, rest)
    BY <1>10, <2>5 DEF In
  <2> QED
    BY <2>4, <2>6
<1>13. ASSUME NEW n \in Note, In(n, rest)
       PROVE  In(n, buffer)
  <2>1. \A i \in 1..Len(rest) : k + i - 1 \in 1..Len(buffer)
    BY <1>3, <1>6
  <2> QED
    BY <1>6, <1>13, <2>1 DEF In
<1>14. ASSUME NEW n \in Note, In(n, buffer)
       PROVE  In(n, left) \/ In(n, rest) \/ HasNote(done.ledger, epoch, n)
  <2>1. PICK i \in 1..Len(buffer) : buffer[i] = n
    BY <1>14 DEF In
  <2>2. CASE i \in 1..(k - 1)
    BY <1>4, <1>8, <2>1, <2>2 DEF SweptWell
  <2>3. CASE i \notin 1..(k - 1)
    <3>1. i - k + 1 \in 1..Len(rest) /\ k + (i - k + 1) - 1 = i
      BY <1>3, <1>6, <2>3
    <3> QED
      BY <1>6, <2>1, <3>1 DEF In
  <2> QED
    BY <2>2, <2>3
<1>15. attempted' = attempted /\ faults' = faults + 1 /\ faults < MaxFaults /\ error'
  BY DEF FlushFails
<1> QED
  BY <1>4, <1>7, <1>8, <1>10, <1>11, <1>12, <1>13, <1>14, <1>15 DEF SweptWell, Flushed

-----------------------------------------------------------------------------
(* The inductive invariant. *)

Messages == [kind : {"counter"}, note : Note] \cup [kind : {"parent"}, thread : Threads]

StateTypes ==
    /\ epochs \in [Epochs -> {"none", "prepared", "bound", "aborted"}]
    /\ server \in Epochs \cup {None} /\ epoch \in Epochs \cup {None}
    /\ phase \in Phases /\ error \in BOOLEAN /\ broken \in BOOLEAN /\ faults \in 0..MaxFaults

ListenerTypes ==
    /\ tasks \subseteq Roots /\ roots \subseteq tasks /\ linked \subseteq exists \ Roots
    /\ pending \in Seq(Note) /\ Len(pending) <= MaxPending
    /\ asking \in Threads \cup {None} /\ attempted \subseteq Threads

ServerTypes ==
    /\ alive \subseteq Epochs /\ exists \subseteq Threads /\ total \in [Threads -> Totals]
    /\ told \subseteq Note /\ received \subseteq Note

WireTypes ==
    /\ wire \in Seq(Messages)
    /\ \A i \in 1..Len(wire) : wire[i].kind = "parent" => wire[i].thread \in exists \ Roots

FeedTypes ==
    /\ StateTypes /\ ListenerTypes /\ ServerTypes /\ WireTypes
    /\ GoodLedger(ledger)

Silent == {"down", "prepared", "spawned", "bound"}

\* What the service has on disk and in memory in each phase.
PhaseInv ==
    /\ phase = "down" <=> epoch = None
    /\ phase \in {"prepared", "spawned"} => epochs[epoch] = "prepared"
    /\ phase = "bound" \/ Listening => epochs[epoch] = "bound" /\ server = epoch
    /\ phase \in Silent => pending = <<>> /\ wire = <<>> /\ roots = {} /\ linked = {}
    /\ phase \in Silent => told = {} /\ received = {} /\ ~broken
    /\ broken => wire = <<>>
    /\ asking # None => Listening
    /\ phase = "closed" /\ ~error => pending = <<>> /\ wire = <<>>

\* The server that is left is the one whose epoch runtime.json holds.
AliveInv ==
    /\ \A d, e \in alive : d = e
    /\ phase = "down" => \A e \in alive : e = server \/ epochs[e] = "prepared"
    /\ phase \in {"prepared", "exited", "closed"} => alive = {}
    /\ phase # "down" => alive \subseteq {epoch}

\* No counter is higher than what the thread used.
SaidInv ==
    /\ \A n \in Note : In(n, pending) => n.total <= total[n.thread]
    /\ \A i \in 1..Len(wire) :
         wire[i].kind = "counter" => wire[i].note.total <= total[wire[i].note.thread]
    /\ \A x \in ledger.events : x.note.total <= total[x.note.thread]

OnWire(n) == \E i \in 1..Len(wire) : wire[i] = [kind |-> "counter", note |-> n]

Taken(n) == In(n, pending) \/ InLedger(n)

NoneMissing ==
    ~error =>
        /\ \A n \in received : Taken(n)
        /\ \A n \in told \ received : broken \/ OnWire(n)

FeedInv == FeedTypes /\ PhaseInv /\ AliveInv /\ SaidInv /\ NoneMissing /\ OnlyOurs

-----------------------------------------------------------------------------
(* The steps that flush. *)

\* buffer holds what was pending and what this step takes from the connection.
Heard(buffer) ==
    /\ buffer \in Seq(Note) /\ Len(buffer) <= MaxPending
    /\ \A n \in Note : In(n, pending) => In(n, buffer)
    /\ \A n \in Note : In(n, buffer) => In(n, pending) \/ OnWire(n)
    /\ \A n \in Note : OnWire(n) => n \in received' \/ OnWire(n)'
    /\ received \subseteq received'
    /\ \A n \in received' : n \in received \/ In(n, buffer)
    /\ received' \subseteq Note
    /\ wire' \in Seq(Messages)
    /\ \A j \in 1..Len(wire') : \E i \in 1..Len(wire) : wire'[j] = wire[i]

Steady == UNCHANGED <<epochs, server, epoch, nativeVars, broken, told>>

FlushStep ==
    /\ Listening /\ Steady
    /\ \E buffer : Heard(buffer) /\ Flushed(buffer, roots', linked')
    /\ roots \subseteq roots' /\ roots' \subseteq tasks' /\ tasks \subseteq tasks' /\ tasks' \subseteq Roots
    /\ linked' \subseteq exists \ Roots
    /\ error' \in BOOLEAN /\ (error => error')
    /\ asking' \in {asking, None}
    /\ phase' # "closed" => phase' = phase
    /\ phase' = "closed" => phase = "exited" /\ asking' = None
    /\ phase' = "closed" /\ ~error' => pending' = <<>> /\ wire' = <<>>

LEMMA HeardSame ==
    ASSUME FeedTypes, wire' = wire, received' = received
    PROVE  Heard(pending)
BY DEF FeedTypes, ListenerTypes, ServerTypes, WireTypes, Heard, OnWire

LEMMA WireTail ==
    ASSUME FeedTypes, wire # <<>>, wire' = Tail(wire)
    PROVE  /\ Head(wire) \in Messages /\ wire[1] = Head(wire) /\ 1 \in 1..Len(wire)
           /\ wire' \in Seq(Messages)
           /\ \A j \in 1..Len(wire') : \E i \in 1..Len(wire) : wire'[j] = wire[i]
           /\ \A i \in 1..Len(wire) : i = 1 \/ \E j \in 1..Len(wire') : wire'[j] = wire[i]
<1>1. wire \in Seq(Messages) /\ Len(wire) \in Nat /\ Len(wire) >= 1
  BY DEF FeedTypes, WireTypes
<1>2. /\ Head(wire) \in Messages /\ wire[1] = Head(wire)
      /\ wire' \in Seq(Messages) /\ Len(wire') = Len(wire) - 1
      /\ \A j \in 1..Len(wire') : wire'[j] = wire[j + 1]
  BY <1>1
<1>3. \A j \in 1..Len(wire') : j + 1 \in 1..Len(wire)
  BY <1>1, <1>2
<1>4. \A i \in 1..Len(wire) : i # 1 => i - 1 \in 1..Len(wire') /\ (i - 1) + 1 = i
  BY <1>1, <1>2
<1>5. \A i \in 1..Len(wire) : i # 1 => wire'[i - 1] = wire[i]
  BY <1>2, <1>4
<1> QED
  BY <1>1, <1>2, <1>3, <1>4, <1>5

LEMMA FlushFacts ==
    ASSUME FeedTypes, PhaseInv, Listening, NEW buffer \in Seq(Note), NEW known, NEW links,
           FlushAll(buffer, known, links) \/ FlushFails(buffer, known, links)
    PROVE  Flushed(buffer, known, links)
<1>1. epoch \in Epochs /\ GoodLedger(ledger)
  BY DEF FeedTypes, StateTypes, PhaseInv, Listening
<1> QED
  BY <1>1, FlushAllFacts, FlushFailsFacts

\* The buffer is full: the counter is dropped, and the service stops.
Overflows ==
    /\ Steady /\ Listening /\ error' = TRUE
    /\ wire' = Tail(wire) /\ wire # <<>> /\ received' \subseteq Note
    /\ UNCHANGED <<tasks, phase, roots, linked, asking, ledger, pending, attempted, faults>>

LEMMA FlushErrors ==
    ASSUME error \in BOOLEAN, NEW buffer, NEW known, NEW links, Flush(buffer, known, links)
    PROVE  error' \in BOOLEAN /\ (error => error')
<1>1. error' = error \/ error' = TRUE
  BY DEF Flush, FlushFails
<1> QED
  BY <1>1

LEMMA ReadFlushes ==
    ASSUME FeedTypes, PhaseInv, Read
    PROVE  \/ FlushStep
           \/ Overflows
<1>1. /\ Listening /\ wire # <<>> /\ wire' = Tail(wire)
      /\ UNCHANGED <<diskVars, phase, epoch, roots, asking, nativeVars, broken, told>>
  BY DEF Read
<1>2. /\ Head(wire) \in Messages /\ wire[1] = Head(wire) /\ 1 \in 1..Len(wire)
      /\ wire' \in Seq(Messages)
      /\ \A j \in 1..Len(wire') : \E i \in 1..Len(wire) : wire'[j] = wire[i]
      /\ \A i \in 1..Len(wire) : i = 1 \/ \E j \in 1..Len(wire') : wire'[j] = wire[i]
  BY <1>1, WireTail
<1>3. pending \in Seq(Note) /\ Len(pending) \in Nat /\ Len(pending) <= MaxPending
  BY DEF FeedTypes, ListenerTypes
<1>4. ASSUME NEW n \in Note, OnWire(n), ~OnWire(n)'
      PROVE  Head(wire) = [kind |-> "counter", note |-> n]
  BY <1>2, <1>4 DEF OnWire
<1>5. ASSUME NEW buffer \in Seq(Note), Heard(buffer), NEW links, links = linked',
             Flush(buffer, roots, links), linked' \subseteq exists \ Roots
      PROVE  FlushStep
  <2>1. Flushed(buffer, roots, links)
    BY <1>1, <1>5, FlushFacts DEF Flush
  <2>2. error' \in BOOLEAN /\ (error => error')
    BY <1>5, FlushErrors DEF FeedTypes, StateTypes
  <2> QED
    BY <1>1, <1>5, <2>1, <2>2 DEF FlushStep, Steady, diskVars, nativeVars, FeedTypes, ListenerTypes, Listening
<1>6. CASE Head(wire).kind = "counter"
  <2>1. PICK n \in Note : n = Head(wire).note /\ Head(wire) = [kind |-> "counter", note |-> n]
    BY <1>2, <1>6 DEF Messages
  <2>2. ReadCounter(n) /\ linked' = linked /\ received' = received \cup {n}
    BY <1>6, <2>1 DEF Read
  <2> received' \subseteq Note
    BY <2>2 DEF FeedTypes, ServerTypes
  <2>3. CASE Len(pending) >= MaxPending
    BY <1>1, <2>2, <2>3 DEF ReadCounter, Overflows, Steady, diskVars, nativeVars
  <2>4. CASE ~(Len(pending) >= MaxPending)
    <3>1. PICK buffer : buffer = Append(pending, n)
      OBVIOUS
    <3>2. Flush(buffer, roots, linked)
      BY <2>2, <2>4, <3>1 DEF ReadCounter
    <3>3. /\ buffer \in Seq(Note) /\ Len(buffer) = Len(pending) + 1
          /\ \A m : In(m, buffer) <=> In(m, pending) \/ m = n
      BY <1>3, <3>1, InAppend
    <3>4. Len(buffer) <= MaxPending
      BY <1>3, <2>4, <3>3, FeedAssumption
    <3>5. OnWire(n)
      BY <1>2, <2>1 DEF OnWire
    <3>6. ASSUME NEW m \in Note, OnWire(m), ~OnWire(m)'
          PROVE  m = n
      <4>1. Head(wire) = [kind |-> "counter", note |-> m]
        BY <1>4, <3>6
      <4> QED
        BY <2>1, <4>1
    <3>7. Heard(buffer)
      BY <1>2, <2>2, <3>3, <3>4, <3>5, <3>6 DEF Heard
    <3>8. linked' \subseteq exists \ Roots
      BY <2>2 DEF FeedTypes, ListenerTypes
    <3>9. linked = linked' /\ buffer \in Seq(Note)
      BY <2>2, <3>3
    <3> QED
      BY <1>5, <3>2, <3>7, <3>8, <3>9, Zenon
  <2> QED
    BY <2>3, <2>4
<1>7. CASE Head(wire).kind # "counter"
  <2>1. Learn(Head(wire).thread) /\ Flush(pending, roots, linked') /\ received' = received
    BY <1>7 DEF Read
  <2>2. Head(wire).kind = "parent"
    BY <1>2, <1>7 DEF Messages
  <2>3. Head(wire).thread \in exists \ Roots
    BY <1>2, <2>2 DEF FeedTypes, WireTypes
  <2>4. linked' \subseteq exists \ Roots
    BY <2>1, <2>3 DEF Learn, FeedTypes, ListenerTypes
  <2>5. ASSUME NEW m \in Note, OnWire(m)
        PROVE  OnWire(m)'
    BY <1>4, <1>7, <2>5
  <2>6. Heard(pending)
    BY <1>2, <1>3, <2>1, <2>5 DEF Heard, FeedTypes, ServerTypes
  <2>7. PICK links : links = linked'
    OBVIOUS
  <2>8. Flush(pending, roots, links)
    BY <2>1, <2>7
  <2> QED
    BY <1>3, <1>5, <2>4, <2>6, <2>7, <2>8, Zenon
<1> QED
  BY <1>6, <1>7

LEMMA OtherFlushes ==
    ASSUME FeedTypes, PhaseInv,
           EndAsking \/ EndArchive \/ CloseListener \/ \E r \in Roots : SaveRoot(r)
    PROVE  FlushStep
<1>1. pending \in Seq(Note)
  BY DEF FeedTypes, ListenerTypes
<1>2. CASE EndAsking \/ EndArchive
  <2>1. Listening /\ Flush(pending, roots, linked)
        /\ UNCHANGED <<diskVars, phase, epoch, roots, linked, nativeVars, broken, wire, told, received>>
        /\ asking' \in {asking, None}
    BY <1>2 DEF EndAsking, EndArchive, PhaseInv, Listening, wireVars
  <2>2. Heard(pending) /\ Flushed(pending, roots, linked)
    BY <1>1, <2>1, HeardSame, FlushFacts DEF Flush
  <2>3. error' \in BOOLEAN /\ (error => error')
    BY <2>1, FlushErrors DEF FeedTypes, StateTypes
  <2> QED
    BY <2>1, <2>2, <2>3 DEF FlushStep, Steady, diskVars, nativeVars, FeedTypes, ListenerTypes, Listening
<1>3. CASE CloseListener
  <2>1. /\ phase = "exited" /\ phase' = "closed" /\ Drained /\ asking' = None
        /\ UNCHANGED <<diskVars, epoch, roots, linked, nativeVars, broken, wire, told, received>>
    BY <1>3 DEF CloseListener, wireVars
  <2>2. Listening
    BY <2>1 DEF Listening
  <2>3. FlushAll(pending, roots, linked) \/ FlushFails(pending, roots, linked)
    BY <1>3 DEF CloseListener
  <2>4. Heard(pending) /\ Flushed(pending, roots, linked)
    BY <1>1, <2>1, <2>2, <2>3, HeardSame, FlushFacts
  <2>5. error' \in BOOLEAN /\ (error => error') /\ (~error' => pending' = <<>>)
    BY <1>3 DEF CloseListener, FlushFails, FeedTypes, StateTypes
  <2>6. error \/ wire = <<>>
    BY <2>1 DEF Drained, PhaseInv
  <2> QED
    BY <2>1, <2>2, <2>4, <2>5, <2>6 DEF FlushStep, Steady, diskVars, nativeVars, FeedTypes, ListenerTypes
<1>4. ASSUME NEW r \in Roots, SaveRoot(r)
      PROVE  FlushStep
  <2>1. /\ phase = "listening" /\ Flush(pending, roots', linked)
        /\ tasks' = tasks \cup {r} /\ roots' = roots \cup {r}
        /\ UNCHANGED <<epochs, server, phase, epoch, linked, asking, nativeVars, broken, wire, told,
                       received>>
    BY <1>4 DEF SaveRoot, wireVars
  <2>2. Listening
    BY <2>1 DEF Listening
  <2>3. Heard(pending) /\ Flushed(pending, roots', linked)
    BY <1>1, <2>1, <2>2, HeardSame, FlushFacts DEF Flush
  <2>4. error' \in BOOLEAN /\ (error => error')
    BY <2>1, FlushErrors DEF FeedTypes, StateTypes
  <2> QED
    BY <2>1, <2>2, <2>3, <2>4 DEF FlushStep, Steady, nativeVars, FeedTypes, ListenerTypes
<1> QED
  BY <1>2, <1>3, <1>4

-----------------------------------------------------------------------------
(* Every step keeps the types, the phases and the one server. *)

PlainStep ==
    \/ Start \/ Spawn \/ Bind \/ Attach \/ SaveRootFails \/ StartFails
    \/ ReaderFails \/ TickFails \/ BeginStop \/ Terminate \/ DrainFails \/ FinishStop \/ Crash

ThreadStep(t) == AskParent(t) \/ LearnParent(t) \/ Create(t) \/ TellParent(t)

LEMMA StepCases ==
    ASSUME FeedTypes, PhaseInv, Next
    PROVE  \/ FlushStep \/ Overflows \/ PlainStep
           \/ \E t \in Threads : ThreadStep(t)
           \/ \E t \in Threads, n \in Totals : TellCounter(t, n)
BY ReadFlushes, OtherFlushes
   DEF Next, ListenerStep, ServiceStep, NativeStep, PlainStep, ThreadStep, Totals

LEMMA NextStateTypes ==
    ASSUME FeedTypes, PhaseInv, Next
    PROVE  StateTypes'
<1>1. CASE FlushStep
  <2>1. faults' \in 0..MaxFaults
    <3>1. faults' = faults \/ (faults' = faults + 1 /\ faults < MaxFaults)
      BY <1>1 DEF FlushStep, Flushed
    <3> QED
      BY <3>1, FeedAssumption DEF FeedTypes, StateTypes
  <2> QED
    BY <1>1, <2>1 DEF FlushStep, Steady, FeedTypes, StateTypes, Phases
<1>2. CASE Overflows
  BY <1>2 DEF Overflows, Steady, FeedTypes, StateTypes
<1>3. CASE Start \/ Spawn
  BY <1>3 DEF Start, Spawn, FeedTypes, StateTypes, Phases, Prepared, Unused, diskVars, wireVars
<1>4. CASE Bind \/ Attach \/ BeginStop \/ StartFails \/ Terminate \/ TickFails
  BY <1>4 DEF Bind, Attach, BeginStop, StartFails, Terminate, TickFails, FeedTypes, StateTypes, Phases,
              diskVars, wireVars
<1>5. CASE SaveRootFails \/ ReaderFails \/ DrainFails \/ Crash
  <2>1. faults' \in 0..MaxFaults
    BY <1>5, FeedAssumption DEF SaveRootFails, ReaderFails, DrainFails, Crash, FeedTypes, StateTypes
  <2> QED
    BY <1>5, <2>1 DEF SaveRootFails, ReaderFails, DrainFails, Crash, Forget, FeedTypes, StateTypes,
                      Phases, diskVars, wireVars
<1>6. CASE FinishStop
  <2>1. epochs' = [epochs EXCEPT ![epoch] = IF @ = "prepared" THEN "aborted" ELSE @]
    BY <1>6 DEF FinishStop
  <2>2. epochs' \in [Epochs -> {"none", "prepared", "bound", "aborted"}]
    BY <2>1 DEF FeedTypes, StateTypes
  <2> QED
    BY <1>6, <2>2 DEF FinishStop, Forget, FeedTypes, StateTypes, Phases
<1>7. ASSUME NEW t \in Threads, ThreadStep(t)
      PROVE  StateTypes'
  BY <1>7 DEF ThreadStep, AskParent, LearnParent, Create, TellParent, FeedTypes, StateTypes, diskVars,
              wireVars
<1>8. ASSUME NEW t \in Threads, NEW n \in Totals, TellCounter(t, n)
      PROVE  StateTypes'
  BY <1>8 DEF TellCounter, FeedTypes, StateTypes, diskVars
<1> QED
  BY StepCases, <1>1, <1>2, <1>3, <1>4, <1>5, <1>6, <1>7, <1>8 DEF PlainStep

LEMMA NextListenerTypes ==
    ASSUME FeedTypes, PhaseInv, Next
    PROVE  ListenerTypes'
<1>1. CASE FlushStep
  <2>1. PICK buffer : Heard(buffer) /\ Flushed(buffer, roots', linked')
    BY <1>1 DEF FlushStep
  <2>2. pending' \in Seq(Note) /\ Len(pending') <= Len(buffer) /\ Len(buffer) <= MaxPending
        /\ buffer \in Seq(Note) /\ attempted' \subseteq attempted
    BY <2>1 DEF Heard, Flushed
  <2>3. Len(pending') <= MaxPending
    BY <2>2, FeedAssumption
  <2> QED
    BY <1>1, <2>2, <2>3 DEF FlushStep, Steady, nativeVars, FeedTypes, ListenerTypes
<1>2. CASE Overflows
  BY <1>2 DEF Overflows, Steady, nativeVars, FeedTypes, ListenerTypes
<1>3. CASE Attach
  BY <1>3 DEF Attach, diskVars, nativeVars, FeedTypes, ListenerTypes
<1>4. CASE FinishStop \/ Crash
  <2>1. /\ roots' = {} /\ linked' = {} /\ pending' = <<>> /\ attempted' = {} /\ asking' = None
        /\ exists' = exists
    BY <1>4 DEF FinishStop, Crash, Forget, nativeVars
  <2>2. pending' \in Seq(Note) /\ Len(pending') <= MaxPending
    BY <2>1, FeedAssumption
  <2>3. tasks' \subseteq Roots
    BY <1>4 DEF FinishStop, Crash, diskVars, FeedTypes, ListenerTypes
  <2> QED
    BY <2>1, <2>2, <2>3 DEF ListenerTypes
<1>5. CASE \/ Start \/ Spawn \/ Bind \/ SaveRootFails \/ StartFails
           \/ ReaderFails \/ TickFails \/ BeginStop \/ Terminate \/ DrainFails
  BY <1>5 DEF Start, Spawn, Bind, SaveRootFails, StartFails, ReaderFails, TickFails, BeginStop,
              Terminate, DrainFails, diskVars, nativeVars, observerVars, FeedTypes, ListenerTypes
<1>6. ASSUME NEW t \in Threads, AskParent(t) \/ LearnParent(t)
      PROVE  ListenerTypes'
  BY <1>6 DEF AskParent, LearnParent, Learn, diskVars, nativeVars, FeedTypes, ListenerTypes
<1>7. ASSUME NEW t \in Threads, Create(t) \/ TellParent(t)
      PROVE  ListenerTypes'
  BY <1>7 DEF Create, TellParent, diskVars, nativeVars, observerVars, FeedTypes, ListenerTypes
<1>8. ASSUME NEW t \in Threads, NEW n \in Totals, TellCounter(t, n)
      PROVE  ListenerTypes'
  BY <1>8 DEF TellCounter, diskVars, observerVars, FeedTypes, ListenerTypes
<1> QED
  BY StepCases, <1>1, <1>2, <1>3, <1>4, <1>5, <1>6, <1>7, <1>8 DEF PlainStep, ThreadStep

LEMMA NextServerTypes ==
    ASSUME FeedTypes, PhaseInv, Next
    PROVE  ServerTypes'
<1>1. CASE FlushStep \/ Overflows
  BY <1>1 DEF FlushStep, Heard, Overflows, Steady, nativeVars, FeedTypes, ServerTypes
<1>2. CASE Start \/ Spawn \/ StartFails \/ Terminate
  <2>1. phase # "down" => epoch \in Epochs
    BY DEF PhaseInv, FeedTypes, StateTypes
  <2> QED
    BY <1>2, <2>1 DEF Start, Spawn, StartFails, Terminate, nativeVars, wireVars, FeedTypes, ServerTypes
<1>3. CASE \/ Bind \/ Attach \/ SaveRootFails \/ ReaderFails \/ TickFails
           \/ BeginStop \/ DrainFails \/ FinishStop \/ Crash
  BY <1>3 DEF Bind, Attach, SaveRootFails, ReaderFails, TickFails, BeginStop, DrainFails, FinishStop,
              Crash, Forget, nativeVars, wireVars, FeedTypes, ServerTypes
<1>4. ASSUME NEW t \in Threads, ThreadStep(t)
      PROVE  ServerTypes'
  BY <1>4 DEF ThreadStep, AskParent, LearnParent, Create, TellParent, nativeVars, wireVars,
              FeedTypes, ServerTypes
<1>5. ASSUME NEW t \in Threads, NEW n \in Totals, TellCounter(t, n)
      PROVE  ServerTypes'
  <2>1. [thread |-> t, total |-> n] \in Note
    BY DEF Note, Totals
  <2> QED
    BY <1>5, <2>1 DEF TellCounter, FeedTypes, ServerTypes
<1> QED
  BY StepCases, <1>1, <1>2, <1>3, <1>4, <1>5 DEF PlainStep

\* What a message says stays true, as no thread ceases to exist.
LEMMA SameWire ==
    ASSUME WireTypes, wire' = wire, exists \subseteq exists'
    PROVE  WireTypes'
BY DEF WireTypes

LEMMA NewMessage ==
    ASSUME WireTypes, NEW m \in Messages, wire' = Append(wire, m), exists' = exists,
           m.kind = "parent" => m.thread \in exists \ Roots
    PROVE  WireTypes'
<1>1. /\ wire' \in Seq(Messages) /\ Len(wire') = Len(wire) + 1 /\ Len(wire) \in Nat
      /\ \A i \in 1..Len(wire) : wire'[i] = wire[i]
      /\ wire'[Len(wire) + 1] = m
  BY DEF WireTypes
<1>2. \A i \in 1..Len(wire') : i \in 1..Len(wire) \/ i = Len(wire) + 1
  BY <1>1
<1> QED
  BY <1>1, <1>2 DEF WireTypes

LEMMA NoWire ==
    ASSUME wire' = <<>>
    PROVE  WireTypes'
BY DEF WireTypes

LEMMA NextWireTypes ==
    ASSUME FeedTypes, PhaseInv, Next
    PROVE  WireTypes'
<1>1. CASE FlushStep
  <2>1. PICK buffer : Heard(buffer)
    BY <1>1 DEF FlushStep
  <2>2. wire' \in Seq(Messages) /\ \A j \in 1..Len(wire') : \E i \in 1..Len(wire) : wire'[j] = wire[i]
    BY <2>1 DEF Heard
  <2>3. exists' = exists
    BY <1>1 DEF FlushStep, Steady, nativeVars
  <2> QED
    BY <2>2, <2>3 DEF FeedTypes, WireTypes
<1>2. CASE Overflows
  <2>1. wire' \in Seq(Messages) /\ \A j \in 1..Len(wire') : \E i \in 1..Len(wire) : wire'[j] = wire[i]
    BY <1>2, WireTail DEF Overflows
  <2>2. exists' = exists
    BY <1>2 DEF Overflows, Steady, nativeVars
  <2> QED
    BY <2>1, <2>2 DEF FeedTypes, WireTypes
<1>3. CASE FinishStop \/ Crash \/ ReaderFails
  BY <1>3, NoWire DEF FinishStop, Crash, ReaderFails, Forget
<1>4. CASE \/ Start \/ Spawn \/ Bind \/ Attach \/ SaveRootFails \/ StartFails
           \/ TickFails \/ BeginStop \/ Terminate \/ DrainFails
  BY <1>4, SameWire DEF Start, Spawn, Bind, Attach, SaveRootFails, StartFails, TickFails, BeginStop,
                        Terminate, DrainFails, nativeVars, wireVars, FeedTypes
<1>5. ASSUME NEW t \in Threads, AskParent(t) \/ LearnParent(t) \/ Create(t)
      PROVE  WireTypes'
  BY <1>5, SameWire DEF AskParent, LearnParent, Create, nativeVars, wireVars, FeedTypes
<1>6. ASSUME NEW t \in Threads, TellParent(t)
      PROVE  WireTypes'
  <2>1. PICK m \in Messages : m = [kind |-> "parent", thread |-> t]
    BY DEF Messages
  <2>2. m.thread \in exists \ Roots /\ wire' = Append(wire, m) /\ exists' = exists
    BY <1>6, <2>1 DEF TellParent, nativeVars
  <2> QED
    BY <2>2, NewMessage DEF FeedTypes
<1>7. ASSUME NEW t \in Threads, NEW n \in Totals, TellCounter(t, n)
      PROVE  WireTypes'
  <2>1. [thread |-> t, total |-> n] \in Note
    BY DEF Note, Totals
  <2>2. PICK m \in Messages : m = [kind |-> "counter", note |-> [thread |-> t, total |-> n]]
    BY <2>1 DEF Messages
  <2>3. m.kind # "parent" /\ wire' = Append(wire, m) /\ exists' = exists
    BY <1>7, <2>2 DEF TellCounter
  <2> QED
    BY <2>3, NewMessage DEF FeedTypes
<1> QED
  BY StepCases, <1>1, <1>2, <1>3, <1>4, <1>5, <1>6, <1>7 DEF PlainStep, ThreadStep

LEMMA LedgerKept ==
    ASSUME FeedTypes, PhaseInv, Next
    PROVE  FlushStep \/ ledger' = ledger
<1>1. CASE Overflows
  BY <1>1 DEF Overflows
<1>2. CASE PlainStep
  BY <1>2 DEF PlainStep, Start, Spawn, Bind, Attach, SaveRootFails, StartFails, ReaderFails,
              TickFails, BeginStop, Terminate, DrainFails, FinishStop, Crash
<1>3. ASSUME NEW t \in Threads, ThreadStep(t)
      PROVE  ledger' = ledger
  BY <1>3 DEF ThreadStep, AskParent, LearnParent, Create, TellParent
<1>4. ASSUME NEW t \in Threads, NEW n \in Totals, TellCounter(t, n)
      PROVE  ledger' = ledger
  BY <1>4 DEF TellCounter
<1> QED
  BY StepCases, <1>1, <1>2, <1>3, <1>4

LEMMA NextFeedTypes ==
    ASSUME FeedTypes, PhaseInv, [Next]_vars
    PROVE  FeedTypes'
<1>1. CASE Next
  <2>1. GoodLedger(ledger')
    BY <1>1, LedgerKept DEF FlushStep, Flushed, FeedTypes
  <2> QED
    BY <1>1, <2>1, NextStateTypes, NextListenerTypes, NextServerTypes, NextWireTypes DEF FeedTypes
<1>2. CASE UNCHANGED vars
  BY <1>2 DEF vars, diskVars, observerVars, nativeVars, wireVars, FeedTypes, StateTypes, ListenerTypes,
              ServerTypes, WireTypes
<1> QED
  BY <1>1, <1>2

LEMMA NoneLeft ==
    ASSUME NEW s \in Seq(Messages), \A j \in 1..Len(s) : \E i \in 1..Len(<<>>) : TRUE
    PROVE  s = <<>>
<1>1. Len(s) \in Nat /\ 1..Len(<<>>) = {}
  OBVIOUS
<1>2. Len(s) = 0
  BY <1>1
<1> QED
  BY <1>2

LEMMA NextPhaseInv ==
    ASSUME FeedTypes, PhaseInv, [Next]_vars
    PROVE  PhaseInv'
<1>1. CASE FlushStep
  <2>1. wire = <<>> => wire' = <<>>
    <3>1. PICK buffer : Heard(buffer)
      BY <1>1 DEF FlushStep
    <3> QED
      BY <3>1, NoneLeft DEF Heard
  <2> QED
  BY <1>1, <2>1 DEF FlushStep, Steady, PhaseInv, Silent, Listening
<1>2. CASE Overflows
  BY <1>2 DEF Overflows, Steady, PhaseInv, Silent, Listening
<1>3. CASE Start
  <2>1. PICK e \in Epochs : epochs' = [epochs EXCEPT ![e] = "prepared"] /\ epoch' = e
    BY <1>3 DEF Start, Unused
  <2>2. epochs'[epoch'] = "prepared" /\ epoch' # None
    BY <2>1, FeedAssumption DEF FeedTypes, StateTypes
  <2>3. /\ phase = "down" /\ phase' = "prepared"
        /\ UNCHANGED <<pending, broken, wire, told, received, roots, linked, asking>>
    BY <1>3 DEF Start, observerVars, wireVars
  <2> QED
    BY <2>2, <2>3 DEF PhaseInv, Silent, Listening
<1>4. CASE Spawn \/ Bind
  BY <1>4, FeedAssumption DEF Spawn, Bind, diskVars, observerVars, wireVars, PhaseInv, Silent, Listening,
                              FeedTypes, StateTypes
<1>5. CASE Attach \/ SaveRootFails \/ BeginStop \/ Terminate
  BY <1>5 DEF Attach, SaveRootFails, BeginStop, Terminate, diskVars, observerVars, wireVars, PhaseInv, Silent,
              Listening
<1>6. CASE StartFails \/ ReaderFails \/ TickFails \/ DrainFails
  BY <1>6 DEF StartFails, ReaderFails, TickFails, DrainFails, diskVars, observerVars, wireVars, PhaseInv, Silent, Listening
<1>7. CASE FinishStop \/ Crash
  BY <1>7 DEF FinishStop, Crash, Forget, PhaseInv, Silent, Listening
<1>8. ASSUME NEW t \in Threads, AskParent(t) \/ LearnParent(t)
      PROVE  PhaseInv'
  BY <1>8 DEF AskParent, LearnParent, diskVars, wireVars, PhaseInv, Silent, Listening
<1>9. ASSUME NEW t \in Threads, Create(t)
      PROVE  PhaseInv'
  BY <1>9 DEF Create, diskVars, observerVars, wireVars, PhaseInv, Silent, Listening
<1>10. ASSUME Serves, UNCHANGED <<diskVars, phase, epoch, error, observerVars, broken>>
       PROVE  PhaseInv'
  BY <1>10 DEF Serves, diskVars, observerVars, wireVars, PhaseInv, Silent, Listening
<1>11. ASSUME NEW t \in Threads, NEW n \in Totals, TellParent(t) \/ TellCounter(t, n)
       PROVE  PhaseInv'
  BY <1>10, <1>11 DEF TellParent, TellCounter
<1>12. CASE UNCHANGED vars
  BY <1>12 DEF vars, diskVars, observerVars, wireVars, PhaseInv, Silent, Listening
<1>13. 0 \in Totals
  BY FeedAssumption DEF Totals
<1> QED
  BY StepCases, <1>1, <1>2, <1>3, <1>4, <1>5, <1>6, <1>7, <1>8, <1>9, <1>11, <1>12, <1>13
     DEF PlainStep, ThreadStep

LEMMA NextAliveInv ==
    ASSUME FeedTypes, PhaseInv, AliveInv, [Next]_vars
    PROVE  AliveInv'
<1>1. CASE FlushStep \/ Overflows
  BY <1>1 DEF FlushStep, Overflows, Steady, nativeVars, AliveInv, Listening
<1>2. CASE Start
  <2>1. alive' = {}
    <3>1. phase = "down" /\ alive' = alive \ {server} /\ Prepared = {}
      BY <1>2 DEF Start
    <3>2. \A e \in Epochs : epochs[e] # "prepared"
      BY <3>1 DEF Prepared
    <3> QED
      BY <3>1, <3>2 DEF AliveInv, FeedTypes, ServerTypes
  <2> QED
    BY <2>1 DEF AliveInv
<1>3. CASE Spawn
  BY <1>3 DEF Spawn, AliveInv
<1>4. CASE Bind \/ Attach \/ SaveRootFails \/ ReaderFails \/ TickFails \/ BeginStop \/ DrainFails
  BY <1>4 DEF Bind, Attach, SaveRootFails, ReaderFails, TickFails, BeginStop, DrainFails, diskVars, nativeVars, AliveInv
<1>5. CASE StartFails \/ Terminate
  <2>1. phase # "down" /\ alive' = alive \ {epoch} /\ alive \subseteq {epoch}
    BY <1>5 DEF StartFails, Terminate, AliveInv
  <2>2. alive' = {}
    BY <2>1
  <2> QED
    BY <2>2 DEF AliveInv
<1>6. CASE FinishStop
  BY <1>6 DEF FinishStop, nativeVars, AliveInv
<1>7. CASE Crash
  <2>1. phase # "down" /\ phase' = "down" /\ UNCHANGED <<epochs, server, alive>>
    BY <1>7 DEF Crash, Forget, diskVars, nativeVars
  <2>2. alive \subseteq {epoch}
    BY <2>1 DEF AliveInv
  <2>3. \A e \in alive : e = server \/ epochs[e] = "prepared"
    BY <2>1, <2>2 DEF AliveInv, PhaseInv, Listening, FeedTypes, StateTypes, Phases
  <2> QED
    BY <2>1, <2>3 DEF AliveInv
<1>8. ASSUME UNCHANGED <<epochs, server, phase, epoch, alive>>
      PROVE  AliveInv'
  BY <1>8 DEF AliveInv
<1>9. ASSUME NEW t \in Threads, ThreadStep(t)
      PROVE  AliveInv'
  BY <1>8, <1>9 DEF ThreadStep, AskParent, LearnParent, Create, TellParent, diskVars, nativeVars
<1>10. ASSUME NEW t \in Threads, NEW n \in Totals, TellCounter(t, n)
       PROVE  AliveInv'
  BY <1>8, <1>10 DEF TellCounter, diskVars
<1>11. CASE UNCHANGED vars
  BY <1>8, <1>11 DEF vars, diskVars, nativeVars
<1> QED
  BY StepCases, <1>1, <1>2, <1>3, <1>4, <1>5, <1>6, <1>7, <1>9, <1>10, <1>11 DEF PlainStep

-----------------------------------------------------------------------------
(* Every step keeps the counters below what was used. *)

\* Steps that take nothing from the connection and tell nothing.
LEMMA StillSaid ==
    ASSUME FeedTypes, SaidInv, ledger' = ledger, total' = total,
           pending' \in {pending, <<>>}, wire' \in {wire, <<>>}
    PROVE  SaidInv'
<1>1. \A n : ~In(n, <<>>)
  BY DEF In
<1>2. 1..Len(<<>>) = {}
  OBVIOUS
<1> QED
  BY <1>1, <1>2 DEF SaidInv, In

LEMMA FlushSaid ==
    ASSUME FeedTypes, SaidInv, FlushStep
    PROVE  SaidInv'
<1>1. PICK buffer : Heard(buffer) /\ Flushed(buffer, roots', linked')
  BY DEF FlushStep
<1>2. total' = total
  BY DEF FlushStep, Steady, nativeVars
<1>3. ASSUME NEW n \in Note, In(n, buffer)
      PROVE  n.total <= total[n.thread]
  <2>1. CASE In(n, pending)
    BY <2>1 DEF SaidInv
  <2>2. CASE OnWire(n)
    <3>1. PICK i \in 1..Len(wire) : wire[i] = [kind |-> "counter", note |-> n]
      BY <2>2 DEF OnWire
    <3>2. wire[i].kind = "counter" /\ wire[i].note = n
      BY <3>1
    <3> QED
      BY <3>2 DEF SaidInv
  <2> QED
    BY <1>1, <1>3, <2>1, <2>2 DEF Heard
<1>4. ASSUME NEW n \in Note, In(n, pending')
      PROVE  n.total <= total'[n.thread]
  BY <1>1, <1>2, <1>3, <1>4 DEF Flushed
<1>5. ASSUME NEW j \in 1..Len(wire'), wire'[j].kind = "counter"
      PROVE  wire'[j].note.total <= total'[wire'[j].note.thread]
  BY <1>1, <1>2, <1>5 DEF Heard, SaidInv
<1>6. ASSUME NEW x \in ledger'.events
      PROVE  x.note.total <= total'[x.note.thread]
  <2>1. x.note \in Note
    BY <1>1 DEF Flushed, GoodLedger, Ledgers, LedgerEvents
  <2> QED
    BY <1>1, <1>2, <1>3, <2>1 DEF Flushed, SaidInv
<1> QED
  BY <1>4, <1>5, <1>6 DEF SaidInv, In

LEMMA TellSaid ==
    ASSUME FeedTypes, SaidInv, NEW t \in Threads, NEW n \in Totals, TellCounter(t, n)
    PROVE  SaidInv'
<1>1. /\ total' = [total EXCEPT ![t] = IF n > @ THEN n ELSE @]
      /\ total \in [Threads -> Totals] /\ Totals \subseteq Nat
      /\ UNCHANGED <<pending, ledger>>
  BY FeedAssumption DEF TellCounter, observerVars, FeedTypes, ServerTypes, Totals
<1>2. PICK m : m = [kind |-> "counter", note |-> [thread |-> t, total |-> n]]
  OBVIOUS
<1>3. wire' = Append(wire, m) /\ m \in Messages /\ m.note.total = n /\ m.note.thread = t
  <2>1. [thread |-> t, total |-> n] \in Note
    BY DEF Note, Totals
  <2> QED
    BY <1>2, <2>1 DEF TellCounter, Messages
<1>4. n \in Nat /\ total[t] \in Nat /\ n <= total'[t] /\ total[t] <= total'[t]
  <2>1. PICK old \in Nat : old = total[t]
    BY <1>1
  <2>2. total'[t] = IF n > old THEN n ELSE old
    BY <1>1, <2>1
  <2>3. n \in Nat
    BY <1>1
  <2> QED
    BY <2>1, <2>2, <2>3
<1>5. ASSUME NEW u \in Threads, NEW k \in Totals, k <= total[u]
      PROVE  k <= total'[u]
  <2>1. CASE u # t
    BY <1>1, <1>5, <2>1
  <2>2. CASE u = t
    <3>1. k \in Nat /\ total'[t] \in Nat
      BY <1>1, <1>4
    <3> QED
      BY <1>4, <1>5, <2>2, <3>1
  <2> QED
    BY <2>1, <2>2
<1>6. /\ wire' \in Seq(Messages) /\ Len(wire') = Len(wire) + 1 /\ Len(wire) \in Nat
      /\ \A i \in 1..Len(wire) : wire'[i] = wire[i] /\ wire[i] \in Messages
      /\ wire'[Len(wire) + 1] = m
  BY <1>3 DEF FeedTypes, WireTypes
<1>7. \A i \in 1..Len(wire') : i \in 1..Len(wire) \/ i = Len(wire) + 1
  BY <1>6
<1>8. \A k \in Note : k.thread \in Threads /\ k.total \in Totals
  BY DEF Note, Totals
<1>9. ASSUME NEW k \in Note, In(k, pending')
      PROVE  k.total <= total'[k.thread]
  BY <1>1, <1>5, <1>8, <1>9 DEF SaidInv
<1>10. ASSUME NEW i \in 1..Len(wire'), wire'[i].kind = "counter"
       PROVE  wire'[i].note.total <= total'[wire'[i].note.thread]
  <2>1. CASE i = Len(wire) + 1
    BY <1>3, <1>4, <1>6, <2>1
  <2>2. CASE i \in 1..Len(wire)
    <3>1. wire[i].note \in Note
      BY <1>6, <1>10, <2>2 DEF Messages
    <3>2. wire[i].note.total <= total[wire[i].note.thread]
      BY <1>6, <1>10, <2>2 DEF SaidInv
    <3> QED
      BY <1>5, <1>6, <1>8, <2>2, <3>1, <3>2
  <2> QED
    BY <1>7, <2>1, <2>2
<1>11. ASSUME NEW x \in ledger'.events
       PROVE  x.note.total <= total'[x.note.thread]
  <2>1. x.note \in Note /\ x.note.total <= total[x.note.thread]
    BY <1>1 DEF SaidInv, FeedTypes, GoodLedger, Ledgers, LedgerEvents
  <2> QED
    BY <1>5, <1>8, <2>1
<1> QED
  BY <1>9, <1>10, <1>11 DEF SaidInv, In

LEMMA NextSaidInv ==
    ASSUME FeedTypes, PhaseInv, SaidInv, [Next]_vars
    PROVE  SaidInv'
<1>1. CASE FlushStep
  BY <1>1, FlushSaid
<1>2. CASE Overflows
  <2>1. \A j \in 1..Len(wire') : \E i \in 1..Len(wire) : wire'[j] = wire[i]
    BY <1>2, WireTail DEF Overflows
  <2>2. UNCHANGED <<ledger, pending, total>>
    BY <1>2 DEF Overflows, Steady, nativeVars
  <2> QED
    BY <2>1, <2>2 DEF SaidInv, In
<1>3. CASE PlainStep
  BY <1>3, StillSaid DEF PlainStep, Start, Spawn, Bind, Attach, SaveRootFails, StartFails, ReaderFails,
                         TickFails, BeginStop, Terminate, DrainFails, FinishStop, Crash, Forget,
                         observerVars, nativeVars, wireVars
<1>4. ASSUME NEW t \in Threads, AskParent(t) \/ LearnParent(t) \/ Create(t)
      PROVE  SaidInv'
  BY <1>4, StillSaid DEF AskParent, LearnParent, Create, observerVars, nativeVars, wireVars
<1>5. ASSUME NEW t \in Threads, TellParent(t)
      PROVE  SaidInv'
  <2>1. PICK m \in Messages : m.kind = "parent" /\ wire' = Append(wire, m)
    <3>1. [kind |-> "parent", thread |-> t] \in Messages
      BY DEF Messages
    <3> QED
      BY <1>5, <3>1 DEF TellParent
  <2>2. /\ Len(wire') = Len(wire) + 1 /\ Len(wire) \in Nat
        /\ \A i \in 1..Len(wire) : wire'[i] = wire[i]
        /\ wire'[Len(wire) + 1] = m
    BY <2>1 DEF FeedTypes, WireTypes
  <2>3. \A i \in 1..Len(wire') : i \in 1..Len(wire) \/ i = Len(wire) + 1
    BY <2>2
  <2>4. UNCHANGED <<ledger, pending, total>>
    BY <1>5 DEF TellParent, observerVars, nativeVars
  <2> QED
    BY <2>1, <2>2, <2>3, <2>4 DEF SaidInv, In
<1>6. ASSUME NEW t \in Threads, NEW n \in Totals, TellCounter(t, n)
      PROVE  SaidInv'
  BY <1>6, TellSaid
<1>7. CASE UNCHANGED vars
  BY <1>7, StillSaid DEF vars, observerVars, nativeVars, wireVars
<1> QED
  BY StepCases, <1>1, <1>2, <1>3, <1>4, <1>5, <1>6, <1>7 DEF ThreadStep

-----------------------------------------------------------------------------
(* Every step keeps what the server told. *)

LEMMA FlushMissesNone ==
    ASSUME FeedTypes, PhaseInv, NoneMissing, FlushStep
    PROVE  NoneMissing'
<1>1. PICK buffer : Heard(buffer) /\ Flushed(buffer, roots', linked')
  BY DEF FlushStep
<1>2. UNCHANGED <<epoch, broken, told>> /\ (error => error')
  BY DEF FlushStep, Steady
<1> SUFFICES ASSUME ~error'
             PROVE  /\ \A n \in received' : Taken(n)'
                    /\ \A n \in told \ received' : broken \/ OnWire(n)'
  BY <1>2 DEF NoneMissing
<1>3. ASSUME NEW n \in received'
      PROVE  Taken(n)'
  <2>1. n \in Note /\ (n \in received \/ In(n, buffer))
    BY <1>1, <1>3 DEF Heard
  <2>2. CASE In(n, buffer)
    BY <1>1, <1>2, <2>1, <2>2 DEF Flushed, Taken, In, HasNote, InLedger
  <2>3. CASE n \in received
    <3>1. CASE In(n, pending)
      BY <1>1, <2>1, <2>2, <3>1 DEF Heard
    <3>2. CASE InLedger(n)
      BY <1>1, <1>2, <3>2 DEF Flushed, Taken, InLedger
    <3> QED
      BY <1>2, <2>3, <3>1, <3>2 DEF NoneMissing, Taken
  <2> QED
    BY <2>1, <2>2, <2>3
<1>4. ASSUME NEW n \in told \ received'
      PROVE  broken \/ OnWire(n)'
  <2>1. n \in Note /\ n \notin received
    BY <1>1, <1>4 DEF Heard, FeedTypes, ServerTypes
  <2> QED
    BY <1>1, <1>2, <1>4, <2>1 DEF Heard, NoneMissing
<1> QED
  BY <1>3, <1>4

\* Nothing is taken away, and the ledger is asked about the same epoch.
LEMMA StillSafe ==
    ASSUME NoneMissing, ledger' = ledger, pending' = pending, epoch' = epoch, error => error',
           UNCHANGED <<broken, wire, told, received>>
    PROVE  NoneMissing'
BY DEF NoneMissing, Taken, InLedger, OnWire, In

LEMMA NextNoneMissing ==
    ASSUME FeedTypes, PhaseInv, NoneMissing, [Next]_vars
    PROVE  NoneMissing'
<1>1. CASE FlushStep
  BY <1>1, FlushMissesNone
<1>2. CASE Overflows \/ StartFails \/ TickFails \/ DrainFails \/ Crash
  BY <1>2 DEF Overflows, StartFails, TickFails, DrainFails, Crash, NoneMissing
<1>3. CASE Start
  BY <1>3 DEF Start, wireVars, PhaseInv, Silent, NoneMissing
<1>4. CASE Spawn \/ Bind \/ Attach \/ SaveRootFails
  BY <1>4, StillSafe DEF Spawn, Bind, Attach, SaveRootFails, observerVars, wireVars
<1>12. CASE BeginStop \/ Terminate
  <2>1. error => error'
    BY <1>12 DEF BeginStop, Terminate
  <2>2. UNCHANGED <<ledger, pending, epoch, broken, wire, told, received>>
    BY <1>12 DEF BeginStop, Terminate, observerVars, wireVars
  <2> QED
    BY <2>1, <2>2, StillSafe
<1>5. CASE FinishStop
  BY <1>5 DEF FinishStop, Forget, NoneMissing
<1>11. CASE ReaderFails
  <2>1. broken' /\ UNCHANGED <<ledger, epoch, error, pending, told, received>>
    BY <1>11 DEF ReaderFails, observerVars
  <2> QED
    BY <2>1 DEF NoneMissing, Taken, InLedger, In
<1>6. ASSUME NEW t \in Threads, AskParent(t) \/ LearnParent(t) \/ Create(t)
      PROVE  NoneMissing'
  BY <1>6, StillSafe DEF AskParent, LearnParent, Create, observerVars, wireVars
<1>7. ASSUME NEW m \in Messages, wire' = Append(wire, m), UNCHANGED <<ledger, pending, epoch, error, broken, received>>,
             \A n \in told' : n \in told \/ m = [kind |-> "counter", note |-> n]
      PROVE  NoneMissing'
  <2>1. /\ Len(wire') = Len(wire) + 1 /\ Len(wire) \in Nat
        /\ \A i \in 1..Len(wire) : wire'[i] = wire[i]
        /\ wire'[Len(wire) + 1] = m
    BY <1>7 DEF FeedTypes, WireTypes
  <2>2. Len(wire) + 1 \in 1..Len(wire') /\ 1..Len(wire) \subseteq 1..Len(wire')
    BY <2>1
  <2>3. ASSUME NEW n, OnWire(n) \/ m = [kind |-> "counter", note |-> n]
        PROVE  OnWire(n)'
    BY <2>1, <2>2, <2>3 DEF OnWire
  <2> QED
    BY <1>7, <2>3 DEF NoneMissing, Taken, InLedger, In
<1>8. ASSUME NEW t \in Threads, TellParent(t)
      PROVE  NoneMissing'
  <2>1. [kind |-> "parent", thread |-> t] \in Messages
    BY DEF Messages
  <2> QED
    BY <1>7, <1>8, <2>1 DEF TellParent, observerVars
<1>9. ASSUME NEW t \in Threads, NEW n \in Totals, TellCounter(t, n)
      PROVE  NoneMissing'
  <2>1. PICK note \in Note : note = [thread |-> t, total |-> n]
    BY DEF Note, Totals
  <2>2. [kind |-> "counter", note |-> note] \in Messages
    BY DEF Messages
  <2>3. told' = told \cup {note} /\ wire' = Append(wire, [kind |-> "counter", note |-> note])
        /\ UNCHANGED <<ledger, pending, epoch, error, broken, received>>
    BY <1>9, <2>1 DEF TellCounter, observerVars
  <2> QED
    BY <1>7, <2>2, <2>3
<1>10. CASE UNCHANGED vars
  BY <1>10, StillSafe DEF vars, observerVars, wireVars
<1> QED
  BY StepCases, <1>1, <1>2, <1>3, <1>4, <1>5, <1>6, <1>8, <1>9, <1>10, <1>11, <1>12
     DEF PlainStep, ThreadStep

-----------------------------------------------------------------------------
(* Every step keeps the ledger behind runtime.json. *)

LEMMA DiskGrows ==
    ASSUME FeedTypes, PhaseInv, [Next]_vars
    PROVE  /\ \A e \in Epochs : epochs[e] = "bound" => epochs'[e] = "bound"
           /\ tasks \subseteq tasks'
<1>1. CASE FlushStep \/ Overflows
  BY <1>1 DEF FlushStep, Overflows, Steady
<1>2. CASE Start
  <2>1. PICK e \in Epochs : epochs[e] = "none" /\ epochs' = [epochs EXCEPT ![e] = "prepared"]
    BY <1>2 DEF Start, Unused
  <2>2. tasks' = tasks
    BY <1>2 DEF Start
  <2> QED
    BY <2>1, <2>2 DEF FeedTypes, StateTypes
<1>3. CASE Bind
  BY <1>3 DEF Bind, FeedTypes, StateTypes
<1>4. CASE FinishStop
  <2>1. epochs' = [epochs EXCEPT ![epoch] = IF @ = "prepared" THEN "aborted" ELSE @]
    BY <1>4 DEF FinishStop
  <2>2. tasks \subseteq tasks'
    BY <1>4 DEF FinishStop
  <2> QED
    BY <2>1, <2>2 DEF FeedTypes, StateTypes
<1>5. CASE \/ Spawn \/ Attach \/ SaveRootFails \/ StartFails \/ ReaderFails \/ TickFails
           \/ BeginStop \/ Terminate \/ DrainFails \/ Crash
  BY <1>5 DEF Spawn, Attach, SaveRootFails, StartFails, ReaderFails, TickFails, BeginStop, Terminate,
              DrainFails, Crash, diskVars
<1>6. ASSUME NEW t \in Threads, ThreadStep(t)
      PROVE  UNCHANGED <<epochs, tasks>>
  BY <1>6 DEF ThreadStep, AskParent, LearnParent, Create, TellParent, diskVars
<1>7. ASSUME NEW t \in Threads, NEW n \in Totals, TellCounter(t, n)
      PROVE  UNCHANGED <<epochs, tasks>>
  BY <1>7 DEF TellCounter, diskVars
<1>8. CASE UNCHANGED vars
  BY <1>8 DEF vars, diskVars
<1> QED
  BY StepCases, <1>1, <1>2, <1>3, <1>4, <1>5, <1>6, <1>7, <1>8 DEF PlainStep

LEMMA NextOnlyOurs ==
    ASSUME FeedTypes, PhaseInv, OnlyOurs, [Next]_vars
    PROVE  OnlyOurs'
<1> SUFFICES ASSUME NEW x \in ledger'.events
             PROVE  epochs'[x.epoch] = "bound" /\ Owned(x.note.thread, tasks', Threads \ Roots)
  BY DEF OnlyOurs, Owned
<1>1. CASE x \in ledger.events
  <2>1. epochs[x.epoch] = "bound" /\ Owned(x.note.thread, tasks, Threads \ Roots)
    BY <1>1 DEF OnlyOurs
  <2>2. x.epoch \in Epochs
    BY <1>1 DEF FeedTypes, GoodLedger, Ledgers, LedgerEvents
  <2> QED
    BY <2>1, <2>2, DiskGrows, OwnedMore
<1>2. CASE x \notin ledger.events
  <2>1. FlushStep
    BY <1>2, LedgerKept DEF vars
  <2>2. PICK buffer : Flushed(buffer, roots', linked')
    BY <2>1 DEF FlushStep
  <2>3. x.epoch = epoch /\ Owned(x.note.thread, roots', linked')
    BY <1>2, <2>2 DEF Flushed
  <2>4. epochs'[epoch] = "bound"
    BY <2>1 DEF FlushStep, Steady, PhaseInv
  <2>5. roots' \subseteq tasks' /\ linked' \subseteq Threads \ Roots
    BY <2>1 DEF FlushStep, FeedTypes, ServerTypes
  <2>6. PICK known, links : known = roots' /\ links = linked'
    OBVIOUS
  <2>7. Owned(x.note.thread, known, links) /\ known \subseteq tasks' /\ links \subseteq Threads \ Roots
    BY <2>3, <2>5, <2>6
  <2> QED
    BY <2>3, <2>4, <2>7, OwnedMore
<1> QED
  BY <1>1, <1>2

-----------------------------------------------------------------------------
(* The theorems. *)

LEMMA InitFeedInv == Init => FeedInv
<1> SUFFICES ASSUME Init
             PROVE  FeedInv
  OBVIOUS
<1>1. /\ pending = <<>> /\ wire = <<>> /\ ledger = EmptyLedger /\ alive = {} /\ told = {}
      /\ received = {} /\ broken = FALSE
      /\ phase = "down" /\ epoch = None /\ asking = None
  BY DEF Init
<1>2. pending \in Seq(Note) /\ Len(pending) = 0 /\ wire \in Seq(Messages) /\ 1..Len(wire) = {}
      /\ ledger.events = {} /\ \A n : ~In(n, pending)
  BY <1>1 DEF EmptyLedger, In
<1>3. FeedTypes
  <2>1. 0 \in Totals /\ 0 <= MaxPending /\ 0 \in 0..MaxFaults
    BY FeedAssumption DEF Totals
  <2>2. StateTypes
    BY <2>1 DEF Init, StateTypes, Phases
  <2>3. ListenerTypes
    BY <1>2, <2>1 DEF Init, ListenerTypes
  <2>4. ServerTypes
    BY <2>1 DEF Init, ServerTypes
  <2> QED
    BY <1>1, <1>2, <2>2, <2>3, <2>4, EmptyIsGood DEF FeedTypes, WireTypes
<1>4. PhaseInv
  BY DEF Init, PhaseInv, Silent, Listening
<1>5. AliveInv /\ SaidInv /\ NoneMissing /\ OnlyOurs
  BY <1>1, <1>2 DEF AliveInv, SaidInv, NoneMissing, OnlyOurs
<1> QED
  BY <1>3, <1>4, <1>5 DEF FeedInv

LEMMA FeedInvHolds == Spec => []FeedInv
<1>1. FeedInv /\ [Next]_vars => FeedInv'
  BY NextFeedTypes, NextPhaseInv, NextAliveInv, NextSaidInv, NextNoneMissing, NextOnlyOurs DEF FeedInv
<1> QED
  BY <1>1, InitFeedInv, PTL DEF Spec

LEMMA InSeq ==
    ASSUME NEW S, NEW s \in Seq(S), NEW n
    PROVE  In(n, s) <=> n \in ToSet(s)
<1>1. DOMAIN s = 1..Len(s)
  OBVIOUS
<1> QED
  BY <1>1 DEF In, ToSet

(***************************************************************************)
(* FeedTypesKept: types, the bound of the buffer and the epoch on disk     *)
(* hold for any number of threads, epochs and counters: a listener exists  *)
(* only under an epoch that runtime.json binds to a server                 *)
(* (_bind_resource_epoch, _attach_resource_listener).                      *)
(***************************************************************************)
THEOREM FeedTypesKept == Spec => []TypeOK
<1>1. FeedInv => TypeOK
  <2> SUFFICES ASSUME FeedInv
               PROVE  TypeOK
    OBVIOUS
  <2>1. ToSet(pending) \subseteq Note
    BY DEF FeedInv, FeedTypes, ListenerTypes, ToSet
  <2>2. Listening => epochs[epoch] = "bound" /\ server = epoch
    BY DEF FeedInv, PhaseInv
  <2> QED
    BY <2>1, <2>2 DEF FeedInv, FeedTypes, StateTypes, ListenerTypes, ServerTypes, TypeOK
<1> QED
  BY <1>1, FeedInvHolds, PTL

(***************************************************************************)
(* NoCounterLost: until the service reports an error, every counter that   *)
(* the reader received is recorded or in the buffer, and recorded when the *)
(* listener closes; one that it did not receive is on its way, unless the  *)
(* reader itself failed.  For any number of threads, counters and sizes of *)
(* the buffer (receive, flush, close, wait_reader_closed).                 *)
(***************************************************************************)
THEOREM NoCounterLost == Spec => []NoneLost
<1>1. FeedInv => NoneLost
  <2> SUFFICES ASSUME FeedInv, ~error
               PROVE  NoneLost
    BY DEF NoneLost
  <2>1. /\ \A n \in received : Taken(n)
        /\ \A n \in told \ received : broken \/ OnWire(n)
    BY DEF FeedInv, NoneMissing
  <2>2. /\ pending \in Seq(Note) /\ DOMAIN wire = 1..Len(wire)
        /\ \A n : In(n, pending) <=> n \in ToSet(pending)
    BY InSeq DEF FeedInv, FeedTypes, ListenerTypes, WireTypes
  <2>3. phase = "closed" => \A n : ~In(n, pending) /\ ~OnWire(n)
    BY DEF FeedInv, PhaseInv, In, OnWire
  <2> QED
    BY <2>1, <2>2, <2>3 DEF NoneLost, Taken, OnWire
<1> QED
  BY <1>1, FeedInvHolds, PTL

(***************************************************************************)
(* LedgerIsOurs: the ledger never runs ahead of runtime.json: whatever     *)
(* crash, lost write or late answer comes in between, each counter in it   *)
(* belongs to an epoch that was bound on disk and to a descendant of a     *)
(* root saved there (_bind_resource_epoch, confirm_roots, flush).          *)
(***************************************************************************)
THEOREM LedgerIsOurs == Spec => []OnlyOurs
<1>1. FeedInv => OnlyOurs
  BY DEF FeedInv
<1> QED
  BY <1>1, FeedInvHolds, PTL

(***************************************************************************)
(* NoSecondServer: whatever a generation left behind when it died, no      *)
(* second native server is started next to it (_recover_orphan,            *)
(* _prepare_resource_epoch).                                               *)
(***************************************************************************)
THEOREM NoSecondServer == Spec => []OneServer
<1>1. FeedInv => OneServer
  <2> SUFFICES ASSUME FeedInv
               PROVE  Cardinality(alive) <= 1
    BY DEF OneServer
  <2>1. \A d, e \in alive : d = e
    BY DEF FeedInv, AliveInv
  <2>2. CASE alive = {}
    BY <2>2, FS_EmptySet
  <2>3. ASSUME NEW e \in alive
        PROVE  Cardinality(alive) <= 1
    <3>1. alive = {e}
      BY <2>1
    <3>2. Cardinality({e}) = 1
      BY FS_Singleton
    <3> QED
      BY <3>1, <3>2
  <2> QED
    BY <2>2, <2>3
<1> QED
  BY <1>1, FeedInvHolds, PTL

(***************************************************************************)
(* CountersAddUp: through repeats, stale counters and failed writes the    *)
(* increases that were reported for a thread are what lies between its     *)
(* first counter and its highest in the epoch, and none is higher than     *)
(* what the thread used (record_token_usage).                              *)
(***************************************************************************)
THEOREM CountersAddUp == Spec => []IncreasesAddUp
<1>1. FeedInv => IncreasesAddUp
  <2> SUFFICES ASSUME FeedInv, NEW k \in Keys
               PROVE  LET seen == {x.note.total : x \in {x \in ledger.events :
                                                         <<x.epoch, x.note.thread>> = k}}
                      IN  /\ seen = {} <=> ledger.high[k] = None
                          /\ seen # {} =>
                               /\ ledger.high[k] \in seen /\ \A n \in seen : n <= ledger.high[k]
                               /\ ledger.increase[k] = ledger.high[k] - ledger.first[k]
                               /\ ledger.high[k] <= total[k[2]]
    BY DEF IncreasesAddUp
  <2>1. Balanced(ledger, k)
    BY DEF FeedInv, FeedTypes, GoodLedger
  <2>2. CASE ledger.high[k] = None
    BY <2>1, <2>2 DEF Balanced, OfKey
  <2>3. CASE ledger.high[k] # None
    <3>1. PICK x \in OfKey(ledger, k) : x.note.total = ledger.high[k]
      BY <2>1, <2>3 DEF Balanced
    <3>2. x \in ledger.events /\ k[2] = x.note.thread
      BY <3>1 DEF OfKey
    <3>3. ledger.high[k] <= total[k[2]]
      BY <3>1, <3>2 DEF FeedInv, SaidInv
    <3> QED
      BY <2>1, <2>3, <3>1, <3>3 DEF Balanced, OfKey
  <2> QED
    BY <2>2, <2>3
<1> QED
  BY <1>1, FeedInvHolds, PTL
=============================================================================
