-------------------------- MODULE HeartbeatProofs --------------------------
(***************************************************************************)
(* The store accepts every history of evidence that it wrote itself, and   *)
(* no heartbeat is woken twice for the same news, for any number of        *)
(* receipts, sources and contents, and however clocks and configurations   *)
(* change.                                                                 *)
(*                                                                         *)
(* HistoryReads is not inductive: that a row can be read again rests on    *)
(* what the record said when the row was written.  ReadingInv adds that    *)
(* both receipts of the record are rows of the history, and how they stand *)
(* to each other; NewsInv what a dispatch under way knows of its evidence. *)
(***************************************************************************)
EXTENDS HeartbeatProperties, WellFoundedInduction, TLAPS

Refs == (1..MaxReceipts) \cup {Null}
Entries == [receipt : Receipts, latest : Refs, good : Refs]

\* The record names rows of the history.
Recorded(r, h) == r.id <= Len(h) /\ h[r.id].receipt = r

RecordInv ==
    IF history = <<>> THEN record = NoEvidence
    ELSE /\ record.latest \in Receipts /\ Recorded(record.latest, history)
         /\ record.good \in Receipts \cup {Null}
         /\ record.good # Null => Recorded(record.good, history) /\ record.good.state = "known"
                                  /\ record.good.at <= record.latest.at
         /\ record.latest.state = "known" => record.good = record.latest

HistoryTypes ==
    /\ history \in Seq(Entries) /\ Len(history) <= MaxReceipts
    /\ \A n \in 1..Len(history) : history[n].receipt.id = n

HostTypes ==
    /\ consumed \in Receipts \cup {Null} /\ evidence \in Receipts \cup {Null}
    /\ source \in Scopes \cup {Null}
    /\ collecting # Null => collecting.at \in 0..MaxClock /\ Len(history) < MaxReceipts
    /\ clock \in 0..MaxClock /\ since \in Nat /\ since <= Len(history)

ReadingInv ==
    /\ HistoryTypes /\ HostTypes /\ RecordInv
    /\ Audited /\ (history # <<>> => LatestReads /\ TailReads)

-----------------------------------------------------------------------------
(* Playing a history again. *)

\* What holds of 0 and passes on to the next number holds of all.
LEMMA Induct ==
    ASSUME NEW good, NEW n \in Nat, 0 \in good, \A k \in 0..n : k \in good /\ k < n => k + 1 \in good
    PROVE  \A k \in 0..n : k \in good
<1> SUFFICES ASSUME NEW m \in 0..n, m \notin good
             PROVE  FALSE
  OBVIOUS
<1> DEFINE bad == {k \in Nat : k <= n /\ k \notin good}
           R == OpToRel(<, Nat)
<1>1. bad \in SUBSET Nat /\ bad # {}
  OBVIOUS
<1>2. IsWellFoundedOn(R, Nat)
  BY NatLessThanWellFounded
<1>3. \A y \in Nat, x \in Nat : y < x => <<y, x>> \in R
  BY DEF OpToRel
<1> HIDE DEF R
<1>4. PICK least \in bad : \A y \in bad : ~(<<y, least>> \in R)
  <2> HIDE DEF bad
  <2> QED
    BY <1>1, <1>2, WFMin
<1>5. least \in Nat /\ least <= n /\ least \notin good /\ least # 0
  BY <1>4
<1>6. least - 1 \in 0..n /\ least - 1 < least /\ least - 1 < n
  BY <1>5
<1>7. least - 1 \notin bad
  BY <1>3, <1>4, <1>5, <1>6
<1>8. least - 1 \in good
  BY <1>6, <1>7
<1> QED
  BY <1>5, <1>6, <1>8

LEMMA ReplayExists ==
    ASSUME NEW entries, NEW m \in Nat
    PROVE  \E f : f = [k \in 0..m |-> IF k = 0 THEN NoEvidence
                                     ELSE Advance(f[k - 1], entries[k].receipt)]
<1> DEFINE Turn(f, k) == Advance(f[k - 1], entries[k].receipt)
           Run(f, n) == f = [k \in 0..n |-> IF k = 0 THEN NoEvidence ELSE Turn(f, k)]
           good == {n \in 0..m : \E f : Run(f, n)}
<1>1. 0 \in good
  <2>1. Run([k \in 0..0 |-> NoEvidence], 0)
    <3> HIDE DEF Turn
    <3> QED
      OBVIOUS
  <2> HIDE DEF Run
  <2> QED
    BY <2>1
<1>2. ASSUME NEW n \in 0..m, n \in good, n < m
      PROVE  n + 1 \in good
  <2>1. PICK f : f = [k \in 0..n |-> IF k = 0 THEN NoEvidence ELSE Turn(f, k)]
    BY <1>2
  <2> DEFINE g == [k \in 0..(n + 1) |-> IF k = 0 THEN NoEvidence ELSE Turn(f, k)]
  <2>2. \A k \in 0..n : g[k] = f[k]
    <3> HIDE DEF Turn
    <3> QED
      BY <2>1
  <2>3. \A k \in 0..(n + 1) : k # 0 => Turn(f, k) = Turn(g, k)
    <3>1. \A k \in 0..(n + 1) : k # 0 => k - 1 \in 0..n
      OBVIOUS
    <3> QED
      BY <2>2, <3>1
  <2>4. Run(g, n + 1)
    <3> HIDE DEF Turn
    <3> QED
      BY <2>3
  <2>5. n + 1 \in 0..m
    BY <1>2
  <2> HIDE DEF Run, g
  <2> QED
    BY <2>4, <2>5
<1>3. m \in good
  <2> HIDE DEF good
  <2> QED
    BY <1>1, <1>2, Induct
<1> QED
  BY <1>3

LEMMA ReplayTurns ==
    ASSUME NEW entries, Len(entries) \in Nat, NEW seen, seen = Replayed(entries)
    PROVE  /\ seen[0] = NoEvidence
           /\ \A k \in 1..Len(entries) : seen[k] = Advance(seen[k - 1], entries[k].receipt)
<1>1. seen = [k \in 0..Len(entries) |-> IF k = 0 THEN NoEvidence
                                        ELSE Advance(seen[k - 1], entries[k].receipt)]
  BY ReplayExists DEF Replayed
<1> QED
  BY <1>1

LEMMA AppendFacts ==
    ASSUME NEW S, NEW s \in Seq(S), NEW e \in S
    PROVE  /\ Append(s, e) \in Seq(S) /\ Len(Append(s, e)) = Len(s) + 1 /\ Append(s, e) # <<>>
           /\ \A k \in 1..Len(s) : Append(s, e)[k] = s[k]
           /\ Append(s, e)[Len(s) + 1] = e
           /\ Last(Append(s, e)) = e
BY DEF Last

\* A further entry leaves the play of those before it alone.
LEMMA ReplayAppend ==
    ASSUME NEW s \in Seq(Entries), NEW e \in Entries,
           NEW old, old = Replayed(s), NEW new, new = Replayed(Append(s, e))
    PROVE  /\ \A k \in 0..Len(s) : new[k] = old[k]
           /\ new[Len(s) + 1] = Advance(old[Len(s)], e.receipt)
<1> DEFINE longer == Append(s, e)
           good == {k \in 0..Len(s) : new[k] = old[k]}
<1>1. /\ Len(s) \in Nat /\ Len(longer) = Len(s) + 1
      /\ \A k \in 1..Len(s) : longer[k] = s[k]
      /\ longer[Len(s) + 1] = e
  BY AppendFacts
<1>2. /\ old[0] = NoEvidence
      /\ \A k \in 1..Len(s) : old[k] = Advance(old[k - 1], s[k].receipt)
  BY <1>1, ReplayTurns
<1>3. /\ new[0] = NoEvidence
      /\ \A k \in 1..(Len(s) + 1) : new[k] = Advance(new[k - 1], longer[k].receipt)
  <2>1. Len(longer) \in Nat /\ new = Replayed(longer)
    BY <1>1
  <2> HIDE DEF longer
  <2> QED
    BY <1>1, <2>1, ReplayTurns
<1> HIDE DEF longer
<1>4. 0 \in good
  BY <1>1, <1>2, <1>3
<1>5. ASSUME NEW k \in 0..Len(s), k \in good, k < Len(s)
      PROVE  k + 1 \in good
  <2>1. k + 1 \in 1..Len(s) /\ k + 1 \in 1..(Len(s) + 1) /\ (k + 1) - 1 = k /\ k + 1 \in 0..Len(s)
    BY <1>1, <1>5
  <2>2. new[k + 1] = Advance(new[k], longer[k + 1].receipt)
    BY <1>3, <2>1
  <2>3. old[k + 1] = Advance(old[k], s[k + 1].receipt)
    BY <1>2, <2>1
  <2> QED
    BY <1>1, <1>5, <2>1, <2>2, <2>3
<1>6. \A k \in 0..Len(s) : k \in good
  <2> HIDE DEF good
  <2> QED
    BY <1>1, <1>4, <1>5, Induct
<1>7. new[Len(s) + 1] = Advance(new[Len(s)], e.receipt)
  <2>1. Len(s) + 1 \in 1..(Len(s) + 1) /\ (Len(s) + 1) - 1 = Len(s) /\ Len(s) \in 0..Len(s)
    BY <1>1
  <2> QED
    BY <1>1, <1>3, <2>1
<1>8. Len(s) \in 0..Len(s)
  BY <1>1
<1> QED
  BY <1>6, <1>7, <1>8

-----------------------------------------------------------------------------
(* The history grows by one receipt. *)

LEMMA ReceiptFacts ==
    ASSUME NEW r \in Receipts
    PROVE  /\ r.id \in 1..MaxReceipts /\ r.at \in 0..MaxClock /\ r.state \in States
           /\ r # Null /\ r.id # Null /\ IdOf(r) = r.id
BY NullAssumption, HeartbeatAssumption DEF Receipts, IdOf

LEMMA EntryType ==
    ASSUME RecordInv, NEW r \in Receipts
    PROVE  Entry(r) \in Entries
<1>1. /\ record.latest \in Receipts \cup {Null}
      /\ record.good \in Receipts \cup {Null}
  BY DEF RecordInv, NoEvidence
<1>2. IdOf(record.latest) \in Refs /\ IdOf(record.good) \in Refs
  BY <1>1, ReceiptFacts DEF IdOf, Refs
<1> QED
  BY <1>2 DEF Entry, Entries

\* What a receipt that is collected now looks like.
Arrives(r) ==
    /\ r \in Receipts /\ r.id = Len(history) + 1
    /\ RecordHeartbeat(r)

LEMMA HistoryGrows ==
    ASSUME HistoryTypes, RecordInv, NEW r, Arrives(r), Len(history) < MaxReceipts
    PROVE  /\ HistoryTypes'
           /\ history' # <<>> /\ Len(history') = Len(history) + 1
           /\ \A n \in 1..Len(history) : history'[n] = history[n]
           /\ history'[Len(history) + 1] = Entry(r)
           /\ Last(history') = Entry(r)
<1>1. Entry(r) \in Entries
  BY EntryType DEF Arrives
<1>2. history' = Append(history, Entry(r)) /\ history \in Seq(Entries)
  BY DEF Arrives, RecordHeartbeat, HistoryTypes
<1>3. /\ history' \in Seq(Entries) /\ Len(history') = Len(history) + 1 /\ history' # <<>>
      /\ \A n \in 1..Len(history) : history'[n] = history[n]
      /\ history'[Len(history) + 1] = Entry(r)
      /\ Last(history') = Entry(r)
      /\ Len(history) \in Nat
  BY <1>1, <1>2, AppendFacts
<1>4. Len(history') <= MaxReceipts
  BY <1>3, HeartbeatAssumption
<1>5. ASSUME NEW n \in 1..Len(history')
      PROVE  history'[n].receipt.id = n
  <2>1. CASE n \in 1..Len(history)
    BY <1>3, <2>1 DEF HistoryTypes
  <2>2. CASE n = Len(history) + 1
    BY <1>3, <2>2 DEF Entry, Arrives
  <2> QED
    BY <1>3, <1>5, <2>1, <2>2
<1> QED
  BY <1>3, <1>4, <1>5 DEF HistoryTypes

\* What is recorded stays recorded.
LEMMA StaysRecorded ==
    ASSUME HistoryTypes, RecordInv, NEW r, Arrives(r), Len(history) < MaxReceipts,
           NEW q \in Receipts, Recorded(q, history)
    PROVE  Recorded(q, history') /\ history'[q.id].receipt = q /\ q.id < Len(history')
<1>1. q.id \in 1..Len(history)
  BY ReceiptFacts DEF Recorded, HistoryTypes
<1>2. history'[q.id].receipt = q /\ q.id < Len(history') /\ q.id <= Len(history')
  BY <1>1, HistoryGrows DEF Recorded, HistoryTypes
<1> QED
  BY <1>2 DEF Recorded

-----------------------------------------------------------------------------
(* What a receipt does to the record. *)

Verdict(r) == Compare(record.latest, r, record.good)

LEMMA VerdictFacts ==
    ASSUME RecordInv, NEW r \in Receipts
    PROVE  /\ Verdict(r).accept <=> (record.latest # Null => r.at > record.latest.at)
           /\ ~Verdict(r).accept => Verdict(r).state = "stale"
           /\ Verdict(r).accept => (Verdict(r).good <=> r.state = "known")
<1>1. r.at \in Int /\ r.state \in States
  BY ReceiptFacts, HeartbeatAssumption
<1>2. record.latest # Null => record.latest.at \in Int
  BY ReceiptFacts, HeartbeatAssumption DEF RecordInv, NoEvidence
<1>3. PICK v : /\ Verdict(r) = [state |-> v, accept |-> v # "stale",
                                good |-> v \in {"baseline", "new_evidence", "unchanged"},
                                wake |-> v = "new_evidence"]
               /\ v = IF record.latest # Null /\ r.at <= record.latest.at THEN "stale"
                      ELSE IF r.state # "known" THEN r.state
                      ELSE IF Baseline(record.latest, record.good) = Null
                              \/ Baseline(record.latest, record.good).scope # r.scope THEN "baseline"
                      ELSE IF Baseline(record.latest, record.good).content # r.content
                           THEN "new_evidence" ELSE "unchanged"
  BY DEF Verdict, Compare
<1>4. v = "stale" <=> record.latest # Null /\ r.at <= record.latest.at
  BY <1>1, <1>3 DEF States
<1>5. v # "stale" => (v \in {"baseline", "new_evidence", "unchanged"} <=> r.state = "known")
  BY <1>1, <1>3 DEF States
<1>6. /\ Verdict(r).state = v
      /\ Verdict(r).accept = (v # "stale")
      /\ Verdict(r).good = (v \in {"baseline", "new_evidence", "unchanged"})
  <2>1. Verdict(r) = [state |-> v, accept |-> v # "stale",
                      good |-> v \in {"baseline", "new_evidence", "unchanged"},
                      wake |-> v = "new_evidence"]
    BY <1>3
  <2> QED
    BY ONLY <2>1
<1>7. (record.latest # Null => r.at > record.latest.at)
        <=> ~(record.latest # Null /\ r.at <= record.latest.at)
  BY <1>1, <1>2
<1> QED
  BY <1>4, <1>5, <1>6, <1>7

\* An accepted receipt becomes the latest, and can be read again.
LEMMA Accepted ==
    ASSUME HistoryTypes, RecordInv, NEW r, Arrives(r), Len(history) < MaxReceipts,
           Verdict(r).accept
    PROVE  /\ RecordInv' /\ LatestReads' /\ TailReads'
           /\ record'.latest = r
<1>1. r \in Receipts /\ r.id = Len(history) + 1 /\ Len(history) \in Nat
  BY DEF Arrives, HistoryTypes
<1>2. /\ record'.latest = r
      /\ record'.good = IF Verdict(r).good THEN r ELSE record.good
      /\ record'.comparison = Verdict(r)
      /\ record' = [latest |-> r, comparison |-> Verdict(r),
                    good |-> IF Verdict(r).good THEN r ELSE record.good]
  BY DEF Arrives, RecordHeartbeat, Advance, Verdict
<1>3. Recorded(r, history')
  <2>1. history'[Len(history) + 1] = Entry(r) /\ Len(history') = Len(history) + 1
    BY HistoryGrows
  <2>2. Entry(r).receipt = r
    BY DEF Entry
  <2> QED
    BY <1>1, <2>1, <2>2 DEF Recorded
<1>4. record.good # Null => /\ record.latest \in Receipts /\ record.good \in Receipts
                            /\ Recorded(record.good, history) /\ record.good.state = "known"
                            /\ record.good.at <= record.latest.at
  BY DEF RecordInv, NoEvidence
<1>5. record.good # Null => record.good.at <= r.at
  BY <1>1, <1>4, VerdictFacts, ReceiptFacts, HeartbeatAssumption
<1>6. record.good \in Receipts \cup {Null}
  BY DEF RecordInv, NoEvidence
<1>7. RecordInv'
  <2>1. CASE Verdict(r).good
    <3>1. r.state = "known" /\ record'.good = r
      BY <1>1, <1>2, <2>1, VerdictFacts
    <3>2. r.at <= r.at
      BY <1>1, ReceiptFacts, HeartbeatAssumption
    <3> QED
      BY <1>1, <1>2, <1>3, <3>1, <3>2, HistoryGrows DEF RecordInv
  <2>2. CASE ~Verdict(r).good
    <3>1. r.state # "known" /\ record'.good = record.good
      BY <1>1, <1>2, <2>2, VerdictFacts
    <3>2. record.good # Null => Recorded(record'.good, history')
      BY <1>4, <3>1, StaysRecorded
    <3> QED
      BY <1>1, <1>2, <1>3, <1>4, <1>5, <1>6, <3>1, <3>2, HistoryGrows DEF RecordInv
  <2> QED
    BY <2>1, <2>2
<1>8. LatestReads'
  <2> DEFINE entry == Entry(r)
             before == [latest |-> record.latest, good |-> record.good, comparison |-> Null]
  <2>1. history'[record'.latest.id] = Entry(r)
    BY <1>1, <1>2, HistoryGrows
  <2>2. /\ (IF IdOf(record.latest) = Null THEN Null ELSE history'[IdOf(record.latest)].receipt)
              = record.latest
        /\ IdOf(record.latest) # Null => IdOf(record.latest) < r.id
    <3>1. CASE record.latest = Null
      BY <3>1 DEF IdOf, ReceiptOf
    <3>2. CASE record.latest # Null
      <4>1. record.latest \in Receipts /\ Recorded(record.latest, history)
        BY <3>2 DEF RecordInv, NoEvidence
      <4>2. IdOf(record.latest) = record.latest.id /\ record.latest.id < Len(history')
            /\ history'[record.latest.id].receipt = record.latest
        BY <4>1, ReceiptFacts, StaysRecorded DEF Recorded
      <4> QED
        BY <1>1, <4>1, <4>2, HistoryGrows, ReceiptFacts DEF ReceiptOf
    <3> QED
      BY <3>1, <3>2
  <2>3. /\ (IF IdOf(record.good) = Null THEN Null ELSE history'[IdOf(record.good)].receipt)
              = record.good
        /\ IdOf(record.good) # Null => IdOf(record.good) < r.id
    <3>1. CASE record.good = Null
      BY <3>1 DEF IdOf, ReceiptOf
    <3>2. CASE record.good # Null
      <4>1. record.good \in Receipts /\ Recorded(record.good, history)
        BY <1>4, <3>2
      <4>2. IdOf(record.good) = record.good.id /\ record.good.id < Len(history')
            /\ history'[record.good.id].receipt = record.good
        BY <4>1, ReceiptFacts, StaysRecorded DEF Recorded
      <4> QED
        BY <1>1, <4>1, <4>2, HistoryGrows, ReceiptFacts DEF ReceiptOf
    <3> QED
      BY <3>1, <3>2
  <2>4. /\ entry.receipt = r
        /\ entry.latest = IdOf(record.latest) /\ entry.good = IdOf(record.good)
    BY DEF Entry
  <2>5. record.latest # Null /\ record.latest.state = "known" => record.good = record.latest
    BY DEF RecordInv, NoEvidence
  <2>6. Compare(before.latest, r, before.good) = Verdict(r)
    BY DEF Verdict
  <2>7. record' = Advance(before, r)
    BY <1>2, <2>6 DEF Advance
  <2>8. [latest |-> IF entry.latest = Null THEN Null ELSE history'[entry.latest].receipt,
         good |-> IF entry.good = Null THEN Null ELSE history'[entry.good].receipt,
         comparison |-> Null] = before
    BY <2>2, <2>3, <2>4
  <2>9. before.latest = record.latest /\ before.good = record.good
    OBVIOUS
  <2> HIDE DEF before, entry
  <2> QED
    BY <1>1, <1>2, <2>1, <2>2, <2>3, <2>4, <2>5, <2>6, <2>7, <2>8, <2>9 DEF LatestReads, Before, ReceiptOf, entry
<1>9. TailReads'
  <2>1. Last(history') = Entry(r)
    BY HistoryGrows
  <2> QED
    BY <1>2, <2>1 DEF TailReads, Entry
<1> QED
  BY <1>2, <1>7, <1>8, <1>9

\* A stale receipt leaves the record alone, and shows in the history that it is stale.
LEMMA NotAccepted ==
    ASSUME HistoryTypes, RecordInv, history # <<>> => LatestReads /\ TailReads,
           NEW r, Arrives(r), Len(history) < MaxReceipts, ~Verdict(r).accept
    PROVE  /\ RecordInv' /\ LatestReads' /\ TailReads'
           /\ record' = record /\ history # <<>>
<1>1. r \in Receipts /\ r.id = Len(history) + 1 /\ Len(history) \in Nat
  BY DEF Arrives, HistoryTypes
<1>2. record' = record
  BY DEF Arrives, RecordHeartbeat, Advance, Verdict
<1>3. record.latest # Null
  BY <1>1, VerdictFacts
<1>4. history # <<>> /\ record.latest \in Receipts /\ Recorded(record.latest, history)
  BY <1>3 DEF RecordInv, NoEvidence
<1>5. record.good # Null => /\ record.good \in Receipts /\ Recorded(record.good, history)
                            /\ record.good.state = "known"
                            /\ record.good.at <= record.latest.at
  BY <1>4 DEF RecordInv
<1>6. history' # <<>> /\ record.good \in Receipts \cup {Null}
      /\ (record.latest.state = "known" => record.good = record.latest)
  BY <1>4, HistoryGrows DEF RecordInv
<1>7. /\ Recorded(record.latest, history') /\ record.latest.id < Len(history')
      /\ record.latest.id \in 1..Len(history)
  BY <1>1, <1>4, StaysRecorded, ReceiptFacts DEF Recorded
<1>8. record.good # Null => Recorded(record.good, history')
  BY <1>5, StaysRecorded
<1>9. RecordInv'
  BY <1>2, <1>4, <1>5, <1>6, <1>7, <1>8 DEF RecordInv
<1>10. LatestReads'
  <2> DEFINE entry == history[record.latest.id]
  <2>1. history'[record.latest.id] = entry
    BY <1>7, HistoryGrows
  <2>2. entry.latest \in Refs /\ entry.good \in Refs
    <3>1. entry \in Entries
      BY <1>7 DEF HistoryTypes
    <3> HIDE DEF entry
    <3> QED
      BY <3>1 DEF Entries
  <2>3. LatestReads
    BY <1>4
  <2>4. /\ entry.latest # Null => entry.latest < record.latest.id
        /\ entry.good # Null => entry.good < record.latest.id
    BY <2>3 DEF LatestReads
  <2>5. /\ entry.latest # Null => entry.latest \in 1..Len(history)
        /\ entry.good # Null => entry.good \in 1..Len(history)
    <3> HIDE DEF entry
    <3> QED
      BY <1>1, <1>7, <2>2, <2>4, HeartbeatAssumption DEF Refs
  <2>6. /\ entry.latest # Null => history'[entry.latest] = history[entry.latest]
        /\ entry.good # Null => history'[entry.good] = history[entry.good]
    BY <2>5, HistoryGrows
  <2> HIDE DEF entry
  <2> QED
    BY <1>2, <2>1, <2>3, <2>6 DEF LatestReads, Before, ReceiptOf, entry
<1>11. TailReads'
  <2>1. Last(history') = Entry(r)
    BY HistoryGrows
  <2>2. Verdict(r).state = "stale"
    BY <1>1, VerdictFacts
  <2>3. IdOf(record.latest) = record.latest.id
    BY <1>4, ReceiptFacts
  <2> QED
    BY <1>2, <2>1, <2>2, <2>3 DEF TailReads, Entry, Verdict, IdOf
<1> QED
  BY <1>2, <1>4, <1>9, <1>10, <1>11

LEMMA StillAudited ==
    ASSUME HistoryTypes, RecordInv, Audited, NEW r, Arrives(r), Len(history) < MaxReceipts
    PROVE  Audited'
<1> DEFINE old == Replayed(history)
           new == Replayed(history')
<1>1. /\ history \in Seq(Entries) /\ Entry(r) \in Entries /\ history' = Append(history, Entry(r))
      /\ Len(history) \in Nat
  BY EntryType DEF HistoryTypes, Arrives, RecordHeartbeat
<1>2. /\ record = old[Len(history)]
      /\ \A n \in DOMAIN history :
           history[n].latest = IdOf(old[n - 1].latest) /\ history[n].good = IdOf(old[n - 1].good)
  BY DEF Audited
<1> HIDE DEF old, new
<1>3. /\ \A k \in 0..Len(history) : new[k] = old[k]
      /\ new[Len(history) + 1] = Advance(old[Len(history)], Entry(r).receipt)
  BY <1>1, ReplayAppend DEF old, new
<1>4. Entry(r).receipt = r /\ Entry(r).latest = IdOf(record.latest) /\ Entry(r).good = IdOf(record.good)
  BY DEF Entry
<1>5. record' = new[Len(history')]
  <2>1. record' = Advance(record, r)
    BY DEF Arrives, RecordHeartbeat
  <2>2. Len(history') = Len(history) + 1
    BY HistoryGrows
  <2> QED
    BY <1>2, <1>3, <1>4, <2>1, <2>2
<1>6. ASSUME NEW n \in DOMAIN history'
      PROVE  /\ history'[n].latest = IdOf(new[n - 1].latest)
             /\ history'[n].good = IdOf(new[n - 1].good)
  <2>1. n \in 1..(Len(history) + 1) /\ n - 1 \in 0..Len(history) /\ DOMAIN history = 1..Len(history)
    BY <1>1, HistoryGrows DEF HistoryTypes
  <2>2. new[n - 1] = old[n - 1]
    BY <1>3, <2>1
  <2>3. CASE n \in 1..Len(history)
    BY <1>2, <2>1, <2>2, <2>3, HistoryGrows
  <2>4. CASE n = Len(history) + 1
    <3>1. history'[n] = Entry(r) /\ n - 1 = Len(history)
      BY <1>1, <2>4, HistoryGrows
    <3> QED
      BY <1>2, <1>4, <2>2, <3>1
  <2> QED
    BY <1>1, <2>1, <2>3, <2>4
<1> QED
  BY <1>5, <1>6 DEF Audited, new

-----------------------------------------------------------------------------
(* The steps. *)

LEMMA ReadingStart == EvidenceInit => ReadingInv
<1> SUFFICES ASSUME EvidenceInit
             PROVE  ReadingInv
  OBVIOUS
<1>1. history = <<>> /\ Len(history) = 0
  BY DEF EvidenceInit
<1>2. HistoryTypes
  BY <1>1, HeartbeatAssumption DEF HistoryTypes
<1>3. HostTypes
  BY <1>1, HeartbeatAssumption DEF HostTypes, EvidenceInit
<1>4. RecordInv
  BY <1>1 DEF RecordInv, EvidenceInit
<1>5. Audited
  <2> DEFINE seen == Replayed(history)
  <2>1. seen[0] = NoEvidence
    BY <1>1, ReplayTurns
  <2>2. record = NoEvidence /\ DOMAIN history = {}
    BY <1>1 DEF EvidenceInit
  <2> HIDE DEF seen
  <2> QED
    BY <1>1, <2>1, <2>2 DEF Audited, seen
<1> QED
  BY <1>1, <1>2, <1>3, <1>4, <1>5 DEF ReadingInv

LEMMA ObserveReads ==
    ASSUME ReadingInv, Observe
    PROVE  /\ ReadingInv'
           /\ \E r : /\ Arrives(r) /\ Len(history) < MaxReceipts /\ r.scope = source
                    /\ rejected' = (IdOf(record'.latest) # r.id)
<1>1. PICK r \in Collected : RecordHeartbeat(r) /\ rejected' = (IdOf(record'.latest) # r.id)
  BY DEF Observe
<1>2. /\ Arrives(r) /\ Len(history) < MaxReceipts /\ r.scope = source
  BY <1>1 DEF Collected, Arrives, Observe, ReadingInv, HostTypes
<1>3. HistoryTypes /\ RecordInv /\ Audited /\ (history # <<>> => LatestReads /\ TailReads)
  BY DEF ReadingInv
<1>4. RecordInv' /\ LatestReads' /\ TailReads'
  BY <1>2, <1>3, Accepted, NotAccepted
<1>5. HistoryTypes' /\ Audited' /\ Len(history') = Len(history) + 1 /\ Len(history) \in Nat
      /\ history' # <<>>
  BY <1>2, <1>3, HistoryGrows, StillAudited DEF HistoryTypes
<1>6. HostTypes'
  <2>1. record'.latest \in Receipts
    BY <1>4, <1>5 DEF RecordInv
  <2>2. evidence' \in Receipts \cup {Null}
    BY <2>1 DEF Observe, Decide, ReadingInv, HostTypes
  <2> QED
    BY <1>5, <2>2 DEF Observe, countVars, ReadingInv, HostTypes
<1> QED
  BY <1>1, <1>2, <1>4, <1>5, <1>6 DEF ReadingInv

LEMMA QuietReads ==
    ASSUME ReadingInv, UNCHANGED <<record, history>>, HostTypes'
    PROVE  ReadingInv'
<1>1. Audited' /\ (history' # <<>> => LatestReads' /\ TailReads')
  BY DEF ReadingInv, Audited, LatestReads, TailReads, Before, ReceiptOf
<1> QED
  BY <1>1 DEF ReadingInv, HistoryTypes, RecordInv

LEMMA StepReads == ReadingInv /\ [EvidenceNext]_evidenceVars => ReadingInv'
<1> SUFFICES ASSUME ReadingInv, [EvidenceNext]_evidenceVars
             PROVE  ReadingInv'
  OBVIOUS
<1> USE DEF hostVars, countVars
<1>1. HostTypes
  BY DEF ReadingInv
<1>2. Len(history) \in Nat
  BY DEF ReadingInv, HistoryTypes
<1>3. CASE Watch
  <2>1. HostTypes'
    BY <1>1, <1>3 DEF HostTypes, Watch, Begin
  <2> QED
    BY <1>3, <2>1, QuietReads DEF Watch
<1>4. CASE Dispatch
  <2>1. evidence' \in Receipts \cup {Null}
    <3>1. CASE Cached /\ Decide(record.latest, rejected)
      <4>1. Len(history) > since
        BY <3>1 DEF Cached
      <4>2. history # <<>>
        BY <1>1, <4>1 DEF HostTypes
      <4> QED
        BY <3>1, <4>2 DEF Decide, ReadingInv, RecordInv
    <3>2. CASE UNCHANGED evidence
      BY <1>1, <3>2 DEF HostTypes
    <3> QED
      BY <1>4, <3>1, <3>2 DEF Dispatch
  <2>2. HostTypes'
    BY <1>1, <1>4, <2>1 DEF HostTypes, Dispatch, Begin
  <2> QED
    BY <1>4, <2>2, QuietReads DEF Dispatch
<1>5. CASE Observe
  BY <1>5, ObserveReads
<1>6. CASE Submit
  <2>1. HostTypes'
    BY <1>1, <1>6 DEF HostTypes, Submit
  <2> QED
    BY <1>6, <2>1, QuietReads DEF Submit
<1>7. CASE Defer
  <2>1. HostTypes'
    BY <1>1, <1>7 DEF HostTypes, Defer
  <2> QED
    BY <1>7, <2>1, QuietReads DEF Defer
<1>8. CASE Register
  <2>1. HostTypes'
    BY <1>1, <1>2, <1>8 DEF HostTypes, Register
  <2> QED
    BY <1>8, <2>1, QuietReads DEF Register
<1>9. CASE ClockMoves
  <2>1. clock' \in 0..MaxClock
    BY <1>1, <1>9, HeartbeatAssumption DEF HostTypes, ClockMoves
  <2>2. HostTypes'
    BY <1>1, <1>9, <2>1 DEF HostTypes, ClockMoves
  <2> QED
    BY <1>9, <2>2, QuietReads DEF ClockMoves
<1>10. CASE UNCHANGED evidenceVars
  <2>1. HostTypes'
    BY <1>1, <1>10 DEF HostTypes, evidenceVars
  <2> QED
    BY <1>10, <2>1, QuietReads DEF evidenceVars
<1> QED
  BY <1>3, <1>4, <1>5, <1>6, <1>7, <1>8, <1>9, <1>10 DEF EvidenceNext

LEMMA ReadingHolds == EvidenceSpec => []ReadingInv
  BY ReadingStart, StepReads, PTL DEF EvidenceSpec

(***************************************************************************)
(* HistoryIsRead: whatever is collected, in whatever order clocks and      *)
(* configurations change, the store accepts what it wrote itself, for any  *)
(* number of receipts, sources and contents (_read_heartbeat_snapshot,     *)
(* _heartbeat_records, compare_receipts).                                  *)
(***************************************************************************)
THEOREM HistoryIsRead == EvidenceSpec => []HistoryReads
<1>1. ReadingInv => HistoryReads
  <2> SUFFICES ASSUME ReadingInv
               PROVE  HistoryReads
    OBVIOUS
  <2>1. DOMAIN history = 1..Len(history) /\ \A n \in 1..Len(history) : history[n] \in Entries
    BY DEF ReadingInv, HistoryTypes
  <2>2. \A n \in DOMAIN history : history[n].receipt \in Receipts /\ history[n].receipt.id = n
    BY <2>1 DEF ReadingInv, HistoryTypes, Entries
  <2>3. EvidenceTypeOK
    BY <2>2 DEF EvidenceTypeOK, ReadingInv, HistoryTypes, HostTypes, RecordInv
  <2>4. Comparable
    BY DEF Comparable, ReadingInv, RecordInv, NoEvidence
  <2> QED
    BY <2>3, <2>4 DEF HistoryReads, ReadingInv
<1> QED
  BY <1>1, ReadingHolds, PTL

-----------------------------------------------------------------------------
(* What a dispatch under way knows of its evidence. *)

\* Unless the last collection was stale, the record is of this process's last one.
FreshInv == ~rejected /\ Len(history) > since => record.latest.id = Len(history)

EvidenceInv == evidence # Null => evidence.state = "known" /\ evidence.id > since

\* What was consumed was the latest when its input went out, and what came before is older.
ConsumedInv ==
    /\ woken \in Seq(Receipts)
    /\ IF woken = <<>> THEN consumed = Null
       ELSE consumed = Last(woken) /\ consumed \in Receipts
    /\ \A k \in 1..Len(woken) : woken[k].at <= consumed.at
    /\ consumed # Null =>
         /\ history # <<>>
         /\ consumed = record.latest \/ consumed.at < record.latest.at

NewsInv == FreshInv /\ EvidenceInv /\ ConsumedInv

\* The record only moves on to later receipts.
LEMMA RecordMovesOn ==
    ASSUME ReadingInv, ReadingInv', NEW r, Arrives(r), Len(history) < MaxReceipts, history # <<>>
    PROVE  record'.latest = record.latest \/ record.latest.at < record'.latest.at
<1>1. HistoryTypes /\ RecordInv /\ (history # <<>> => LatestReads /\ TailReads)
  BY DEF ReadingInv
<1>2. CASE Verdict(r).accept
  <2>1. record'.latest = r
    BY <1>1, <1>2, Accepted
  <2>2. record.latest # Null /\ r \in Receipts /\ record.latest \in Receipts
    BY <1>1, ReceiptFacts DEF RecordInv, Arrives
  <2> QED
    BY <1>1, <1>2, <2>1, <2>2, VerdictFacts, ReceiptFacts, HeartbeatAssumption
<1>3. CASE ~Verdict(r).accept
  BY <1>1, <1>3, NotAccepted
<1> QED
  BY <1>2, <1>3

LEMMA ObserveNews ==
    ASSUME ReadingInv, ReadingInv', NewsInv, Observe
    PROVE  NewsInv'
<1>1. PICK r : /\ Arrives(r) /\ Len(history) < MaxReceipts
               /\ rejected' = (IdOf(record'.latest) # r.id)
  BY ObserveReads
<1>2. /\ Len(history') = Len(history) + 1 /\ history' # <<>> /\ Len(history) \in Nat
      /\ r.id = Len(history) + 1 /\ since' = since /\ since \in Nat /\ since <= Len(history)
      /\ consumed' = consumed /\ woken' = woken
  BY <1>1, HistoryGrows DEF ReadingInv, HistoryTypes, HostTypes, Arrives, Observe, countVars
<1>3. record'.latest \in Receipts
  BY <1>2 DEF ReadingInv, RecordInv
<1>4. ~rejected' => record'.latest.id = Len(history')
  BY <1>1, <1>2, <1>3, ReceiptFacts
<1>5. FreshInv'
  BY <1>4 DEF FreshInv
<1>6. EvidenceInv'
  <2>1. CASE collecting.by = "dispatch"
    <3>1. Decide(record'.latest, rejected')
      BY <2>1 DEF Observe
    <3> QED
      BY <1>2, <1>4, <3>1 DEF Decide, EvidenceInv
  <2>2. CASE collecting.by # "dispatch"
    BY <1>2, <2>2 DEF Observe, NewsInv, EvidenceInv
  <2> QED
    BY <2>1, <2>2
<1>7. ConsumedInv'
  <2>1. consumed # Null => consumed = record'.latest \/ consumed.at < record'.latest.at
    <3> SUFFICES ASSUME consumed # Null
                 PROVE  consumed = record'.latest \/ consumed.at < record'.latest.at
      OBVIOUS
    <3>1. history # <<>> /\ (consumed = record.latest \/ consumed.at < record.latest.at)
      BY DEF NewsInv, ConsumedInv
    <3>2. record.latest \in Receipts /\ consumed \in Receipts
      BY <3>1 DEF ReadingInv, RecordInv, HostTypes
    <3>3. record'.latest = record.latest \/ record.latest.at < record'.latest.at
      BY <1>1, <3>1, RecordMovesOn
    <3> QED
      BY <1>3, <3>1, <3>2, <3>3, ReceiptFacts, HeartbeatAssumption
  <2> QED
    BY <1>2, <2>1 DEF NewsInv, ConsumedInv
<1> QED
  BY <1>5, <1>6, <1>7 DEF NewsInv

\* An input that goes out goes out for news.
LEMMA SubmitNews ==
    ASSUME ReadingInv, NewsInv, Submit
    PROVE  /\ NewsInv'
           /\ woken' = Append(woken, evidence) /\ Last(woken') = evidence
           /\ evidence.state = "known" /\ evidence.scope = source /\ evidence.id > since
           /\ \A k \in DOMAIN woken : woken[k].at < evidence.at
           /\ woken # <<>> => <<Last(woken).scope, Last(woken).content>>
                                # <<evidence.scope, evidence.content>>
<1>1. /\ evidence # Null /\ Stands /\ evidence \in Receipts
      /\ consumed' = evidence /\ woken' = Append(woken, evidence) /\ evidence' = Null
      /\ UNCHANGED <<record, history, rejected, since>>
  BY DEF Submit, countVars, ReadingInv, HostTypes
<1>2. /\ record.latest = evidence /\ evidence.scope = source /\ Candidate(evidence)
  BY <1>1 DEF Stands
<1>3. evidence.state = "known" /\ evidence.id > since
  BY <1>1 DEF NewsInv, EvidenceInv
<1>4. woken \in Seq(Receipts) /\ DOMAIN woken = 1..Len(woken) /\ Len(woken) \in Nat
  BY DEF NewsInv, ConsumedInv
<1>5. /\ woken' \in Seq(Receipts) /\ Len(woken') = Len(woken) + 1 /\ woken' # <<>>
      /\ \A k \in 1..Len(woken) : woken'[k] = woken[k]
      /\ woken'[Len(woken) + 1] = evidence
      /\ Last(woken') = evidence
  BY <1>1, <1>4, AppendFacts
<1>6. ASSUME NEW k \in DOMAIN woken
      PROVE  woken[k].at < evidence.at
  <2>1. woken # <<>> /\ consumed \in Receipts /\ woken[k] \in Receipts
        /\ woken[k].at <= consumed.at
    BY <1>4, <1>6 DEF NewsInv, ConsumedInv
  <2>2. consumed # Null
    BY <2>1, ReceiptFacts
  <2>3. consumed # evidence
    BY <1>2, <2>2 DEF Candidate
  <2>4. consumed.at < evidence.at
    BY <1>2, <2>2, <2>3 DEF NewsInv, ConsumedInv
  <2> QED
    BY <1>1, <2>1, <2>4, ReceiptFacts, HeartbeatAssumption
<1>7. woken # <<>> => <<Last(woken).scope, Last(woken).content>>
                        # <<evidence.scope, evidence.content>>
  <2> SUFFICES ASSUME woken # <<>>
               PROVE  <<Last(woken).scope, Last(woken).content>>
                        # <<evidence.scope, evidence.content>>
    OBVIOUS
  <2>1. consumed = Last(woken) /\ consumed \in Receipts
    BY DEF NewsInv, ConsumedInv
  <2>2. consumed # Null
    BY <2>1, ReceiptFacts
  <2> QED
    BY <1>2, <2>1, <2>2 DEF Candidate
<1>8. ConsumedInv'
  <2>1. \A k \in 1..Len(woken') : woken'[k].at <= evidence.at
    <3> SUFFICES ASSUME NEW k \in 1..Len(woken')
                 PROVE  woken'[k].at <= evidence.at
      OBVIOUS
    <3>1. evidence.at \in Int
      BY <1>1, ReceiptFacts
    <3>2. CASE k \in 1..Len(woken)
      <4>1. woken[k] \in Receipts /\ woken[k].at \in Int
        BY <1>4, <3>2, ReceiptFacts
      <4> QED
        BY <1>4, <1>5, <1>6, <3>1, <3>2, <4>1
    <3>3. CASE k = Len(woken) + 1
      BY <1>5, <3>1, <3>3
    <3> QED
      BY <1>4, <1>5, <3>2, <3>3
  <2>2. history # <<>>
    BY <1>1, <1>2 DEF ReadingInv, RecordInv, NoEvidence
  <2> QED
    BY <1>1, <1>2, <1>5, <2>1, <2>2 DEF ConsumedInv
<1>9. FreshInv' /\ EvidenceInv'
  BY <1>1 DEF NewsInv, FreshInv, EvidenceInv
<1> QED
  BY <1>1, <1>2, <1>3, <1>5, <1>6, <1>7, <1>8, <1>9 DEF NewsInv

LEMMA NewsStart == EvidenceInit => NewsInv
<1> SUFFICES ASSUME EvidenceInit
             PROVE  NewsInv
  OBVIOUS
<1>1. woken = <<>> /\ Len(woken) = 0 /\ woken \in Seq(Receipts) /\ Len(history) = 0
  BY DEF EvidenceInit
<1> QED
  BY <1>1 DEF EvidenceInit, NewsInv, FreshInv, EvidenceInv, ConsumedInv

LEMMA StepNews ==
    ASSUME ReadingInv, ReadingInv', NewsInv, [EvidenceNext]_evidenceVars
    PROVE  NewsInv' /\ (Submit \/ woken' = woken)
<1> USE DEF hostVars, countVars
<1>1. CASE Watch
  BY <1>1 DEF Watch, NewsInv, FreshInv, EvidenceInv, ConsumedInv
<1>2. CASE Dispatch
  <2>1. EvidenceInv'
    <3>1. CASE Cached /\ Decide(record.latest, rejected)
      <4>1. Len(history) > since /\ since' = since
        BY <1>2, <3>1 DEF Cached, Dispatch
      <4> QED
        BY <3>1, <4>1 DEF Decide, NewsInv, FreshInv, EvidenceInv
    <3>2. CASE UNCHANGED evidence
      BY <1>2, <3>2 DEF Dispatch, NewsInv, EvidenceInv
    <3> QED
      BY <1>2, <3>1, <3>2 DEF Dispatch
  <2> QED
    BY <1>2, <2>1 DEF Dispatch, NewsInv, FreshInv, ConsumedInv
<1>3. CASE Observe
  BY <1>3, ObserveNews DEF Observe
<1>4. CASE Submit
  BY <1>4, SubmitNews
<1>5. CASE Defer
  BY <1>5 DEF Defer, NewsInv, FreshInv, EvidenceInv, ConsumedInv
<1>6. CASE Register
  <2>1. Len(history) \in Nat /\ ~(Len(history) > Len(history))
    BY DEF ReadingInv, HistoryTypes
  <2> QED
    BY <1>6, <2>1 DEF Register, NewsInv, FreshInv, EvidenceInv, ConsumedInv
<1>7. CASE ClockMoves
  BY <1>7 DEF ClockMoves, NewsInv, FreshInv, EvidenceInv, ConsumedInv
<1>8. CASE UNCHANGED evidenceVars
  BY <1>8 DEF evidenceVars, NewsInv, FreshInv, EvidenceInv, ConsumedInv
<1> QED
  BY <1>1, <1>2, <1>3, <1>4, <1>5, <1>6, <1>7, <1>8 DEF EvidenceNext

(***************************************************************************)
(* NewsWakes: each input that goes out for evidence goes out for other     *)
(* evidence than the one before, collected later, by this very process and *)
(* from the source that is configured now, over any number of receipts,    *)
(* restarts and clocks that are set back (observe_heartbeat, dispatch,     *)
(* submit).                                                                *)
(***************************************************************************)
THEOREM NewsWakes == EvidenceSpec => WokenForNews
<1> DEFINE Wakes ==
      woken' # woken =>
         LET r == Last(woken')
         IN  /\ r.state = "known" /\ r.scope = source /\ r.id > since
             /\ \A k \in DOMAIN woken : woken[k].at < r.at
             /\ woken # <<>> => <<Last(woken).scope, Last(woken).content>> # <<r.scope, r.content>>
<1>1. ReadingInv /\ ReadingInv' /\ NewsInv /\ [EvidenceNext]_evidenceVars => NewsInv'
  BY StepNews
<1>2. ReadingInv /\ ReadingInv' /\ NewsInv /\ [EvidenceNext]_evidenceVars => [Wakes]_evidenceVars
  BY StepNews, SubmitNews
<1>3. EvidenceSpec => []NewsInv
  BY <1>1, NewsStart, ReadingHolds, PTL DEF EvidenceSpec
<1> QED
  BY <1>2, <1>3, ReadingHolds, PTL DEF EvidenceSpec, WokenForNews
=============================================================================
