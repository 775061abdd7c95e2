---------------------------- MODULE SummaryStore ----------------------------
(***************************************************************************)
(* MemoryStore: the events and the summaries of one day (memory.py,        *)
(* summary_partitions.py).  Every operation that writes holds the file     *)
(* lock of the store; a step is one durable write of the holder, and the   *)
(* process may die, or its write fail, between any two.  Others edit files *)
(* of the workspace without the lock, but not between the last comparison  *)
(* of a target and the rename that replaces it.                            *)
(*                                                                         *)
(* L1 windows of the day summarize events into one file, "hourly"; L2      *)
(* summarizes that file into "diary".  A batch is named by the digest of   *)
(* its manifest: here it is its manifest.                                  *)
(***************************************************************************)
EXTENDS SummaryTree, SequencesExt

CONSTANTS
    None,
    Windows, Day,     \* the periods of L1 and of L2
    Events, WindowOf, \* events, and the window of each
    Malformed,        \* events without a readable body
    Early,            \* events recorded before the model begins
    Notes,            \* what an editor writes
    LegacyMax,        \* sources that one batch without partitions takes
    MaxBatches,       \* bound: batches prepared
    MaxCrashes        \* bound: crashes and failed writes

ASSUME StoreAssumption ==
    /\ WindowOf \in [Events -> Windows] /\ Malformed \subseteq Events /\ Early \subseteq Events
    /\ IsFiniteSet(Events) /\ Day \notin Windows
    /\ {"absent", "intact"} \cap Notes = {}
    /\ LegacyMax \in Nat /\ MaxBatches \in Nat /\ MaxCrashes \in Nat

VARIABLES
    text,      \* workspace: the summary files
    trace,     \* workspace: the file of each event
    raw,       \* events/raw
    indexed,   \* events that sources.sqlite3 knows
    acked,     \* events/receipts
    frozen,    \* summary-batches: batches of the first protocol
    prepared,  \* summary-partitions/.prepared-*
    plans,     \* summary-partitions/*
    intents,   \* commits/*.json
    outputs,   \* outputs/*.md of the nodes
    receipts,  \* receipts/*.json of the nodes
    covered,   \* coverage.jsonl
    anchors,   \* final-before.bin and finalization.json
    build,     \* a preparation under way outside the lock
    job,       \* the operation that holds the lock
    written,   \* history: batches whose text was written
    notes,     \* history: notes already written
    crashes    \* history: crashes so far

eventVars == <<trace, raw, indexed, acked>>
planVars == <<frozen, prepared, plans>>
nodeVars == <<outputs, receipts, covered, anchors>>
historyVars == <<written, notes, crashes>>
vars == <<text, eventVars, planVars, intents, nodeVars, build, job, historyVars>>

-----------------------------------------------------------------------------
(* Batches and what they are made from. *)

Files == {"hourly", "diary"}
Target(b) == IF b.period = Day THEN "diary" ELSE "hourly"
Count(b) == Len(b.sources)
Prepared == frozen \cup prepared \cup plans

SourcesOf(period) ==
    IF period = Day THEN text["hourly"]
    ELSE LET files == SetToSeq({e \in Events : WindowOf[e] = period /\ trace[e] # "absent"})
         IN  [k \in DOMAIN files |->
                IF trace[files[k]] = "intact" THEN files[k] ELSE trace[files[k]]]

Inventory(period) == IF period = Day THEN text["hourly"] ELSE trace

\* sources with an error of their own, which a candidate has to declare
Unreadable(b, f) == b.sources[f[2] + 1] \in Malformed \cup Notes

Partitioned(b) == b.form = "partitioned"
References(sources) == {s \in ToSet(sources) \ (Events \cup Notes) : Partitioned(s)}

StatusOf(b) ==
    IF \E i \in intents : i.batch = b
    THEN (CHOOSE i \in intents : i.batch = b).status ELSE "none"
IntentOf(b) == CHOOSE i \in intents : i.batch = b
Committed(b) == StatusOf(b) = "committed"

CommittedInto(period) ==      \* has_upstream, _upstream
    {i.batch : i \in {i \in intents : /\ i.status = "committed"
                                      /\ Partitioned(i.batch)
                                      /\ period = Day /\ Target(i.batch) = "hourly"}}

\* embedded_references: a reference in a source counts only when its proof is committed
\* Mutant of Verified: the references of a source are taken on trust.
VerifiedOnTrust(sources) == TRUE

Verified(sources) == \A b \in References(sources) : Committed(b)

NeedsPartition(period) ==
    \/ Len(SourcesOf(period)) > LegacyMax
    \/ References(SourcesOf(period)) # {}
    \/ CommittedInto(period) # {}

\* the file holds, from its beginning, what was frozen
SourcesUnchanged(b) ==
    IF b.period = Day THEN IsPrefix(b.sources, text["hourly"])
    ELSE \A k \in DOMAIN b.sources : b.sources[k] \in Events => trace[b.sources[k]] = "intact"

FragmentUnchanged(b, f) ==
    LET k == f[2] + 1
    IN  IF b.period = Day
        THEN Len(text["hourly"]) >= k /\ text["hourly"][k] = b.sources[k]
        ELSE b.sources[k] \in Events => trace[b.sources[k]] = "intact"

-----------------------------------------------------------------------------
(* The nodes of a partitioned batch. *)

Units(b) == Nodes(Count(b))
RootOf(b) == Root(Count(b))
HasReceipt(b, n) == \E r \in receipts : r.batch = b /\ r.node = n
ReceiptOf(b, n) == CHOOSE r \in receipts : r.batch = b /\ r.node = n
ReadyNode(b, n) == n[1] = 0 \/ \A c \in Below(Count(b), n) : HasReceipt(b, c)

Valid(b, n, missing) ==    \* _validate_candidate
    /\ missing \subseteq Below(Count(b), n)
    /\ n[1] = 0 => {f \in Below(Count(b), n) : Unreadable(b, f)} \subseteq missing

\* Mutant of MissingCount: only what this unit declares is counted.
MissingHere(b, n, missing) ==
    FoldSet(LAMBDA c, sum : sum + Cardinality(FragmentsBelow(Count(b), c)), 0, missing)

\* fragments that a source of a unit leaves out
Inherited(b, n, missing, c) ==
    IF c \notin Below(Count(b), n) THEN 0
    ELSE IF c \in missing THEN Cardinality(FragmentsBelow(Count(b), c))
    ELSE IF n[1] = 0 THEN 0 ELSE ReceiptOf(b, c).count

\* the count of missing fragments that a receipt carries up the tree
MissingCount(b, n, missing) ==
    LET sum[k \in 0..Arity(n[1])] ==
            IF k = 0 THEN 0 ELSE sum[k - 1] + Inherited(b, n, missing, Child(n, k - 1))
    IN  sum[Arity(n[1])]

Coverage(b) ==
    MissingFragments(Count(b), [n \in Units(b) |-> ReceiptOf(b, n).missing])

CoverageOf(b) == (CHOOSE c \in covered : c.batch = b).missing
BeforeOf(b) == (CHOOSE a \in anchors : a.batch = b).before
HasAnchor(b) == \E a \in anchors : a.batch = b

\* recover_plan: what recovery demands of an intent that is pending or committed
EvidenceHolds(i) ==
    LET b == i.batch
    IN  /\ b \in plans /\ HasAnchor(b) /\ HasReceipt(b, RootOf(b))
        /\ \E c \in covered : c.batch = b
        /\ ReceiptOf(b, RootOf(b)).missing = i.missing
        /\ ReceiptOf(b, RootOf(b)).count = Cardinality(CoverageOf(b))
        /\ i.before = BeforeOf(b)

-----------------------------------------------------------------------------
NoJob == [pc |-> "free", item |-> None, node |-> None, missing |-> {}]
NoBuild == [period |-> None, step |-> "none", sources |-> <<>>,
            inventory |-> None, upstream |-> {}]

Free == job = NoJob
Pending == {i \in intents : i.status = "pending"}
Unpublished == {i \in intents : i.status = "partitioning" /\ i.batch \in prepared}
After(i) == Append(i.before, i.batch)

\* _recover_commits raises
Refused(i) ==
    \/ /\ Partitioned(i.batch) /\ i.status \in {"pending", "committed"}
       /\ ~EvidenceHolds(i)
    \/ i.status = "pending" /\ text[Target(i.batch)] \notin {i.before, After(i)}

NothingToRecover ==
    Pending = {} /\ Unpublished = {} /\ ~\E i \in intents : Refused(i)

At(pc) == job.pc = pc
Go(pc) == job' = [job EXCEPT !.pc = pc]
Take(pc, item) == job' = [NoJob EXCEPT !.pc = pc, !.item = item]
Return == job' = NoJob      \* the operation returns, or raises, and gives the lock back

\* Every operation that publishes or commits takes the lock and recovers before
\* anything else.  That beginning is Recover; the rest of it is an action of its own,
\* which needs Recovered: no editor changes what recovery looked at between the two.
Recovered == Free /\ NothingToRecover

Init ==
    /\ text = [f \in Files |-> <<>>]
    /\ trace = [e \in Events |-> IF e \in Early THEN "intact" ELSE "absent"]
    /\ raw = Early /\ indexed = Early /\ acked = Early
    /\ frozen = {} /\ prepared = {} /\ plans = {}
    /\ intents = {}
    /\ outputs = {} /\ receipts = {} /\ covered = {} /\ anchors = {}
    /\ build = NoBuild
    /\ job = NoJob
    /\ written = {} /\ notes = {} /\ crashes = 0

-----------------------------------------------------------------------------
(* append_event, _recover_events and _materialize_event *)

AppendEvent(e) ==
    /\ Free /\ e \notin acked
    /\ raw' = raw \cup {e}
    /\ Take("trace", e)
    /\ UNCHANGED <<text, trace, indexed, acked, planVars, intents, nodeVars, build, historyVars>>

RecoverEvent(e) ==
    /\ Recovered /\ e \in raw \ acked
    /\ Take("trace", e)
    /\ UNCHANGED <<text, eventVars, planVars, intents, nodeVars, build, historyVars>>

WriteTrace ==
    /\ At("trace")
    /\ IF trace[job.item] \in {"absent", "intact"}
       THEN trace' = [trace EXCEPT ![job.item] = "intact"] /\ Go("index")
       ELSE trace' = trace /\ Return
    /\ UNCHANGED <<text, raw, indexed, acked, planVars, intents, nodeVars, build, historyVars>>

IndexEvent ==
    /\ At("index")
    /\ indexed' = indexed \cup {job.item}
    /\ Go("ack")
    /\ UNCHANGED <<text, trace, raw, acked, planVars, intents, nodeVars, build, historyVars>>

AckEvent ==
    /\ At("ack")
    /\ acked' = acked \cup {job.item}
    /\ Return
    /\ UNCHANGED <<text, trace, raw, indexed, planVars, intents, nodeVars, build, historyVars>>

-----------------------------------------------------------------------------
(* _recover_commits *)

Recover ==
    /\ Free /\ ~NothingToRecover
    /\ Go("recover")
    /\ UNCHANGED <<text, eventVars, planVars, intents, nodeVars, build, historyVars>>

RecoverPlan ==
    /\ At("recover")
    /\ \E i \in Unpublished :
         /\ prepared' = prepared \ {i.batch}
         /\ plans' = plans \cup {i.batch}
    /\ UNCHANGED <<text, eventVars, frozen, intents, nodeVars, build, job, historyVars>>

\* Mutant of RecoverTarget: the target is written whatever it holds.
RecoverTargetBlindly ==
    /\ At("recover")
    /\ \E i \in Pending :
         /\ text' = [text EXCEPT ![Target(i.batch)] = After(i)]
         /\ written' = written \cup {i.batch}
         /\ Take("stamp", i.batch)
    /\ UNCHANGED <<eventVars, planVars, intents, nodeVars, build, notes, crashes>>

RecoverTarget ==
    /\ At("recover")
    /\ \E i \in Pending :
         /\ ~Refused(i)
         /\ IF text[Target(i.batch)] = i.before
            THEN /\ text' = [text EXCEPT ![Target(i.batch)] = After(i)]
                 /\ written' = written \cup {i.batch}
            ELSE UNCHANGED <<text, written>>
         /\ Take("stamp", i.batch)
    /\ UNCHANGED <<eventVars, planVars, intents, nodeVars, build, notes, crashes>>

StampIntent ==
    /\ At("stamp")
    /\ LET i == IntentOf(job.item)
       IN  intents' = (intents \ {i}) \cup {[i EXCEPT !.status = "committed"]}
    /\ Take("recover", None)
    /\ UNCHANGED <<text, eventVars, planVars, nodeVars, build, historyVars>>

EndRecovery ==      \* all of it done, or a conflict raised
    /\ At("recover")
    /\ NothingToRecover \/ \E i \in intents : Refused(i)
    /\ Return
    /\ UNCHANGED <<text, eventVars, planVars, intents, nodeVars, build, historyVars>>

-----------------------------------------------------------------------------
(* prepare_summary: one batch under the lock, or a plan that is built outside it *)

RoomFor(b) == b \in Prepared \/ Cardinality(Prepared) < MaxBatches

PrepareLegacy(p) ==
    /\ Free
    /\ SourcesOf(p) # <<>> /\ ~NeedsPartition(p)
    /\ LET b == [period |-> p, form |-> "legacy", sources |-> SourcesOf(p), upstream |-> {}]
       IN  RoomFor(b) /\ frozen' = frozen \cup {b}
    /\ UNCHANGED <<text, eventVars, prepared, plans, intents, nodeVars, build, job, historyVars>>

StartBuild(p) ==
    /\ Free /\ build = NoBuild
    /\ Cardinality(Prepared) < MaxBatches
    /\ SourcesOf(p) # <<>> /\ NeedsPartition(p)
    /\ build' = [NoBuild EXCEPT !.period = p, !.step = "read"]
    /\ UNCHANGED <<text, eventVars, planVars, intents, nodeVars, job, historyVars>>

ReadSources ==
    /\ build.step = "read"
    /\ LET sources == SourcesOf(build.period)
       IN  build' = IF sources # <<>> /\ Verified(sources)
                    THEN [build EXCEPT !.step = "upstream", !.sources = sources,
                                       !.inventory = Inventory(build.period)]
                    ELSE NoBuild
    /\ UNCHANGED <<text, eventVars, planVars, intents, nodeVars, job, historyVars>>

ListUpstream ==
    /\ build.step = "upstream"
    /\ build' = [build EXCEPT !.step = "ready",
                              !.upstream = CommittedInto(build.period)]
    /\ UNCHANGED <<text, eventVars, planVars, intents, nodeVars, job, historyVars>>

BuiltBatch == [period |-> build.period, form |-> "partitioned",
               sources |-> build.sources, upstream |-> build.upstream]

\* Mutant of Publish: the inventory is not compared again under the lock.
PublishUnchecked ==
    /\ build.step = "ready" /\ Recovered
    /\ BuiltBatch \notin plans
    /\ prepared' = prepared \cup {BuiltBatch} /\ Take("intent", BuiltBatch)
    /\ build' = NoBuild
    /\ UNCHANGED <<text, eventVars, frozen, plans, intents, nodeVars, historyVars>>

Publish ==
    /\ build.step = "ready" /\ Recovered
    /\ IF build.inventory # Inventory(build.period) \/ BuiltBatch \in plans
       THEN UNCHANGED <<prepared, job>>
       ELSE prepared' = prepared \cup {BuiltBatch} /\ Take("intent", BuiltBatch)
    /\ build' = NoBuild
    /\ UNCHANGED <<text, eventVars, frozen, plans, intents, nodeVars, historyVars>>

WriteIntent ==
    /\ At("intent")
    /\ intents' = IF StatusOf(job.item) # "none" THEN intents
                  ELSE intents \cup {[batch |-> job.item, status |-> "partitioning",
                                      before |-> <<>>, missing |-> {}]}
    /\ Go("rename")
    /\ UNCHANGED <<text, eventVars, planVars, nodeVars, build, historyVars>>

RenamePlan ==
    /\ At("rename")
    /\ prepared' = prepared \ {job.item}
    /\ plans' = plans \cup {job.item}
    /\ Return
    /\ UNCHANGED <<text, eventVars, frozen, intents, nodeVars, build, historyVars>>

-----------------------------------------------------------------------------
(* commit_summary *)

CommitSummary(b, missing) ==
    /\ Recovered
    /\ {f \in Fragments(Count(b)) : Unreadable(b, f)} \subseteq missing
    /\ StatusOf(b) = "none" /\ SourcesUnchanged(b)
    /\ intents' = intents \cup {[batch |-> b, status |-> "pending",
                                 before |-> text[Target(b)], missing |-> missing]}
    /\ Go("recover")
    /\ UNCHANGED <<text, eventVars, planVars, nodeVars, build, historyVars>>

-----------------------------------------------------------------------------
(* commit_node, next_nodes and _finalize *)

\* Mutant of CommitNode: the text is written before the receipt is looked for.
CommitNodeOver(b, n, missing) ==
    /\ Recovered
    /\ ReadyNode(b, n) /\ Valid(b, n, missing)
    /\ outputs' = {o \in outputs : <<o.batch, o.node>> # <<b, n>>}
                    \cup {[batch |-> b, node |-> n, missing |-> missing]}
    /\ IF HasReceipt(b, n) THEN job' = job
       ELSE job' = [pc |-> "receipt", item |-> b, node |-> n, missing |-> missing]
    /\ UNCHANGED <<text, eventVars, planVars, intents, receipts, covered, anchors, build,
                   historyVars>>

CommitNode(b, n, missing) ==
    /\ Recovered
    /\ ReadyNode(b, n) /\ Valid(b, n, missing)
    /\ IF HasReceipt(b, n)
       THEN /\ ReceiptOf(b, n).missing = missing
            /\ outputs' = outputs
            /\ Take("finalize", b)
       ELSE /\ n[1] = 0 => \A f \in Below(Count(b), n) : FragmentUnchanged(b, f)
            /\ outputs' = {o \in outputs : <<o.batch, o.node>> # <<b, n>>}
                            \cup {[batch |-> b, node |-> n, missing |-> missing]}
            /\ job' = [pc |-> "receipt", item |-> b, node |-> n, missing |-> missing]
    /\ UNCHANGED <<text, eventVars, planVars, intents, receipts, covered, anchors, build,
                   historyVars>>

WriteReceipt ==
    /\ At("receipt")
    /\ receipts' = receipts \cup
         {[batch |-> job.item, node |-> job.node, missing |-> job.missing,
           count |-> MissingCount(job.item, job.node, job.missing)]}
    /\ Take("finalize", job.item)
    /\ UNCHANGED <<text, eventVars, planVars, intents, outputs, covered, anchors, build,
                   historyVars>>

\* _finalize; a batch with a missing root, committed, or out of date, returns or raises
Finalize(b) ==
    /\ IF /\ HasReceipt(b, RootOf(b)) /\ ~Committed(b) /\ SourcesUnchanged(b)
          /\ ReceiptOf(b, RootOf(b)).count = Cardinality(Coverage(b))
       THEN /\ covered' = {c \in covered : c.batch # b}
                            \cup {[batch |-> b, missing |-> Coverage(b)]}
            /\ Take("anchor", b)
       ELSE covered' = covered /\ Return
    /\ UNCHANGED <<text, eventVars, planVars, intents, outputs, receipts, anchors, build,
                   historyVars>>

NextNodes(b) == Recovered /\ Finalize(b)

FinalizeAfterNode == At("finalize") /\ Finalize(job.item)

WriteAnchor ==
    /\ At("anchor")
    /\ anchors' = IF HasAnchor(job.item) THEN anchors
                  ELSE anchors \cup {[batch |-> job.item,
                                      before |-> text[Target(job.item)]]}
    /\ Go("pending")
    /\ UNCHANGED <<text, eventVars, planVars, intents, outputs, receipts, covered, build,
                   historyVars>>

\* Mutant of WritePending: the before image is what the target holds now.
WritePendingAnew ==
    /\ At("pending")
    /\ LET b == job.item
       IN  intents' = (intents \ {IntentOf(b)}) \cup
             {[batch |-> b, status |-> "pending", before |-> text[Target(b)],
               missing |-> ReceiptOf(b, RootOf(b)).missing]}
    /\ Take("recover", None)
    /\ UNCHANGED <<text, eventVars, planVars, nodeVars, build, historyVars>>

WritePending ==
    /\ At("pending")
    /\ LET b == job.item
       IN  intents' = (intents \ {IntentOf(b)}) \cup
             {[batch |-> b, status |-> "pending", before |-> BeforeOf(b),
               missing |-> ReceiptOf(b, RootOf(b)).missing]}
    /\ Take("recover", None)
    /\ UNCHANGED <<text, eventVars, planVars, nodeVars, build, historyVars>>

-----------------------------------------------------------------------------
(* Crashes, failed writes, and those who edit the workspace. *)

HolderFails ==
    /\ ~Free /\ crashes < MaxCrashes
    /\ Return
    /\ crashes' = crashes + 1
    /\ UNCHANGED <<text, eventVars, planVars, intents, nodeVars, build, written, notes>>

BuildFails ==
    /\ build # NoBuild /\ crashes < MaxCrashes
    /\ build' = NoBuild
    /\ crashes' = crashes + 1
    /\ UNCHANGED <<text, eventVars, planVars, intents, nodeVars, job, written, notes>>

AppendNote(f, m) ==
    /\ text' = [text EXCEPT ![f] = Append(@, m)]
    /\ UNCHANGED eventVars

Rewrite(f, m) ==
    /\ text[f] # <<>>
    /\ text' = [text EXCEPT ![f] = <<m>>]
    /\ UNCHANGED eventVars

EditTrace(e, m) ==
    /\ trace[e] = "intact"
    /\ trace' = [trace EXCEPT ![e] = m]
    /\ UNCHANGED <<text, raw, indexed, acked>>

Edit(m) ==
    /\ m \notin notes
    /\ notes' = notes \cup {m}
    /\ \/ \E f \in Files : AppendNote(f, m) \/ Rewrite(f, m)
       \/ \E e \in Events : EditTrace(e, m)
    /\ UNCHANGED <<planVars, intents, nodeVars, build, job, written, crashes>>

-----------------------------------------------------------------------------
EventStep ==
    \/ \E e \in Events : AppendEvent(e) \/ RecoverEvent(e)
    \/ WriteTrace \/ IndexEvent \/ AckEvent
RecoveryStep == Recover \/ RecoverPlan \/ RecoverTarget \/ StampIntent \/ EndRecovery
PrepareStep ==
    \/ \E p \in Windows \cup {Day} : PrepareLegacy(p) \/ StartBuild(p)
    \/ ReadSources \/ ListUpstream \/ Publish \/ WriteIntent \/ RenamePlan
CommitStep ==
    \/ \E b \in frozen : \E missing \in SUBSET Fragments(Count(b)) : CommitSummary(b, missing)
    \/ \E b \in plans : \E n \in Units(b) : \E missing \in SUBSET Below(Count(b), n) :
         CommitNode(b, n, missing)
    \/ \E b \in plans : NextNodes(b)
    \/ WriteReceipt \/ FinalizeAfterNode \/ WriteAnchor \/ WritePending

Next ==
    EventStep \/ RecoveryStep \/ PrepareStep \/ CommitStep
        \/ HolderFails \/ BuildFails \/ \E m \in Notes : Edit(m)

Spec == Init /\ [][Next]_vars
=============================================================================
