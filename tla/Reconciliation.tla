--------------------------- MODULE Reconciliation ---------------------------
(***************************************************************************)
(* One completed hour of trades, reconciled by Reconcile, repaired by      *)
(* ReconcileRepair and explained by ReconcileDiff (reconcile.go), while    *)
(* the trade stream may be storing and settling trades of that hour.       *)
(*                                                                         *)
(* The hour may have diverged in any way beforehand: trades the database   *)
(* misses, trades the Core misses, trades the two hold differently.  The   *)
(* hash functions of the checksum are taken to be free of collisions, so a *)
(* bit_xor of hashes is the set of what was hashed an odd number of times. *)
(*                                                                         *)
(* A definition marked "Slip" is no part of the specification: it is a     *)
(* plausible wrong form of the definition after it, which the properties   *)
(* must reject.                                                            *)
(***************************************************************************)
EXTENDS Integers, FiniteSets

CONSTANTS
    Keys,       \* trades of the hour: [tid, oid], trade_id and order_id
    Rows,       \* what is said of a trade: [terms, ref, type, timed], with
                \* terms standing for side, filled_quantity and execution_rate,
                \* and timed for an executed_at that parses: a trade without
                \* one is stored with the time of the insert, in another hour
    Runners,    \* goroutines that reconcile the hour
    StreamLive  \* whether the trade stream is delivering trades of the hour

ASSUME ReconciliationAssumption ==
    /\ Keys \subseteq [tid : Nat, oid : Nat]
    /\ \A r \in Rows : r.type \in Nat /\ r.timed \in BOOLEAN
    /\ StreamLive \in BOOLEAN

VARIABLES
    core,    \* the Core's trades of the hour
    local,   \* client_trades rows of these trades
    settled, \* the ones with settled = TRUE
    rec,     \* the reconciliations row of the hour
    pc,      \* where a runner is
    job,     \* what it is doing: "check", "before", "after" or "diff"
    sums,    \* the local checksums it read
    pulled,  \* the trades GetTrades gave it that it has yet to use
    cur,     \* the trade of the repair it has persisted and not settled
    tally,   \* what its repair did: [moved, failed]
    report   \* what its last call returned

repair == <<pulled, cur, tally>>
vars == <<core, local, settled, rec, pc, job, sums, repair, report>>

\* Tables of trades: functions from some of the keys to rows.
Tables == UNION {[K -> Rows] : K \in SUBSET Keys}
Without(table, k) == [j \in DOMAIN table \ {k} |-> table[j]]

\* The rows an hour's window selects.
Window(table) == [k \in {j \in DOMAIN table : table[j].timed} |-> table[k]]

-----------------------------------------------------------------------------
(* The checksums *)

\* bit_xor(hashint8(trade_id) # hashint8(order_id)): an id counts when an odd
\* number of rows has it as exactly one of its two ids.
Ids == {k.tid : k \in Keys} \cup {k.oid : k \in Keys}
HashV1(table) ==
    {i \in Ids :
        Cardinality({k \in DOMAIN table : (k.tid = i) # (k.oid = i)}) % 2 = 1}

\* bit_xor of the hash of each whole tuple; the key makes tuples distinct.
HashV2(table) == {<<k, table[k].terms>> : k \in DOMAIN table}

Checksums(table) ==
    [v1 |-> HashV1(table), v2 |-> HashV2(table), count |-> Cardinality(DOMAIN table)]

\* Slip: the checksum of the ids is taken for enough.
MatchesIds(mine, theirs, version) ==
    mine.v1 = theirs.v1 /\ (version = 2 => mine.count = theirs.count)

\* compareChecksums: by the tuple checksum and the count (2) when the answer
\* has both, by the checksum of the ids (1) when it does not.
Matches(mine, theirs, version) ==
    IF version = 2
    THEN mine.v2 = theirs.v2 /\ mine.count = theirs.count
    ELSE mine.v1 = theirs.v1

-----------------------------------------------------------------------------
(* The difference *)

\* Slip: the terms of a trade are not compared.
AgreeButTerms(c, l) == c.ref = l.ref /\ (c.type # 0 /\ l.type # 0 => c.type = l.type)

\* compareTrade: type 0 is not reported.
Agree(c, l) ==
    /\ c.terms = l.terms
    /\ c.ref = l.ref
    /\ c.type # 0 /\ l.type # 0 => c.type = l.type

MissingLocally(theirs, mine) == DOMAIN theirs \ DOMAIN mine
MissingRemotely(theirs, mine) == DOMAIN mine \ DOMAIN theirs
Mismatched(theirs, mine) ==
    {k \in DOMAIN theirs \cap DOMAIN mine : ~ Agree(theirs[k], mine[k])}

Diff(theirs, mine) ==
    [missingLocally |-> MissingLocally(theirs, mine),
     missingRemotely |-> MissingRemotely(theirs, mine),
     mismatched |-> Mismatched(theirs, mine),
     unsettled |-> (DOMAIN theirs \cap DOMAIN mine) \ settled]

Divergent(diff) ==
    diff.missingLocally \cup diff.missingRemotely \cup diff.mismatched # {}

-----------------------------------------------------------------------------

NoRec == [matched |-> FALSE, version |-> 1, done |-> FALSE, present |-> FALSE]
NoReport == [kind |-> "none"]

\* RepairResult: Resolved(), the version of the last check, whether Failed > 0
\* and whether After is set.
Repaired(resolved, version, failed, rechecked) ==
    [kind |-> "repair", resolved |-> resolved, version |-> version, failed |-> failed,
     rechecked |-> rechecked]

NoSums == Checksums(<<>>)
NoKey == [tid |-> -1, oid |-> -1]
Fresh == [moved |-> FALSE, failed |-> FALSE]

TypeOK ==
    /\ core \in Tables
    /\ local \in Tables
    /\ settled \subseteq DOMAIN local
    /\ rec \in [matched : BOOLEAN, version : {1, 2}, done : BOOLEAN, present : BOOLEAN]
    /\ pc \in [Runners -> {"idle", "local", "remote", "pull", "walk", "settle", "read"}]
    /\ job \in [Runners -> {"check", "before", "after", "diff"}]
    /\ pulled \in [Runners -> Tables]
    /\ cur \in [Runners -> Keys \cup {NoKey}]
    /\ tally \in [Runners -> [moved : BOOLEAN, failed : BOOLEAN]]

Init ==
    /\ core \in Tables
    /\ local \in Tables
    /\ settled \in SUBSET DOMAIN local
    /\ rec = NoRec
    /\ pc = [r \in Runners |-> "idle"]
    /\ job = [r \in Runners |-> "check"]
    /\ sums = [r \in Runners |-> NoSums]
    /\ pulled = [r \in Runners |-> <<>>]
    /\ cur = [r \in Runners |-> NoKey]
    /\ tally = [r \in Runners |-> Fresh]
    /\ report = [r \in Runners |-> NoReport]

Goto(r, l) == pc' = [pc EXCEPT ![r] = l]

\* The call ends, and with it what its local variables held.
Return(r, result) ==
    /\ Goto(r, "idle")
    /\ job' = [job EXCEPT ![r] = "check"]
    /\ tally' = [tally EXCEPT ![r] = Fresh]
    /\ report' = [report EXCEPT ![r] = result]

Start(r, what, at) ==
    /\ pc[r] = "idle"
    /\ Goto(r, at)
    /\ job' = [job EXCEPT ![r] = what]
    /\ report' = [report EXCEPT ![r] = NoReport]
    /\ UNCHANGED <<core, local, settled, rec, sums, repair>>

\* Any statement or call of a runner fails: it returns the error, and what it
\* did so far stays.
GiveUp(r) ==
    /\ pc[r] \in {"local", "remote", "pull", "read"}
    /\ Return(r, NoReport)
    /\ pulled' = [pulled EXCEPT ![r] = <<>>]
    /\ sums' = [sums EXCEPT ![r] = NoSums]
    /\ UNCHANGED <<core, local, settled, rec, cur>>

-----------------------------------------------------------------------------
(* Reconcile *)

ReadLocal(r) ==
    /\ pc[r] = "local"
    /\ sums' = [sums EXCEPT ![r] = Checksums(Window(local))]
    /\ Goto(r, "remote")
    /\ UNCHANGED <<core, local, settled, rec, job, repair, report>>

\* Slip: is_done = EXCLUDED.is_done.
UpsertExcluded(matched, version) ==
    rec' = [matched |-> matched, version |-> version, done |-> matched, present |-> TRUE]

\* is_done OR EXCLUDED.is_done: a match closes the hour, nothing reopens it.
Upsert(matched, version) ==
    rec' = [matched |-> matched, version |-> version, done |-> rec.done \/ matched,
            present |-> TRUE]

\* The Core's checksum, in a version of its choice, the comparison and the
\* upsert, whose info says the version.  Nothing the runner reads changes
\* between the last two, as the hour is complete at the Core.
CompareAndRecord(r) ==
    /\ pc[r] = "remote"
    /\ \E version \in {1, 2} :
        LET matched == Matches(sums[r], Checksums(core), version)
        IN  /\ Upsert(matched, version)
            /\ \/ /\ job[r] = "check"
                  /\ Return(r, [kind |-> "check", matched |-> matched])
               \/ /\ job[r] = "before" /\ matched
                  /\ Return(r, Repaired(TRUE, version, FALSE, FALSE))
               \/ /\ job[r] = "before" /\ ~ matched
                  /\ Goto(r, "pull") /\ UNCHANGED <<job, tally, report>>
               \/ /\ job[r] = "after"
                  /\ Return(r, Repaired(matched, version, tally[r].failed, TRUE))
    /\ sums' = [sums EXCEPT ![r] = NoSums]
    /\ UNCHANGED <<core, local, settled, pulled, cur>>

\* A partner closes an hour by hand.
CloseByHand ==
    /\ rec.present
    /\ rec' = [rec EXCEPT !.done = TRUE]
    /\ UNCHANGED <<core, local, settled, pc, job, sums, repair, report>>

-----------------------------------------------------------------------------
(* ReconcileRepair, after its first Reconcile found a mismatch *)

Pull(r) ==
    /\ pc[r] = "pull"
    /\ pulled' = [pulled EXCEPT ![r] = core]
    /\ Goto(r, IF job[r] = "diff" THEN "read" ELSE "walk")
    /\ UNCHANGED <<core, local, settled, rec, job, sums, cur, tally, report>>

\* persistTrade inserts the trade or finds it, and says whether it is settled.
Persist(r) ==
    /\ pc[r] = "walk"
    /\ \E k \in DOMAIN pulled[r] :
        /\ pulled' = [pulled EXCEPT ![r] = Without(@, k)]
        /\ \/ /\ k \notin DOMAIN local
              /\ local' = [j \in DOMAIN local \cup {k} |->
                             IF j = k THEN pulled[r][k] ELSE local[j]]
              /\ tally' = [tally EXCEPT ![r] = [moved |-> TRUE, failed |-> @.failed]]
              /\ cur' = [cur EXCEPT ![r] = k] /\ Goto(r, "settle")
           \/ /\ k \in DOMAIN local \ settled
              /\ cur' = [cur EXCEPT ![r] = k] /\ Goto(r, "settle")
              /\ UNCHANGED <<local, tally>>
           \/ /\ k \in settled
              /\ UNCHANGED <<local, tally, cur, pc>>
    /\ UNCHANGED <<core, settled, rec, job, sums, report>>

\* Slip: the trade is settled although persistTrade failed.
PersistUnchecked(r) ==
    /\ pc[r] = "walk"
    /\ \E k \in DOMAIN pulled[r] :
        /\ pulled' = [pulled EXCEPT ![r] = Without(@, k)]
        /\ cur' = [cur EXCEPT ![r] = k]
    /\ Goto(r, "settle")
    /\ tally' = [tally EXCEPT ![r] = [moved |-> @.moved, failed |-> TRUE]]
    /\ UNCHANGED <<core, local, settled, rec, job, sums, report>>

\* Slip: the failure is only logged.
PersistFailsUncounted(r) ==
    /\ pc[r] = "walk"
    /\ \E k \in DOMAIN pulled[r] : pulled' = [pulled EXCEPT ![r] = Without(@, k)]
    /\ UNCHANGED <<core, local, settled, rec, pc, job, sums, cur, tally, report>>

\* persistTrade fails: it is counted, and the walk goes on.
PersistFails(r) ==
    /\ pc[r] = "walk"
    /\ \E k \in DOMAIN pulled[r] : pulled' = [pulled EXCEPT ![r] = Without(@, k)]
    /\ tally' = [tally EXCEPT ![r] = [moved |-> @.moved, failed |-> TRUE]]
    /\ UNCHANGED <<core, local, settled, rec, pc, job, sums, cur, report>>

\* The handler succeeds and markSettled writes the flag, or fails to, which
\* is only logged; or the handler fails.
SettleCur(r) ==
    /\ pc[r] = "settle"
    /\ \/ /\ settled' \in {settled, settled \cup {cur[r]}}
          /\ tally' = [tally EXCEPT ![r] = [moved |-> TRUE, failed |-> @.failed]]
       \/ UNCHANGED <<settled, tally>>
    /\ cur' = [cur EXCEPT ![r] = NoKey]
    /\ Goto(r, "walk")
    /\ UNCHANGED <<core, local, rec, job, sums, pulled, report>>

\* Every pulled trade is done: re-check, unless nothing moved, when After is
\* left nil.
WalkDone(r) ==
    /\ pc[r] = "walk"
    /\ DOMAIN pulled[r] = {}
    /\ \/ /\ tally[r].moved
          /\ Goto(r, "local")
          /\ job' = [job EXCEPT ![r] = "after"]
          /\ UNCHANGED <<tally, report>>
       \/ /\ ~ tally[r].moved
          /\ Return(r, Repaired(FALSE, 1, tally[r].failed, FALSE))
    /\ UNCHANGED <<core, local, settled, rec, sums, pulled, cur>>

-----------------------------------------------------------------------------
(* ReconcileDiff, after pulling the Core's trades *)

ReadDiff(r) ==
    /\ pc[r] = "read"
    /\ Return(r, [kind |-> "diff", diff |-> Diff(pulled[r], Window(local))])
    /\ pulled' = [pulled EXCEPT ![r] = <<>>]
    /\ UNCHANGED <<core, local, settled, rec, sums, cur>>

-----------------------------------------------------------------------------
(* The trade stream, as far as this hour sees it *)

StreamStores(k) ==
    /\ StreamLive
    /\ k \in DOMAIN core \ DOMAIN local
    /\ local' = [j \in DOMAIN local \cup {k} |-> IF j = k THEN core[k] ELSE local[j]]
    /\ UNCHANGED <<core, settled, rec, pc, job, sums, repair, report>>

StreamSettles(k) ==
    /\ StreamLive
    /\ k \in DOMAIN local \ settled
    /\ settled' = settled \cup {k}
    /\ UNCHANGED <<core, local, rec, pc, job, sums, repair, report>>

Reconcile(r) == ReadLocal(r) \/ CompareAndRecord(r)
Repair(r) == Pull(r) \/ Persist(r) \/ PersistFails(r) \/ SettleCur(r) \/ WalkDone(r)

Next ==
    \/ \E r \in Runners :
        \/ Start(r, "check", "local") \/ Start(r, "before", "local")
        \/ Start(r, "diff", "pull")
        \/ Reconcile(r) \/ Repair(r) \/ ReadDiff(r) \/ GiveUp(r)
    \/ \E k \in Keys : StreamStores(k) \/ StreamSettles(k)
    \/ CloseByHand

Spec == Init /\ [][Next]_vars

-----------------------------------------------------------------------------
(* What a reconciliation is worth *)

\* The database and the Core hold the same trades of the hour, tuple by tuple.
SameTrades == HashV2(Window(local)) = HashV2(core)

\* An hour recorded as matched by whole tuples is one on which the two sides
\* agree, however the stream and other runners moved between the two checksums
\* (reconcile.go:46-60; README.md:939-941).
MatchedHourAgrees == rec.matched /\ rec.version = 2 => SameTrades

\* is_done never goes back, whichever run writes the row last and whoever
\* closed the hour (reconcile.go:73-76).
DoneStays == [][rec.done => rec'.done]_vars

\* A repair that reports an hour resolved left it agreeing with the Core
\* (types.go:516-524).
ResolvedHourAgrees ==
    \A r \in Runners :
        report[r].kind = "repair" /\ report[r].resolved /\ report[r].version = 2
            => SameTrades

\* What a repair cannot fix: a trade the Core does not have, one the two sides
\* hold differently, or one stored with no usable execution time.
Unfixable ==
    \/ MissingRemotely(core, Window(local)) # {}
    \/ Mismatched(core, Window(local)) # {}
    \/ \E k \in DOMAIN core \cap DOMAIN local : ~ local[k].timed

Unresolved(result) == result.kind = "repair" /\ ~ result.resolved /\ ~ result.failed

\* A repair that stored all it was given leaves an hour unresolved only over
\* what it cannot fix (reconcile.go:270-296, trade.go:262-264).
RepairFixes == \A r \in Runners : Unresolved(report[r]) => Unfixable

\* ... or, when it skipped the second check, says so of an hour that agrees by
\* then: whoever else stores trades of the hour meanwhile, nothing a repair
\* could fix is left (reconcile.go:270-296, reconcile.go:358-362).
RepairLeavesNothing ==
    \A r \in Runners :
        Unresolved(report[r]) => Unfixable \/ (~ report[r].rechecked /\ SameTrades)

\* What a diff says, seen from the hour as it is now.
TrueOfTheHour(said) ==
    LET mine == Window(local)
    IN  /\ said.missingRemotely = MissingRemotely(core, mine)
        /\ said.mismatched = Mismatched(core, mine)
        /\ MissingLocally(core, mine) \subseteq said.missingLocally
        /\ (DOMAIN core \cap DOMAIN mine) \ settled
              \subseteq said.unsettled \cup said.missingLocally
        /\ Divergent(said) \/ \A version \in {1, 2} :
              Matches(Checksums(mine), Checksums(core), version)

\* A diff stays true of the hour, however long it is looked at: what it says
\* only the database has, or the two hold differently, is just that; nothing it
\* does not name is missing or unsettled; and it names something if the two
\* sides' checksums, of either version, differ (reconcile.go:195-205).
DiffIsTrue ==
    \A r \in Runners : report[r].kind = "diff" => TrueOfTheHour(report[r].diff)
=============================================================================
