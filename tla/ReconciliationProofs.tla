------------------------ MODULE ReconciliationProofs ------------------------
(***************************************************************************)
(* Proofs about Reconciliation, for any hour, any runners and with or      *)
(* without a live stream: what a match, a resolved repair, one that did    *)
(* not resolve the hour, and a diff are worth.  And about a runner that    *)
(* has the hour to itself: what its repair leaves is what it cannot fix.   *)
(***************************************************************************)
EXTENDS Reconciliation, TLAPS

(* Tables *)

\* A table with a row more.
With(table, k, row) == [j \in DOMAIN table \cup {k} |-> IF j = k THEN row ELSE table[j]]

LEMMA TableFacts ==
    ASSUME NEW T \in Tables
    PROVE  /\ DOMAIN T \subseteq Keys
           /\ \A k \in DOMAIN T : T[k] \in Rows
           /\ T = [k \in DOMAIN T |-> T[k]]
BY DEF Tables

LEMMA TableMade ==
    ASSUME NEW K \in SUBSET Keys, NEW T \in [K -> Rows]
    PROVE  T \in Tables
BY DEF Tables

LEMMA NoTable == <<>> \in Tables /\ DOMAIN <<>> = {}
<1>1. <<>> \in [{} -> Rows]
  OBVIOUS
<1>2. <<>> \in Tables
  BY <1>1, TableMade
<1> QED BY <1>1, <1>2

LEMMA WithIsTable ==
    ASSUME NEW T \in Tables, NEW k \in Keys, NEW row \in Rows
    PROVE  With(T, k, row) \in Tables
<1>1. With(T, k, row) \in [DOMAIN T \cup {k} -> Rows]
  BY TableFacts DEF With
<1> QED BY <1>1, TableFacts, TableMade

LEMMA WithoutIsTable ==
    ASSUME NEW T \in Tables, NEW k
    PROVE  /\ Without(T, k) \in Tables
           /\ DOMAIN Without(T, k) = DOMAIN T \ {k}
           /\ \A j \in DOMAIN Without(T, k) : Without(T, k)[j] = T[j]
<1>1. Without(T, k) \in [DOMAIN T \ {k} -> Rows]
  BY TableFacts DEF Without
<1>2. Without(T, k) \in Tables
  BY <1>1, TableFacts, TableMade
<1> QED BY <1>1, <1>2 DEF Without

\* Tables whose tuples are the same have the same trades.
LEMMA SameTuples ==
    ASSUME NEW S, NEW T, HashV2(S) = HashV2(T)
    PROVE  DOMAIN S = DOMAIN T
<1>1. \A k \in DOMAIN S : k \in DOMAIN T
  <2> SUFFICES ASSUME NEW k \in DOMAIN S PROVE k \in DOMAIN T
    OBVIOUS
  <2>1. <<k, S[k].terms>> \in HashV2(T)
    BY DEF HashV2
  <2> QED BY <2>1 DEF HashV2
<1>2. \A k \in DOMAIN T : k \in DOMAIN S
  <2> SUFFICES ASSUME NEW k \in DOMAIN T PROVE k \in DOMAIN S
    OBVIOUS
  <2>1. <<k, T[k].terms>> \in HashV2(S)
    BY DEF HashV2
  <2> QED BY <2>1 DEF HashV2
<1> QED BY <1>1, <1>2

LEMMA AgreeingStored == ASSUME SameTrades PROVE DOMAIN core \subseteq DOMAIN local
<1>1. DOMAIN core = DOMAIN Window(local)
  BY SameTuples DEF SameTrades
<1> QED BY <1>1 DEF Window

-----------------------------------------------------------------------------
(* A checksum and its explanation *)

\* Tables without a difference have the same checksums.
LEMMA AlikeMatch ==
    ASSUME NEW T, NEW S, NEW version \in {1, 2},
           MissingLocally(T, S) = {}, MissingRemotely(T, S) = {}, Mismatched(T, S) = {}
    PROVE  Matches(Checksums(S), Checksums(T), version)
<1>1. DOMAIN T = DOMAIN S
  BY DEF MissingLocally, MissingRemotely
<1>2. \A k \in DOMAIN T : T[k].terms = S[k].terms
  BY <1>1 DEF Mismatched, Agree
<1>3. HashV1(S) = HashV1(T) /\ Cardinality(DOMAIN S) = Cardinality(DOMAIN T)
  BY <1>1 DEF HashV1
<1>4. HashV2(S) = HashV2(T)
  BY <1>1, <1>2 DEF HashV2
<1> QED BY <1>3, <1>4 DEF Matches, Checksums

LEMMA NoDifference ==
    ASSUME NEW T, NEW S, ~ Divergent(Diff(T, S)), NEW version \in {1, 2}
    PROVE  Matches(Checksums(S), Checksums(T), version)
BY AlikeMatch DEF Divergent, Diff

-----------------------------------------------------------------------------
(* Types *)

\* A runner settles a trade that is stored.
HoldsStored == \A r \in Runners : pc[r] = "settle" => cur[r] \in DOMAIN local

Typed == TypeOK /\ HoldsStored

LEMMA TypedInit == Init => Typed
<1> SUFFICES ASSUME Init PROVE Typed
  OBVIOUS
<1>1. pulled \in [Runners -> Tables]
  BY NoTable DEF Init
<1>2. tally \in [Runners -> [moved : BOOLEAN, failed : BOOLEAN]]
  BY DEF Init, Fresh
<1>3. rec \in [matched : BOOLEAN, version : {1, 2}, done : BOOLEAN, present : BOOLEAN]
  BY DEF Init, NoRec
<1> QED BY <1>1, <1>2, <1>3 DEF Init, Typed, TypeOK, HoldsStored

Tally == [moved : BOOLEAN, failed : BOOLEAN]

LEMMA TallyType ==
    ASSUME NEW t \in [Runners -> Tally], NEW r \in Runners
    PROVE  [t EXCEPT ![r] = [moved |-> TRUE, failed |-> @.failed]] \in [Runners -> Tally]
<1>1. t[r] \in Tally
  OBVIOUS
<1>2. t[r].failed \in BOOLEAN
  BY <1>1, Zenon DEF Tally
<1>3. [moved |-> TRUE, failed |-> t[r].failed] \in Tally
  BY <1>2, Zenon DEF Tally
<1> QED BY <1>3

LEMMA FreshType == Fresh \in [moved : BOOLEAN, failed : BOOLEAN]
BY DEF Fresh

\* What a step can be, action by action.
LEMMA NextCases ==
    ASSUME [Next]_vars, NEW P,
           \A r \in Runners :
               /\ \A what \in {"check", "before", "diff"}, at \in {"local", "pull"} :
                      Start(r, what, at) => P
               /\ ReadLocal(r) => P
               /\ CompareAndRecord(r) => P
               /\ Pull(r) => P
               /\ Persist(r) => P
               /\ PersistFails(r) => P
               /\ SettleCur(r) => P
               /\ WalkDone(r) => P
               /\ ReadDiff(r) => P
               /\ GiveUp(r) => P,
           \A k \in Keys : (StreamStores(k) => P) /\ (StreamSettles(k) => P),
           CloseByHand => P,
           UNCHANGED vars => P
    PROVE  P
BY DEF Next, Reconcile, Repair

LEMMA TypedStep == Typed /\ [Next]_vars => Typed'
<1> SUFFICES ASSUME Typed, [Next]_vars PROVE Typed'
  OBVIOUS
<1> USE DEF Typed, TypeOK, HoldsStored
<1>1. ASSUME NEW r \in Runners, NEW what \in {"check", "before", "diff"},
             NEW at \in {"local", "pull"}, Start(r, what, at)
      PROVE Typed'
  BY <1>1 DEF Start, Goto, repair
<1>2. ASSUME NEW r \in Runners, ReadLocal(r) PROVE Typed'
  BY <1>2 DEF ReadLocal, Goto, repair
<1>3. ASSUME NEW r \in Runners, CompareAndRecord(r) PROVE Typed'
  <2>1. PICK version \in {1, 2} :
            LET matched == Matches(sums[r], Checksums(core), version)
            IN  /\ Upsert(matched, version)
                /\ \/ /\ job[r] = "check"
                      /\ Return(r, [kind |-> "check", matched |-> matched])
                   \/ /\ job[r] = "before" /\ matched
                      /\ Return(r, Repaired(TRUE, version, FALSE, FALSE))
                   \/ /\ job[r] = "before" /\ ~ matched
                      /\ Goto(r, "pull") /\ UNCHANGED <<job, tally, report>>
                   \/ /\ job[r] = "after"
                      /\ Return(r, Repaired(matched, version, tally[r].failed, TRUE))
    BY <1>3 DEF CompareAndRecord
  <2>2. Matches(sums[r], Checksums(core), version) \in BOOLEAN
    BY DEF Matches
  <2>3. rec' \in [matched : BOOLEAN, version : {1, 2}, done : BOOLEAN, present : BOOLEAN]
    BY <2>1, <2>2 DEF Upsert
  <2>4. pc' \in [Runners -> {"idle", "local", "remote", "pull", "walk", "settle", "read"}]
    BY <2>1 DEF Return, Goto
  <2>5. job' \in [Runners -> {"check", "before", "after", "diff"}]
    BY <2>1 DEF Return
  <2>6. tally' = [tally EXCEPT ![r] = Fresh] \/ tally' = tally
    BY <2>1 DEF Return
  <2>7. tally' \in [Runners -> [moved : BOOLEAN, failed : BOOLEAN]]
    BY <2>6, FreshType
  <2>8. HoldsStored'
    BY <1>3, <2>1 DEF CompareAndRecord, Return, Goto
  <2> QED BY <1>3, <2>3, <2>4, <2>5, <2>7, <2>8 DEF CompareAndRecord
<1>4. ASSUME NEW r \in Runners, Pull(r) PROVE Typed'
  BY <1>4 DEF Pull, Goto
<1>5. ASSUME NEW r \in Runners, Persist(r) PROVE Typed'
  <2>1. PICK k \in DOMAIN pulled[r] :
            /\ pulled' = [pulled EXCEPT ![r] = Without(@, k)]
            /\ \/ /\ k \notin DOMAIN local
                  /\ local' = With(local, k, pulled[r][k])
                  /\ tally' = [tally EXCEPT ![r] = [moved |-> TRUE, failed |-> @.failed]]
                  /\ cur' = [cur EXCEPT ![r] = k] /\ Goto(r, "settle")
               \/ /\ k \in DOMAIN local \ settled
                  /\ cur' = [cur EXCEPT ![r] = k] /\ Goto(r, "settle")
                  /\ UNCHANGED <<local, tally>>
               \/ /\ k \in settled
                  /\ UNCHANGED <<local, tally, cur, pc>>
    BY <1>5 DEF Persist, With
  <2>2. pulled[r] \in Tables /\ k \in Keys /\ pulled[r][k] \in Rows
    BY TableFacts
  <2>3. pulled' \in [Runners -> Tables]
    BY <2>1, <2>2, WithoutIsTable
  <2>4. local' \in Tables
    BY <2>1, <2>2, WithIsTable
  <2>5. settled' \subseteq DOMAIN local'
    BY <1>5, <2>1 DEF Persist, With
  <2>6. tally' \in [Runners -> Tally]
    <3>1. tally \in [Runners -> Tally]
      BY DEF Tally
    <3> QED BY <2>1, <3>1, TallyType
  <2>7. /\ pc' \in [Runners -> {"idle", "local", "remote", "pull", "walk", "settle", "read"}]
        /\ cur' \in [Runners -> Keys \cup {NoKey}]
    <3>1. \/ cur' = [cur EXCEPT ![r] = k] /\ pc' = [pc EXCEPT ![r] = "settle"]
          \/ UNCHANGED <<cur, pc>>
      BY <2>1, Zenon DEF Goto
    <3> QED BY <2>2, <3>1
  <2>8. HoldsStored'
    BY <2>1 DEF Goto, With
  <2>9. UNCHANGED <<core, settled, rec, job, sums, report>>
    BY <1>5 DEF Persist
  <2> QED BY <2>3, <2>4, <2>5, <2>6, <2>7, <2>8, <2>9 DEF Tally
<1>6. ASSUME NEW r \in Runners, PersistFails(r) PROVE Typed'
  <2>1. pulled' \in [Runners -> Tables]
    <3>1. PICK k \in DOMAIN pulled[r] : pulled' = [pulled EXCEPT ![r] = Without(@, k)]
      BY <1>6 DEF PersistFails
    <3> QED BY <3>1, WithoutIsTable
  <2>2. tally' \in [Runners -> [moved : BOOLEAN, failed : BOOLEAN]]
    BY <1>6 DEF PersistFails
  <2> QED BY <1>6, <2>1, <2>2 DEF PersistFails
<1>7. ASSUME NEW r \in Runners, SettleCur(r) PROVE Typed'
  <2>1. settled' \subseteq DOMAIN local
    BY <1>7 DEF SettleCur
  <2>2. tally' \in [Runners -> Tally]
    <3>1. tally \in [Runners -> Tally]
      BY DEF Tally
    <3> QED BY <1>7, <3>1, TallyType DEF SettleCur
  <2>3. /\ UNCHANGED <<core, local, rec, job, pulled>>
        /\ cur' = [cur EXCEPT ![r] = NoKey] /\ pc' = [pc EXCEPT ![r] = "walk"]
    BY <1>7 DEF SettleCur, Goto
  <2> QED BY <2>1, <2>2, <2>3 DEF Tally
<1>8. ASSUME NEW r \in Runners, WalkDone(r) PROVE Typed'
  <2>1. tally' \in [Runners -> [moved : BOOLEAN, failed : BOOLEAN]]
    BY <1>8, FreshType DEF WalkDone, Return
  <2>2. /\ UNCHANGED <<core, local, settled, rec, pulled, cur>>
        /\ \/ pc' = [pc EXCEPT ![r] = "local"] /\ job' = [job EXCEPT ![r] = "after"]
           \/ pc' = [pc EXCEPT ![r] = "idle"] /\ job' = [job EXCEPT ![r] = "check"]
    BY <1>8 DEF WalkDone, Return, Goto
  <2> QED BY <2>1, <2>2
<1>9. ASSUME NEW r \in Runners, ReadDiff(r) PROVE Typed'
  BY <1>9, NoTable, FreshType DEF ReadDiff, Return, Goto
<1>10. ASSUME NEW r \in Runners, GiveUp(r) PROVE Typed'
  BY <1>10, NoTable, FreshType DEF GiveUp, Return, Goto
<1>11. ASSUME NEW k \in Keys, StreamStores(k) PROVE Typed'
  <2>1. local' = With(local, k, core[k]) /\ k \in DOMAIN core
    BY <1>11 DEF StreamStores, With
  <2>2. local' \in Tables
    BY <2>1, TableFacts, WithIsTable
  <2> QED BY <1>11, <2>1, <2>2 DEF StreamStores, With, repair
<1>12. ASSUME NEW k \in Keys, StreamSettles(k) PROVE Typed'
  BY <1>12 DEF StreamSettles, repair
<1>13. CASE CloseByHand
  BY <1>13 DEF CloseByHand, repair
<1>14. CASE UNCHANGED vars
  BY <1>14 DEF vars, repair
<1> QED
  BY <1>1, <1>2, <1>3, <1>4, <1>5, <1>6, <1>7, <1>8, <1>9, <1>10, <1>11, <1>12,
     <1>13, <1>14, NextCases

\* Tables, the record of the hour and the tallies of the runners are of their
\* types, and no row is settled that is not stored.
THEOREM TypeCorrect == Spec => []TypeOK
<1>1. Typed => TypeOK
  BY DEF Typed
<1> QED BY <1>1, TypedInit, TypedStep, PTL DEF Spec

-----------------------------------------------------------------------------
(* What a match is worth *)

\* What a runner pulled is the Core's.
PulledIsCore ==
    \A r \in Runners : \A k \in DOMAIN pulled[r] :
        k \in DOMAIN core /\ pulled[r][k] = core[k]

\* A checksum that is the Core's, read some time ago, is still that of the hour.
Sure ==
    \A r \in Runners :
        pc[r] = "remote" /\ sums[r].v2 = HashV2(core) => SameTrades

\* Every runner has a place for its checksums and its report.
Places == DOMAIN sums = Runners /\ DOMAIN report = Runners

Sound == Places /\ PulledIsCore /\ Sure /\ MatchedHourAgrees /\ ResolvedHourAgrees

\* Rows are only ever added, each the Core's.
LEMMA LocalGrows ==
    ASSUME Typed, PulledIsCore, [Next]_vars
    PROVE  /\ core' = core
           /\ \/ local' = local
              \/ \E k \in DOMAIN core \ DOMAIN local : local' = With(local, k, core[k])
<1> DEFINE P == /\ core' = core
                /\ \/ local' = local
                   \/ \E k \in DOMAIN core \ DOMAIN local : local' = With(local, k, core[k])
<1>1. ASSUME NEW r \in Runners
      PROVE  /\ \A what \in {"check", "before", "diff"}, at \in {"local", "pull"} :
                     Start(r, what, at) => P
             /\ \/ ReadLocal(r) \/ CompareAndRecord(r) \/ Pull(r) \/ PersistFails(r)
                \/ SettleCur(r) \/ WalkDone(r) \/ ReadDiff(r) \/ GiveUp(r)
                => P
  BY DEF Start, ReadLocal, CompareAndRecord, Pull, PersistFails, SettleCur, WalkDone,
         ReadDiff, GiveUp
<1>2. ASSUME NEW r \in Runners, Persist(r) PROVE P
  <2>1. core' = core
    BY <1>2 DEF Persist
  <2>2. PICK k \in DOMAIN pulled[r] :
            local' = local \/ (k \notin DOMAIN local /\ local' = With(local, k, pulled[r][k]))
    BY <1>2 DEF Persist, With
  <2>3. k \in DOMAIN core /\ pulled[r][k] = core[k]
    BY DEF PulledIsCore
  <2> QED BY <2>1, <2>2, <2>3
<1>3. ASSUME NEW k \in Keys PROVE (StreamStores(k) => P) /\ (StreamSettles(k) => P)
  BY DEF StreamStores, StreamSettles, With
<1>4. CloseByHand => P
  BY DEF CloseByHand
<1>5. UNCHANGED vars => P
  BY DEF vars
<1> HIDE DEF P
<1>6. P
  BY <1>1, <1>2, <1>3, <1>4, <1>5, NextCases
<1> QED BY <1>6 DEF P

\* Once an hour agrees, it agrees for good.
LEMMA AgreementStays ==
    ASSUME Typed, PulledIsCore, [Next]_vars
    PROVE  core' = core /\ (SameTrades => local' = local /\ SameTrades')
<1>1. SameTrades => local' = local
  BY LocalGrows, AgreeingStored
<1>2. core' = core
  BY LocalGrows
<1> QED BY <1>1, <1>2 DEF SameTrades, Window

LEMMA SoundInit == Init => Sound
<1> SUFFICES ASSUME Init PROVE Sound
  OBVIOUS
<1>1. PulledIsCore
  BY NoTable DEF Init, PulledIsCore
<1>2. Sure
  BY DEF Init, Sure
<1>3. MatchedHourAgrees
  BY DEF Init, MatchedHourAgrees, NoRec
<1>4. ResolvedHourAgrees
  BY DEF Init, ResolvedHourAgrees, NoReport
<1> QED BY <1>1, <1>2, <1>3, <1>4 DEF Sound, Places, Init

LEMMA PulledStep ==
    ASSUME Typed, PulledIsCore, [Next]_vars
    PROVE  PulledIsCore'
<1> USE DEF PulledIsCore
<1>0. pulled \in [Runners -> Tables] /\ core' = core
  BY LocalGrows DEF Typed, TypeOK
<1>1. ASSUME NEW r \in Runners, pulled' = [pulled EXCEPT ![r] = core] PROVE PulledIsCore'
  BY <1>0, <1>1
<1>2. ASSUME NEW r \in Runners, pulled' = [pulled EXCEPT ![r] = <<>>] PROVE PulledIsCore'
  BY <1>0, <1>2, NoTable
<1>3. ASSUME NEW r \in Runners, NEW k, pulled' = [pulled EXCEPT ![r] = Without(@, k)]
      PROVE  PulledIsCore'
  <2>1. /\ DOMAIN Without(pulled[r], k) \subseteq DOMAIN pulled[r]
        /\ \A j \in DOMAIN Without(pulled[r], k) : Without(pulled[r], k)[j] = pulled[r][j]
    <3>1. pulled[r] \in Tables
      BY <1>0
    <3>2. /\ DOMAIN Without(pulled[r], k) = DOMAIN pulled[r] \ {k}
          /\ \A j \in DOMAIN Without(pulled[r], k) : Without(pulled[r], k)[j] = pulled[r][j]
      BY <3>1, WithoutIsTable
    <3> QED BY <3>2
  <2> QED BY <1>0, <1>3, <2>1
<1>4. CASE pulled' = pulled
  BY <1>0, <1>4
<1>5. ASSUME NEW r \in Runners
      PROVE  /\ \A what \in {"check", "before", "diff"}, at \in {"local", "pull"} :
                     Start(r, what, at) => PulledIsCore'
             /\ ReadLocal(r) => PulledIsCore'
             /\ CompareAndRecord(r) => PulledIsCore'
             /\ SettleCur(r) => PulledIsCore'
             /\ WalkDone(r) => PulledIsCore'
  BY <1>4, Zenon DEF Start, ReadLocal, CompareAndRecord, SettleCur, WalkDone, repair
<1>6. ASSUME NEW r \in Runners
      PROVE  /\ Pull(r) => PulledIsCore'
             /\ Persist(r) => PulledIsCore'
             /\ PersistFails(r) => PulledIsCore'
             /\ ReadDiff(r) => PulledIsCore'
             /\ GiveUp(r) => PulledIsCore'
  BY <1>1, <1>2, <1>3, Zenon DEF Pull, Persist, PersistFails, ReadDiff, GiveUp
<1>7. ASSUME NEW k \in Keys
      PROVE  (StreamStores(k) => PulledIsCore') /\ (StreamSettles(k) => PulledIsCore')
  BY <1>4, Zenon DEF StreamStores, StreamSettles, repair
<1>8. CloseByHand => PulledIsCore'
  BY <1>4, Zenon DEF CloseByHand, repair
<1>9. UNCHANGED vars => PulledIsCore'
  BY <1>4, Zenon DEF vars, repair
<1> HIDE DEF PulledIsCore
<1> QED BY <1>5, <1>6, <1>7, <1>8, <1>9, NextCases, Zenon
LEMMA PlacesStep == ASSUME Places, [Next]_vars PROVE Places'
<1> USE DEF Places
<1>1. ASSUME NEW r \in Runners
      PROVE  /\ \A what \in {"check", "before", "diff"}, at \in {"local", "pull"} :
                     Start(r, what, at) => Places'
             /\ ReadLocal(r) => Places'
             /\ Pull(r) => Places'
             /\ Persist(r) => Places'
             /\ PersistFails(r) => Places'
             /\ SettleCur(r) => Places'
  BY DEF Start, ReadLocal, Pull, Persist, PersistFails, SettleCur
<1>2. ASSUME NEW r \in Runners, CompareAndRecord(r) PROVE Places'
  <2>1. DOMAIN sums' = DOMAIN sums
    BY <1>2 DEF CompareAndRecord
  <2>2. DOMAIN report' = DOMAIN report
    BY <1>2 DEF CompareAndRecord, Return
  <2> QED BY <2>1, <2>2
<1>3. ASSUME NEW r \in Runners
      PROVE  (WalkDone(r) => Places') /\ (ReadDiff(r) => Places') /\ (GiveUp(r) => Places')
  BY DEF WalkDone, ReadDiff, GiveUp, Return
<1>4. ASSUME NEW k \in Keys
      PROVE  (StreamStores(k) => Places') /\ (StreamSettles(k) => Places')
  BY DEF StreamStores, StreamSettles
<1>5. (CloseByHand => Places') /\ (UNCHANGED vars => Places')
  BY DEF CloseByHand, vars
<1> HIDE DEF Places
<1> QED BY <1>1, <1>2, <1>3, <1>4, <1>5, NextCases

LEMMA SoundStep == Typed /\ Sound /\ [Next]_vars => Sound'
<1> SUFFICES ASSUME Typed, Sound, [Next]_vars PROVE Sound'
  OBVIOUS
<1>1. PulledIsCore' /\ Places'
  BY PulledStep, PlacesStep DEF Sound
<1>2. core' = core /\ (SameTrades => SameTrades')
  BY AgreementStays DEF Sound
<1> DEFINE Rest == Sure' /\ MatchedHourAgrees' /\ ResolvedHourAgrees'
<1>t. /\ pc = [r \in Runners |-> pc[r]] /\ DOMAIN pc = Runners
      /\ DOMAIN sums = Runners /\ DOMAIN report = Runners
  BY DEF Sound, Places, Typed, TypeOK
<1> USE DEF Sound, Sure, MatchedHourAgrees, ResolvedHourAgrees
<1>3. ASSUME NEW r \in Runners, NEW what \in {"check", "before", "diff"},
             NEW at \in {"local", "pull"}, Start(r, what, at)
      PROVE Rest
  BY <1>2, <1>3, <1>t DEF Start, Goto, NoReport
<1>4. ASSUME NEW r \in Runners, ReadLocal(r) PROVE Rest
  <2>1. Sure'
    <3> SUFFICES ASSUME NEW s \in Runners, pc'[s] = "remote", sums'[s].v2 = HashV2(core)
                 PROVE  SameTrades'
      BY <1>2
    <3>1. CASE s = r
      BY <1>2, <1>4, <1>t, <3>1 DEF ReadLocal, SameTrades, Checksums
    <3>2. CASE s # r
      BY <1>2, <1>4, <1>t, <3>2 DEF ReadLocal, Goto
    <3> QED BY <3>1, <3>2
  <2>2. MatchedHourAgrees' /\ ResolvedHourAgrees'
    BY <1>2, <1>4 DEF ReadLocal
  <2> QED BY <2>1, <2>2
<1>5. ASSUME NEW r \in Runners, CompareAndRecord(r) PROVE Rest
  <2>1. PICK version \in {1, 2} :
            /\ Upsert(Matches(sums[r], Checksums(core), version), version)
            /\ \/ report' = [report EXCEPT ![r] =
                     [kind |-> "check", matched |-> Matches(sums[r], Checksums(core), version)]]
               \/ /\ Matches(sums[r], Checksums(core), version)
                  /\ report' = [report EXCEPT ![r] = Repaired(TRUE, version, FALSE, FALSE)]
               \/ report' = report
               \/ report' = [report EXCEPT ![r] =
                     Repaired(Matches(sums[r], Checksums(core), version), version, tally[r].failed, TRUE)]
            /\ pc' = [pc EXCEPT ![r] = "idle"] \/ pc' = [pc EXCEPT ![r] = "pull"]
    BY <1>5 DEF CompareAndRecord, Return, Goto
  <2>2. Matches(sums[r], Checksums(core), 2) => SameTrades
    BY <1>5 DEF CompareAndRecord, Matches, Checksums
  <2>3. Sure'
    <3> SUFFICES ASSUME NEW s \in Runners, pc'[s] = "remote", sums'[s].v2 = HashV2(core)
                 PROVE  SameTrades'
      BY <1>2
    <3>1. s # r /\ pc[s] = "remote"
      BY <1>t, <2>1
    <3>2. sums'[s] = sums[s]
      BY <1>5, <1>t, <3>1 DEF CompareAndRecord
    <3> QED BY <1>2, <3>1, <3>2
  <2>4. MatchedHourAgrees'
    BY <1>2, <2>1, <2>2 DEF Upsert
  <2>5. ResolvedHourAgrees'
    <3> SUFFICES ASSUME NEW s \in Runners, report'[s].kind = "repair",
                        report'[s].resolved, report'[s].version = 2
                 PROVE  SameTrades'
      OBVIOUS
    <3>1. CASE report'[s] = report[s]
      BY <1>2, <3>1
    <3>2. CASE report'[s] # report[s]
      <4>1. s = r
        BY <1>t, <2>1, <3>2
      <4>2. report'[r] = [kind |-> "check", matched |-> Matches(sums[r], Checksums(core), version)]
            => FALSE
        BY <4>1
      <4>3. \/ /\ Matches(sums[r], Checksums(core), version)
               /\ report'[r] = Repaired(TRUE, version, FALSE, FALSE)
            \/ report'[r] = Repaired(Matches(sums[r], Checksums(core), version), version,
                                     tally[r].failed, TRUE)
        BY <1>t, <2>1, <3>2, <4>1, <4>2
      <4>4. version = 2 /\ Matches(sums[r], Checksums(core), version)
        BY <4>1, <4>3 DEF Repaired
      <4> QED BY <1>2, <2>2, <4>4
    <3> QED BY <3>1, <3>2
  <2> QED BY <2>3, <2>4, <2>5
<1>6. ASSUME NEW r \in Runners, Pull(r) \/ Persist(r) \/ PersistFails(r) \/ SettleCur(r)
      PROVE  Rest
  <2>1. UNCHANGED <<rec, sums, report>>
    BY <1>6 DEF Pull, Persist, PersistFails, SettleCur
  <2>2. \A s \in Runners : pc'[s] = "remote" => pc[s] = "remote"
    BY <1>6, <1>t DEF Pull, Persist, PersistFails, SettleCur, Goto
  <2> QED BY <1>2, <2>1, <2>2
<1>7. ASSUME NEW r \in Runners, WalkDone(r) PROVE Rest
  <2>1. UNCHANGED <<rec, sums>>
    BY <1>7 DEF WalkDone
  <2>2. report' = report \/ report' = [report EXCEPT ![r] = Repaired(FALSE, 1, tally[r].failed, FALSE)]
    BY <1>7 DEF WalkDone, Return
  <2>3. \A s \in Runners : pc'[s] = "remote" => pc[s] = "remote"
    BY <1>7, <1>t DEF WalkDone, Return, Goto
  <2> QED BY <1>2, <1>t, <2>1, <2>2, <2>3 DEF Repaired
<1>8. ASSUME NEW r \in Runners, ReadDiff(r) PROVE Rest
  <2>1. UNCHANGED <<rec, sums>>
    BY <1>8 DEF ReadDiff
  <2>2. \E d : report' = [report EXCEPT ![r] = [kind |-> "diff", diff |-> d]]
    BY <1>8 DEF ReadDiff, Return
  <2>3. \A s \in Runners : pc'[s] = "remote" => pc[s] = "remote"
    BY <1>8, <1>t DEF ReadDiff, Return, Goto
  <2> QED BY <1>2, <1>t, <2>1, <2>2, <2>3
<1>9. ASSUME NEW r \in Runners, GiveUp(r) PROVE Rest
  <2>1. rec' = rec /\ report' = [report EXCEPT ![r] = NoReport]
    BY <1>9 DEF GiveUp, Return
  <2>2. \A s \in Runners : pc'[s] = "remote" => pc[s] = "remote" /\ sums'[s] = sums[s]
    BY <1>9, <1>t DEF GiveUp, Return, Goto
  <2> QED BY <1>2, <1>t, <2>1, <2>2 DEF NoReport
<1>10. ASSUME NEW k \in Keys, StreamStores(k) \/ StreamSettles(k) PROVE Rest
  <2>1. UNCHANGED <<rec, pc, sums, report>>
    BY <1>10 DEF StreamStores, StreamSettles
  <2> QED BY <1>2, <2>1
<1>11. ASSUME CloseByHand PROVE Rest
  <2>1. rec'.matched = rec.matched /\ rec'.version = rec.version
    BY <1>11 DEF CloseByHand, Typed, TypeOK
  <2>2. UNCHANGED <<pc, sums, report>>
    BY <1>11 DEF CloseByHand
  <2> QED BY <1>2, <2>1, <2>2
<1>12. ASSUME UNCHANGED vars PROVE Rest
  <2>1. UNCHANGED <<rec, pc, sums, report>>
    BY <1>12 DEF vars
  <2> QED BY <1>2, <2>1
<1> HIDE DEF Rest
<1>13. Rest
  <2>1. ASSUME NEW r \in Runners
        PROVE  /\ \A what \in {"check", "before", "diff"}, at \in {"local", "pull"} :
                       Start(r, what, at) => Rest
               /\ ReadLocal(r) => Rest
               /\ CompareAndRecord(r) => Rest
               /\ Pull(r) => Rest
               /\ Persist(r) => Rest
               /\ PersistFails(r) => Rest
               /\ SettleCur(r) => Rest
               /\ WalkDone(r) => Rest
               /\ ReadDiff(r) => Rest
               /\ GiveUp(r) => Rest
    BY <1>3, <1>4, <1>5, <1>6, <1>7, <1>8, <1>9, Zenon
  <2>2. ASSUME NEW k \in Keys PROVE (StreamStores(k) => Rest) /\ (StreamSettles(k) => Rest)
    BY <1>10, Zenon
  <2> QED BY <1>11, <1>12, <2>1, <2>2, NextCases, Zenon
<1> QED BY <1>1, <1>13 DEF Rest

LEMMA AlwaysSound == Spec => [](Typed /\ Sound)
<1> QED BY TypedInit, TypedStep, SoundInit, SoundStep, PTL DEF Spec

\* An hour recorded as matched by whole tuples is one on which the two sides
\* agree, whatever runners and the stream did between the reading of the two
\* checksums (reconcile.go:46-60).
THEOREM MatchesAreTrue == Spec => []MatchedHourAgrees
<1>1. Typed /\ Sound => MatchedHourAgrees
  BY DEF Sound
<1> QED BY <1>1, AlwaysSound, PTL

\* So is one a repair reports as resolved (types.go:516-524).
THEOREM ResolutionsAreTrue == Spec => []ResolvedHourAgrees
<1>1. Typed /\ Sound => ResolvedHourAgrees
  BY DEF Sound
<1> QED BY <1>1, AlwaysSound, PTL

\* Whoever writes the row of the hour last, done stays done
\* (reconcile.go:73-76).
THEOREM HoursStayDone == Spec => DoneStays
<1>1. TypeOK /\ [Next]_vars => [rec.done => rec'.done]_vars
  <2> SUFFICES ASSUME TypeOK, [Next]_vars, rec.done PROVE rec'.done \/ UNCHANGED vars
    OBVIOUS
  <2>1. ASSUME NEW r \in Runners, CompareAndRecord(r) PROVE rec'.done
    <3>1. PICK version \in {1, 2} :
              Upsert(Matches(sums[r], Checksums(core), version), version)
      BY <2>1 DEF CompareAndRecord
    <3>2. rec'.done = (rec.done \/ Matches(sums[r], Checksums(core), version))
      BY <3>1 DEF Upsert
    <3> QED BY <3>2, Zenon
  <2>2. CASE CloseByHand
    BY <2>2 DEF CloseByHand, TypeOK
  <2>3. CASE rec' = rec
    BY <2>3
  <2>4. ASSUME NEW r \in Runners
        PROVE  /\ \A what \in {"check", "before", "diff"}, at \in {"local", "pull"} :
                       Start(r, what, at) => rec' = rec
               /\ \/ ReadLocal(r) \/ Pull(r) \/ Persist(r) \/ PersistFails(r)
                  \/ SettleCur(r) \/ WalkDone(r) \/ ReadDiff(r) \/ GiveUp(r)
                  => rec' = rec
    BY DEF Start, ReadLocal, Pull, Persist, PersistFails, SettleCur, WalkDone, ReadDiff, GiveUp
  <2>5. ASSUME NEW k \in Keys PROVE (StreamStores(k) => rec' = rec) /\ (StreamSettles(k) => rec' = rec)
    BY DEF StreamStores, StreamSettles
  <2>6. UNCHANGED vars => rec' = rec
    BY DEF vars
  <2> QED BY <2>1, <2>2, <2>3, <2>4, <2>5, <2>6, NextCases
<1> QED BY <1>1, TypeCorrect, PTL DEF Spec, DoneStays
-----------------------------------------------------------------------------
(* How an hour changes *)

Differs ==
    \/ MissingLocally(core, Window(local)) # {}
    \/ MissingRemotely(core, Window(local)) # {}
    \/ Mismatched(core, Window(local)) # {}

LEMMA OnlyUnfixable ==
    ASSUME Differs, DOMAIN core \subseteq DOMAIN local
    PROVE  Unfixable
<1>1. \A k \in MissingLocally(core, Window(local)) :
          k \in DOMAIN core \cap DOMAIN local /\ ~ local[k].timed
  BY DEF MissingLocally, Window
<1> QED BY <1>1 DEF Differs, Unfixable

LEMMA MismatchDiffers ==
    ASSUME NEW version \in {1, 2},
           ~ Matches(Checksums(Window(local)), Checksums(core), version)
    PROVE  Differs
<1>1. Divergent(Diff(core, Window(local)))
  BY NoDifference
<1> QED BY <1>1 DEF Divergent, Diff, Differs

\* An hour the Core's trades of which are all stored agrees with the Core, but
\* for what cannot be fixed.
LEMMA AllStored ==
    ASSUME DOMAIN core \subseteq DOMAIN local, ~ Unfixable
    PROVE  /\ SameTrades
           /\ \A version \in {1, 2} : Matches(Checksums(Window(local)), Checksums(core), version)
<1>1. \A version \in {1, 2} : Matches(Checksums(Window(local)), Checksums(core), version)
  BY OnlyUnfixable, MismatchDiffers
<1>2. Matches(Checksums(Window(local)), Checksums(core), 2)
  BY <1>1
<1>3. SameTrades
  BY <1>2 DEF Matches, Checksums, SameTrades
<1> QED BY <1>1, <1>3

\* Storing a trade of the Core changes nothing of what only the database has
\* and of what the two hold differently.
LEMMA OneMoreStored ==
    ASSUME NEW L \in Tables, NEW C \in Tables, NEW k \in DOMAIN C, k \notin DOMAIN L
    PROVE  LET M == With(L, k, C[k])
           IN  /\ MissingRemotely(C, Window(M)) = MissingRemotely(C, Window(L))
               /\ Mismatched(C, Window(M)) = Mismatched(C, Window(L))
               /\ DOMAIN M = DOMAIN L \cup {k}
               /\ \A j \in DOMAIN L : M[j] = L[j]
               /\ DOMAIN Window(L) \subseteq DOMAIN Window(M)
               /\ DOMAIN Window(M) \subseteq DOMAIN Window(L) \cup {k}
<1> DEFINE M == With(L, k, C[k])
<1>1. /\ DOMAIN M = DOMAIN L \cup {k} /\ M[k] = C[k]
      /\ \A j \in DOMAIN L : M[j] = L[j]
  BY DEF With
<1> HIDE DEF M
<1>2. /\ \A j : j \in DOMAIN Window(M) <=> j \in DOMAIN M /\ M[j].timed
      /\ \A j : j \in DOMAIN Window(L) <=> j \in DOMAIN L /\ L[j].timed
      /\ \A j \in DOMAIN Window(M) : Window(M)[j] = M[j]
      /\ \A j \in DOMAIN Window(L) : Window(L)[j] = L[j]
  BY DEF Window
<1>3. /\ \A j \in DOMAIN Window(L) : j \in DOMAIN Window(M) /\ Window(M)[j] = Window(L)[j]
      /\ \A j \in DOMAIN Window(M) : j \in DOMAIN Window(L) \/ (j = k /\ Window(M)[j] = C[k])
  BY <1>1, <1>2
<1>4. MissingRemotely(C, Window(M)) = MissingRemotely(C, Window(L))
  BY <1>3 DEF MissingRemotely
<1>5. Agree(C[k], C[k])
  BY DEF Agree
<1>6. Mismatched(C, Window(M)) = Mismatched(C, Window(L))
  <2> HIDE DEF Agree
  <2>1. \A j \in DOMAIN C : j \in Mismatched(C, Window(M)) <=> j \in Mismatched(C, Window(L))
    BY <1>3, <1>5 DEF Mismatched
  <2> QED BY <2>1 DEF Mismatched
<1> QED BY <1>1, <1>3, <1>4, <1>6 DEF M

LEMMA HourGrows ==
    ASSUME Typed, PulledIsCore, [Next]_vars
    PROVE  /\ core' = core
           /\ MissingRemotely(core, Window(local))' = MissingRemotely(core, Window(local))
           /\ Mismatched(core, Window(local))' = Mismatched(core, Window(local))
           /\ DOMAIN local \subseteq DOMAIN local'
           /\ DOMAIN Window(local) \subseteq DOMAIN Window(local)'
           /\ \A j \in DOMAIN Window(local)' : j \in DOMAIN Window(local) \/ j \notin DOMAIN local
           /\ Unfixable => Unfixable'
<1>1. core' = core /\ core \in Tables /\ local \in Tables
  BY LocalGrows DEF Typed, TypeOK
<1>2. CASE local' = local
  BY <1>1, <1>2 DEF Unfixable, Window, MissingRemotely, Mismatched
<1>3. CASE \E k \in DOMAIN core \ DOMAIN local : local' = With(local, k, core[k])
  <2>1. PICK k \in DOMAIN core \ DOMAIN local : local' = With(local, k, core[k])
    BY <1>3
  <2>2. /\ MissingRemotely(core, Window(local')) = MissingRemotely(core, Window(local))
        /\ Mismatched(core, Window(local')) = Mismatched(core, Window(local))
        /\ DOMAIN local' = DOMAIN local \cup {k}
        /\ \A j \in DOMAIN local : local'[j] = local[j]
        /\ DOMAIN Window(local) \subseteq DOMAIN Window(local')
        /\ DOMAIN Window(local') \subseteq DOMAIN Window(local) \cup {k}
    BY <1>1, <2>1, OneMoreStored
  <2>3. /\ MissingRemotely(core, Window(local))' = MissingRemotely(core', Window(local'))
        /\ Mismatched(core, Window(local))' = Mismatched(core', Window(local'))
    OBVIOUS
  <2> QED BY <1>1, <2>1, <2>2, <2>3 DEF Unfixable
<1> QED BY <1>2, <1>3, LocalGrows

\* A settled trade stays settled.
LEMMA SettledGrows == ASSUME [Next]_vars PROVE settled \subseteq settled'
<1> DEFINE P == settled \subseteq settled'
<1>1. ASSUME NEW r \in Runners
      PROVE  /\ \A what \in {"check", "before", "diff"}, at \in {"local", "pull"} :
                     Start(r, what, at) => P
             /\ \/ ReadLocal(r) \/ CompareAndRecord(r) \/ Pull(r) \/ Persist(r)
                \/ PersistFails(r) \/ WalkDone(r) \/ ReadDiff(r) \/ GiveUp(r)
                => P
             /\ SettleCur(r) => P
  BY DEF Start, ReadLocal, CompareAndRecord, Pull, Persist, PersistFails, WalkDone, ReadDiff,
         GiveUp, SettleCur
<1>2. ASSUME NEW k \in Keys PROVE (StreamStores(k) => P) /\ (StreamSettles(k) => P)
  BY DEF StreamStores, StreamSettles
<1>3. (CloseByHand => P) /\ (UNCHANGED vars => P)
  BY DEF CloseByHand, vars
<1> HIDE DEF P
<1>4. P
  BY <1>1, <1>2, <1>3, NextCases
<1> QED BY <1>4 DEF P

-----------------------------------------------------------------------------
(* What a repair leaves and what a diff says, whoever else is at work *)

\* The whole of what the Core has is stored, or waits in pulled, or a
\* persistTrade failed.
StoredAll(r, rest) == tally[r].failed \/ DOMAIN core \subseteq DOMAIN local \cup rest

\* What runner r knows of the hour, whoever else is at work on it.
Kept(r) ==
    /\ pc[r] = "read" => pulled[r] = core
    /\ pc[r] \in {"walk", "settle"} => StoredAll(r, DOMAIN pulled[r])
    /\ job[r] = "after" => pc[r] \in {"local", "remote"} /\ StoredAll(r, {})
    /\ job[r] = "after" /\ pc[r] = "remote" /\ ~ tally[r].failed =>
          Unfixable \/ \A version \in {1, 2} : Matches(sums[r], Checksums(core), version)
    /\ Unresolved(report[r]) => Unfixable \/ (~ report[r].rechecked /\ SameTrades)
    /\ \A said : report[r].kind = "diff" /\ said = report[r].diff => TrueOfTheHour(said)

LEMMA KeptInit == ASSUME Init, NEW r \in Runners PROVE Kept(r)
BY DEF Init, Kept, NoReport, Unresolved

LEMMA DiffMade == TrueOfTheHour(Diff(core, Window(local)))
<1> DEFINE said == Diff(core, Window(local))
<1>1. Divergent(said) \/ \A version \in {1, 2} :
          Matches(Checksums(Window(local)), Checksums(core), version)
  BY NoDifference
<1>2. /\ said.missingRemotely = MissingRemotely(core, Window(local))
      /\ said.mismatched = Mismatched(core, Window(local))
      /\ said.missingLocally = MissingLocally(core, Window(local))
      /\ said.unsettled = (DOMAIN core \cap DOMAIN Window(local)) \ settled
  BY DEF Diff
<1> HIDE DEF said
<1>3. TrueOfTheHour(said)
  BY <1>1, <1>2 DEF TrueOfTheHour
<1> QED BY <1>3 DEF said

LEMMA DiffStays ==
    ASSUME Typed, PulledIsCore, [Next]_vars, NEW said, TrueOfTheHour(said)
    PROVE  TrueOfTheHour(said)'
<1>1. /\ core' = core
      /\ MissingRemotely(core, Window(local))' = MissingRemotely(core, Window(local))
      /\ Mismatched(core, Window(local))' = Mismatched(core, Window(local))
      /\ DOMAIN Window(local) \subseteq DOMAIN Window(local)'
      /\ \A j \in DOMAIN Window(local)' : j \in DOMAIN Window(local) \/ j \notin DOMAIN local
      /\ settled \subseteq settled'
  BY HourGrows, SettledGrows
<1>2. DOMAIN Window(local) \subseteq DOMAIN local
  BY DEF Window
<1>3. /\ said.missingRemotely = MissingRemotely(core, Window(local))
      /\ said.mismatched = Mismatched(core, Window(local))
      /\ MissingLocally(core, Window(local)) \subseteq said.missingLocally
      /\ (DOMAIN core \cap DOMAIN Window(local)) \ settled
            \subseteq said.unsettled \cup said.missingLocally
  BY DEF TrueOfTheHour
<1>4. MissingLocally(core, Window(local))' \subseteq said.missingLocally
  BY <1>1, <1>3 DEF MissingLocally
<1>5. (DOMAIN core' \cap DOMAIN Window(local)') \ settled'
         \subseteq said.unsettled \cup said.missingLocally
  <2> SUFFICES ASSUME NEW j \in DOMAIN core, j \in DOMAIN Window(local)', j \notin settled
               PROVE  j \in said.unsettled \cup said.missingLocally
    BY <1>1
  <2>1. CASE j \in DOMAIN Window(local)
    BY <1>3, <2>1
  <2>2. CASE j \notin DOMAIN Window(local)
    BY <1>3, <2>2 DEF MissingLocally
  <2> QED BY <2>1, <2>2
<1>6. ASSUME ~ Divergent(said), NEW version \in {1, 2}
      PROVE  Matches(Checksums(Window(local)), Checksums(core), version)'
  <2>1. said.missingLocally = {} /\ said.missingRemotely = {} /\ said.mismatched = {}
    BY <1>6 DEF Divergent
  <2>2. /\ MissingLocally(core, Window(local))' = {} /\ MissingRemotely(core, Window(local))' = {}
        /\ Mismatched(core, Window(local))' = {}
    BY <1>1, <1>3, <1>4, <2>1
  <2>3. Matches(Checksums(Window(local')), Checksums(core'), version)
    BY <2>2, AlikeMatch
  <2> QED BY <2>3
<1> QED BY <1>1, <1>3, <1>4, <1>5, <1>6 DEF TrueOfTheHour

LEMMA KeptStep ==
    ASSUME Typed, Sound, \A s \in Runners : Kept(s), [Next]_vars, NEW s \in Runners
    PROVE  Kept(s)'
<1> DEFINE K == Kept(s)'
<1>k. Kept(s)
  OBVIOUS
<1>t. /\ DOMAIN pc = Runners /\ DOMAIN job = Runners /\ DOMAIN pulled = Runners
      /\ DOMAIN tally = Runners /\ DOMAIN sums = Runners /\ DOMAIN report = Runners
  BY DEF Sound, Places, Typed, TypeOK
<1>g. /\ core' = core /\ DOMAIN local \subseteq DOMAIN local'
      /\ Unfixable => Unfixable'
      /\ SameTrades => SameTrades'
      /\ \A said : TrueOfTheHour(said) => TrueOfTheHour(said)'
  BY HourGrows, AgreementStays, DiffStays DEF Sound
\* What a step of others leaves of what runner s knows.
<1>r. /\ Unresolved(report[s]) => Unfixable' \/ (~ report[s].rechecked /\ SameTrades')
      /\ \A said : report[s].kind = "diff" /\ said = report[s].diff => TrueOfTheHour(said)'
  BY <1>k, <1>g DEF Kept
<1>o. ASSUME pc'[s] = pc[s], job'[s] = job[s], tally'[s] = tally[s], sums'[s] = sums[s],
             pulled'[s] = pulled[s], report'[s] = report[s]
      PROVE  K
  BY <1>o, <1>k, <1>g, <1>r DEF Kept, StoredAll, Unresolved
<1>e. /\ ~ Unresolved(NoReport) /\ NoReport.kind # "diff"
  BY DEF NoReport, Unresolved
\* A call that returned knows no more than what it reports.
<1>n. ASSUME NEW result, Return(s, result),
             Unresolved(result) => Unfixable' \/ (~ result.rechecked /\ SameTrades'),
             \A said : result.kind = "diff" /\ said = result.diff => TrueOfTheHour(said)'
      PROVE  K
  <2>1. pc'[s] = "idle" /\ job'[s] = "check" /\ report'[s] = result
    BY <1>n, <1>t DEF Return, Goto
  <2> QED BY <1>n, <2>1 DEF Kept, Unresolved
<1>1. ASSUME NEW r \in Runners, NEW what \in {"check", "before", "diff"},
             NEW at \in {"local", "pull"}, Start(r, what, at)
      PROVE K
  <2>1. CASE r = s
    BY <1>1, <1>t, <1>e, <2>1 DEF Start, Goto, Kept
  <2>2. CASE r # s
    BY <1>1, <1>o, <1>t, <2>2 DEF Start, Goto, repair
  <2> QED BY <2>1, <2>2
<1>2. ASSUME NEW r \in Runners, ReadLocal(r) PROVE K
  <2>1. CASE r = s
    <3>1. /\ UNCHANGED <<core, local, job, tally, pulled, report>>
          /\ pc[s] = "local" /\ pc'[s] = "remote" /\ sums'[s] = Checksums(Window(local))
      BY <1>2, <1>t, <2>1 DEF ReadLocal, Goto, repair
    <3>2. ASSUME job[s] = "after", ~ tally[s].failed, ~ Unfixable
          PROVE  \A version \in {1, 2} : Matches(sums'[s], Checksums(core), version)
      <4>1. DOMAIN core \subseteq DOMAIN local
        BY <1>k, <3>2 DEF Kept, StoredAll
      <4> QED BY <3>1, <3>2, <4>1, AllStored
    <3>3. ASSUME job'[s] = "after", ~ tally'[s].failed
          PROVE  Unfixable' \/ \A version \in {1, 2} : Matches(sums'[s], Checksums(core'), version)
      BY <1>g, <3>1, <3>2, <3>3
    <3> QED BY <1>k, <1>g, <1>r, <3>1, <3>3 DEF Kept, StoredAll, Unresolved
  <2>2. CASE r # s
    BY <1>2, <1>o, <1>t, <2>2 DEF ReadLocal, Goto, repair
  <2> QED BY <2>1, <2>2
<1>3. ASSUME NEW r \in Runners, CompareAndRecord(r) PROVE K
  <2>0. /\ UNCHANGED <<core, local, settled, pulled, cur>>
        /\ pc[r] = "remote" /\ sums' = [sums EXCEPT ![r] = NoSums]
    BY <1>3 DEF CompareAndRecord
  <2>1. PICK version \in {1, 2} :
            LET matched == Matches(sums[r], Checksums(core), version)
            IN  \/ /\ job[r] = "check"
                   /\ Return(r, [kind |-> "check", matched |-> matched])
                \/ /\ job[r] = "before" /\ matched
                   /\ Return(r, Repaired(TRUE, version, FALSE, FALSE))
                \/ /\ job[r] = "before" /\ ~ matched
                   /\ Goto(r, "pull") /\ UNCHANGED <<job, tally, report>>
                \/ /\ job[r] = "after"
                   /\ Return(r, Repaired(matched, version, tally[r].failed, TRUE))
    BY <1>3 DEF CompareAndRecord
  <2> DEFINE m == Matches(sums[r], Checksums(core), version)
  <2>2. CASE r # s
    <3>1. /\ pc'[s] = pc[s] /\ job'[s] = job[s] /\ tally'[s] = tally[s]
          /\ report'[s] = report[s]
      BY <1>t, <2>1, <2>2 DEF Return, Goto
    <3> QED BY <1>o, <1>t, <2>0, <2>2, <3>1
  <2>3. CASE r = s
    <3>1. m \in BOOLEAN
      BY DEF Matches
    <3>2. job[s] = "after" /\ ~ m /\ ~ tally[s].failed => Unfixable'
      BY <1>k, <1>g, <2>0, <2>3 DEF Kept
    <3>3. \/ job[s] = "check" /\ Return(s, [kind |-> "check", matched |-> m])
          \/ job[s] = "before" /\ Return(s, Repaired(TRUE, version, FALSE, FALSE))
          \/ job[s] = "before" /\ Goto(s, "pull") /\ UNCHANGED <<job, tally, report>>
          \/ job[s] = "after" /\ Return(s, Repaired(m, version, tally[s].failed, TRUE))
      BY <2>1, <2>3
    <3> HIDE DEF m
    <3>4. ASSUME Return(s, [kind |-> "check", matched |-> m]) PROVE K
      <4> DEFINE result == [kind |-> "check", matched |-> m]
      <4>1. result.kind = "check"
        OBVIOUS
      <4> HIDE DEF result
      <4> QED BY <1>n, <3>4, <4>1 DEF Unresolved, result
    <3>5. ASSUME Return(s, Repaired(TRUE, version, FALSE, FALSE)) PROVE K
      <4>1. /\ Repaired(TRUE, version, FALSE, FALSE).resolved
            /\ Repaired(TRUE, version, FALSE, FALSE).kind = "repair"
        BY DEF Repaired
      <4> QED BY <1>n, <3>5, <4>1 DEF Unresolved
    <3>6. ASSUME job[s] = "before", Goto(s, "pull"), UNCHANGED <<job, tally, report>> PROVE K
      <4>1. pc'[s] = "pull"
        BY <1>t, <3>6 DEF Goto
      <4> QED BY <1>r, <3>6, <4>1 DEF Kept, Unresolved
    <3>7. ASSUME job[s] = "after", Return(s, Repaired(m, version, tally[s].failed, TRUE)) PROVE K
      <4>1. /\ Repaired(m, version, tally[s].failed, TRUE).resolved = m
            /\ Repaired(m, version, tally[s].failed, TRUE).failed = tally[s].failed
            /\ Repaired(m, version, tally[s].failed, TRUE).kind = "repair"
        BY DEF Repaired
      <4>2. Unresolved(Repaired(m, version, tally[s].failed, TRUE)) => Unfixable'
        BY <3>2, <3>7, <4>1 DEF Unresolved
      <4> QED BY <1>n, <3>7, <4>1, <4>2
    <3> QED BY <3>3, <3>4, <3>5, <3>6, <3>7
  <2> QED BY <2>2, <2>3
<1>4. ASSUME NEW r \in Runners, Pull(r) PROVE K
  <2>1. CASE r = s
    <3>1. /\ UNCHANGED <<core, local, job, sums, tally, report>>
          /\ pc[s] = "pull" /\ pc'[s] \in {"read", "walk"} /\ pulled'[s] = core
      BY <1>4, <1>t, <2>1 DEF Pull, Goto
    <3>2. job[s] # "after"
      BY <1>k, <3>1 DEF Kept
    <3> QED BY <1>r, <3>1, <3>2 DEF Kept, StoredAll, Unresolved
  <2>2. CASE r # s
    BY <1>4, <1>o, <1>t, <2>2 DEF Pull, Goto
  <2> QED BY <2>1, <2>2
<1>5. ASSUME NEW r \in Runners, Persist(r) PROVE K
  <2>1. PICK k \in DOMAIN pulled[r] :
            /\ pulled' = [pulled EXCEPT ![r] = Without(@, k)]
            /\ \/ /\ k \notin DOMAIN local
                  /\ local' = With(local, k, pulled[r][k])
                  /\ tally' = [tally EXCEPT ![r] = [moved |-> TRUE, failed |-> @.failed]]
                  /\ cur' = [cur EXCEPT ![r] = k] /\ Goto(r, "settle")
               \/ /\ k \in DOMAIN local \ settled
                  /\ cur' = [cur EXCEPT ![r] = k] /\ Goto(r, "settle")
                  /\ UNCHANGED <<local, tally>>
               \/ /\ k \in settled
                  /\ UNCHANGED <<local, tally, cur, pc>>
    BY <1>5 DEF Persist, With
  <2>2. pc[r] = "walk" /\ UNCHANGED <<core, settled, rec, job, sums, report>>
    BY <1>5 DEF Persist
  <2>3. CASE r = s
    <3>1. DOMAIN pulled'[s] = DOMAIN pulled[s] \ {k} /\ pc'[s] \in {"walk", "settle"}
      BY <1>t, <2>1, <2>2, <2>3 DEF Without, Goto
    <3>2. k \in DOMAIN local' /\ (tally[s].failed => tally'[s].failed)
      BY <1>t, <2>1, <2>3 DEF With, Typed, TypeOK
    <3>3. StoredAll(s, DOMAIN pulled[s])' /\ job[s] # "after"
      BY <1>k, <1>g, <2>2, <2>3, <3>1, <3>2 DEF Kept, StoredAll
    <3> QED BY <1>r, <2>2, <3>1, <3>3 DEF Kept, Unresolved
  <2>4. CASE r # s
    BY <1>o, <1>t, <2>1, <2>2, <2>4 DEF Goto
  <2> QED BY <2>3, <2>4
<1>6. ASSUME NEW r \in Runners, PersistFails(r) PROVE K
  <2>1. /\ tally' = [tally EXCEPT ![r] = [moved |-> @.moved, failed |-> TRUE]]
        /\ pc[r] = "walk" /\ UNCHANGED <<core, local, pc, job, sums, report>>
    BY <1>6 DEF PersistFails
  <2>2. CASE r = s
    <3>1. tally'[s] = [moved |-> tally[s].moved, failed |-> TRUE]
      BY <1>t, <2>1, <2>2
    <3>2. tally'[s].failed
      BY <3>1
    <3>3. job[s] # "after"
      BY <1>k, <2>1, <2>2 DEF Kept
    <3> QED BY <1>r, <2>1, <2>2, <3>2, <3>3 DEF Kept, StoredAll, Unresolved
  <2>3. CASE r # s
    <3>1. pulled'[s] = pulled[s]
      BY <1>6, <1>t, <2>3 DEF PersistFails
    <3> QED BY <1>o, <1>t, <2>1, <2>3, <3>1
  <2> QED BY <2>2, <2>3
<1>7. ASSUME NEW r \in Runners, SettleCur(r) PROVE K
  <2>1. /\ UNCHANGED <<core, local, job, sums, pulled, report>>
        /\ pc[r] = "settle" /\ pc' = [pc EXCEPT ![r] = "walk"]
    BY <1>7 DEF SettleCur, Goto
  <2>2. CASE r = s
    <3>1. tally'[s].failed <=> tally[s].failed
      BY <1>7, <1>t, <2>2 DEF SettleCur
    <3>2. job[s] # "after" /\ StoredAll(s, DOMAIN pulled[s])' /\ pc'[s] = "walk"
      BY <1>k, <1>t, <2>1, <2>2, <3>1 DEF Kept, StoredAll
    <3> QED BY <1>r, <2>1, <3>2 DEF Kept, Unresolved
  <2>3. CASE r # s
    <3>1. tally'[s] = tally[s]
      BY <1>7, <1>t, <2>3 DEF SettleCur
    <3> QED BY <1>o, <1>t, <2>1, <2>3, <3>1
  <2> QED BY <2>2, <2>3
<1>8. ASSUME NEW r \in Runners, WalkDone(r) PROVE K
  <2>1. /\ UNCHANGED <<core, local, sums, pulled>>
        /\ pc[r] = "walk" /\ DOMAIN pulled[r] = {}
    BY <1>8 DEF WalkDone
  <2>2. \/ /\ Goto(r, "local") /\ job' = [job EXCEPT ![r] = "after"]
           /\ UNCHANGED <<tally, report>>
        \/ Return(r, Repaired(FALSE, 1, tally[r].failed, FALSE))
    BY <1>8 DEF WalkDone
  <2>3. CASE r # s
    <3>1. /\ pc'[s] = pc[s] /\ job'[s] = job[s] /\ tally'[s] = tally[s]
          /\ report'[s] = report[s]
      BY <1>t, <2>2, <2>3 DEF Return, Goto
    <3> QED BY <1>o, <2>1, <3>1
  <2>4. CASE r = s
    <3>1. tally[s].failed \/ DOMAIN core \subseteq DOMAIN local
      BY <1>k, <2>1, <2>4 DEF Kept, StoredAll
    <3>2. ASSUME Goto(s, "local"), job' = [job EXCEPT ![s] = "after"], UNCHANGED <<tally, report>>
          PROVE  K
      <4>1. pc'[s] = "local"
        BY <1>t, <3>2 DEF Goto
      <4> QED BY <1>r, <2>1, <3>1, <3>2, <4>1 DEF Kept, StoredAll, Unresolved
    <3>3. ASSUME Return(s, Repaired(FALSE, 1, tally[s].failed, FALSE)) PROVE K
      <4>1. /\ Repaired(FALSE, 1, tally[s].failed, FALSE).failed = tally[s].failed
            /\ Repaired(FALSE, 1, tally[s].failed, FALSE).kind = "repair"
            /\ ~ Repaired(FALSE, 1, tally[s].failed, FALSE).rechecked
        BY DEF Repaired
      <4>2. ~ tally[s].failed => Unfixable \/ SameTrades
        BY <3>1, AllStored
      <4> QED BY <1>n, <1>g, <3>3, <4>1, <4>2 DEF Unresolved
    <3> QED BY <2>2, <2>4, <3>2, <3>3
  <2> QED BY <2>3, <2>4
<1>9. ASSUME NEW r \in Runners, ReadDiff(r) PROVE K
  <2>1. /\ pc[r] = "read" /\ UNCHANGED <<core, local, settled, sums>>
        /\ Return(r, [kind |-> "diff", diff |-> Diff(pulled[r], Window(local))])
        /\ pulled' = [pulled EXCEPT ![r] = <<>>]
    BY <1>9 DEF ReadDiff
  <2>2. CASE r = s
    <3> DEFINE result == [kind |-> "diff", diff |-> Diff(pulled[s], Window(local))]
    <3>1. pulled[s] = core
      BY <1>k, <2>1, <2>2 DEF Kept
    <3>2. result.kind = "diff" /\ result.diff = Diff(core, Window(local))
      BY <3>1
    <3>3. Return(s, result)
      BY <2>1, <2>2
    <3> HIDE DEF result
    <3>4. ASSUME NEW said, said = result.diff PROVE TrueOfTheHour(said)'
      <4>1. TrueOfTheHour(said)
        BY <3>2, <3>4, DiffMade
      <4> QED BY <1>g, <4>1
    <3> QED BY <1>n, <3>2, <3>3, <3>4 DEF Unresolved
  <2>3. CASE r # s
    BY <1>o, <1>t, <2>1, <2>3 DEF Return, Goto
  <2> QED BY <2>2, <2>3
<1>10. ASSUME NEW r \in Runners, GiveUp(r) PROVE K
  <2>1. /\ Return(r, NoReport) /\ pulled' = [pulled EXCEPT ![r] = <<>>]
        /\ sums' = [sums EXCEPT ![r] = NoSums]
    BY <1>10 DEF GiveUp
  <2>2. CASE r = s
    BY <1>n, <1>e, <2>1, <2>2
  <2>3. CASE r # s
    BY <1>o, <1>t, <2>1, <2>3 DEF Return, Goto
  <2> QED BY <2>2, <2>3
<1>11. ASSUME NEW k \in Keys, StreamStores(k) \/ StreamSettles(k) PROVE K
  BY <1>11, <1>o DEF StreamStores, StreamSettles, repair
<1>12. CloseByHand \/ UNCHANGED vars => K
  BY <1>o DEF CloseByHand, vars, repair
<1> HIDE DEF K
<1>13. K
  <2>1. ASSUME NEW r \in Runners
        PROVE  /\ \A what \in {"check", "before", "diff"}, at \in {"local", "pull"} :
                       Start(r, what, at) => K
               /\ ReadLocal(r) => K
               /\ CompareAndRecord(r) => K
               /\ Pull(r) => K
               /\ Persist(r) => K
               /\ PersistFails(r) => K
               /\ SettleCur(r) => K
               /\ WalkDone(r) => K
               /\ ReadDiff(r) => K
               /\ GiveUp(r) => K
    BY <1>1, <1>2, <1>3, <1>4, <1>5, <1>6, <1>7, <1>8, <1>9, <1>10, Zenon
  <2>2. ASSUME NEW k \in Keys PROVE (StreamStores(k) => K) /\ (StreamSettles(k) => K)
    BY <1>11, Zenon
  <2> QED BY <1>12, <2>1, <2>2, NextCases, Zenon
<1> QED BY <1>13 DEF K

LEMMA AlwaysKept == Spec => [](\A s \in Runners : Kept(s))
<1>1. Init => \A s \in Runners : Kept(s)
  BY KeptInit
<1>2. Typed /\ Sound /\ (\A s \in Runners : Kept(s)) /\ [Next]_vars => (\A s \in Runners : Kept(s))'
  BY KeptStep
<1> QED BY <1>1, <1>2, AlwaysSound, PTL DEF Spec

\* A repair that stored all it was given leaves nothing it could fix, whatever
\* the hour held and whoever else stored and settled its trades meanwhile: the
\* hour it reports unresolved has what no repair can fix, or agrees by then
\* (reconcile.go:270-296, reconcile.go:358-362).
THEOREM RepairsLeaveNothing == Spec => []RepairLeavesNothing
<1>1. (\A s \in Runners : Kept(s)) => RepairLeavesNothing
  BY DEF Kept, RepairLeavesNothing
<1> QED BY <1>1, AlwaysKept, PTL

\* A diff stays true of the hour however the stream and other runners move on,
\* mirrored and equal ids included, and it has something to show for an hour
\* whose checksums differ (reconcile.go:195-205).
THEOREM DiffsAreTrue == Spec => []DiffIsTrue
<1>1. (\A s \in Runners : Kept(s)) => DiffIsTrue
  BY DEF Kept, DiffIsTrue
<1> QED BY <1>1, AlwaysKept, PTL


-----------------------------------------------------------------------------
(* What a repair leaves, when nobody else touches the hour *)

\* What runner r knows of the hour, being alone with it.
Alone(r) ==
    /\ pc[r] = "remote" => sums[r] = Checksums(Window(local))
    /\ pc[r] = "pull" => job[r] \in {"before", "diff"}
    /\ pc[r] \in {"walk", "settle"} => job[r] = "before" /\ StoredAll(r, DOMAIN pulled[r])
    /\ job[r] = "after" => StoredAll(r, {})
    /\ job[r] = "before" /\ pc[r] \in {"pull", "walk", "settle"} /\ ~ tally[r].moved => Differs
    /\ report[r].kind = "repair" => pc[r] = "idle"
    /\ report[r].kind = "repair" /\ ~ report[r].resolved /\ ~ report[r].failed => Unfixable

LEMMA AloneInit == ASSUME Init, NEW r \in Runners PROVE Alone(r)
BY DEF Init, Alone, NoReport

LEMMA AloneStep ==
    ASSUME ~ StreamLive, NEW one, Runners = {one},
           Typed, Places, Alone(one), [Next]_vars
    PROVE  Alone(one)'
<1> DEFINE A == Alone(one)'
<1>t. /\ one \in Runners
      /\ DOMAIN pc = Runners /\ DOMAIN job = Runners /\ DOMAIN pulled = Runners
      /\ DOMAIN tally = Runners /\ DOMAIN sums = Runners /\ DOMAIN report = Runners
  BY DEF Places, Typed, TypeOK
<1> USE DEF Alone, StoredAll
<1>w. local' = local /\ core' = core =>
          (Differs' <=> Differs) /\ (Unfixable' <=> Unfixable) /\ Window(local)' = Window(local)
  BY DEF Differs, Unfixable, Window, MissingLocally, MissingRemotely, Mismatched
<1>1. ASSUME NEW what \in {"check", "before", "diff"}, NEW at \in {"local", "pull"},
             at = "pull" => what = "diff", Start(one, what, at)
      PROVE A
  BY <1>1, <1>t, <1>w DEF Start, Goto, repair, NoReport
<1>2. ASSUME ReadLocal(one) PROVE A
  BY <1>2, <1>t, <1>w DEF ReadLocal, Goto, repair
<1>3. ASSUME CompareAndRecord(one) PROVE A
  <2>1. /\ UNCHANGED <<core, local, settled, pulled, cur>>
        /\ pc[one] = "remote"
    BY <1>3 DEF CompareAndRecord
  <2>2. PICK version \in {1, 2} :
            LET matched == Matches(sums[one], Checksums(core), version)
            IN  \/ /\ job[one] = "check"
                   /\ Return(one, [kind |-> "check", matched |-> matched])
                \/ /\ job[one] = "before" /\ matched
                   /\ Return(one, Repaired(TRUE, version, FALSE, FALSE))
                \/ /\ job[one] = "before" /\ ~ matched
                   /\ Goto(one, "pull") /\ UNCHANGED <<job, tally, report>>
                \/ /\ job[one] = "after"
                   /\ Return(one, Repaired(matched, version, tally[one].failed, TRUE))
    BY <1>3 DEF CompareAndRecord
  <2> DEFINE m == Matches(sums[one], Checksums(core), version)
  <2>3. ~ m => Differs
    BY <2>1, MismatchDiffers
  <2> HIDE DEF m
  <2>4. CASE job[one] = "check" /\ Return(one, [kind |-> "check", matched |-> m])
    BY <2>1, <2>4, <1>t DEF Return, Goto
  <2>5. CASE job[one] = "before" /\ m /\ Return(one, Repaired(TRUE, version, FALSE, FALSE))
    BY <2>1, <2>5, <1>t DEF Return, Goto, Repaired
  <2>6. CASE job[one] = "before" /\ ~ m /\ Goto(one, "pull") /\ UNCHANGED <<job, tally, report>>
    BY <2>1, <2>3, <2>6, <1>t, <1>w DEF Goto
  <2>7. CASE job[one] = "after" /\ Return(one, Repaired(m, version, tally[one].failed, TRUE))
    <3>1. ~ m /\ ~ tally[one].failed => Unfixable
      BY <2>3, <2>7, OnlyUnfixable
    <3>2. pc'[one] = "idle" /\ job'[one] = "check" /\ report'[one] = Repaired(m, version, tally[one].failed, TRUE)
      BY <2>7, <1>t DEF Return, Goto
    <3>3. report'[one].resolved = m /\ report'[one].failed = tally[one].failed
      BY <3>2 DEF Repaired
    <3>4. Unfixable' <=> Unfixable
      BY <2>1, <1>w
    <3>5. report'[one].kind = "repair" /\ ~ report'[one].resolved /\ ~ report'[one].failed
            => Unfixable'
      BY <3>1, <3>3, <3>4, Zenon
    <3> QED BY <3>2, <3>5
  <2> QED BY <2>2, <2>4, <2>5, <2>6, <2>7 DEF m
<1>4. ASSUME Pull(one) PROVE A
  BY <1>4, <1>t, <1>w DEF Pull, Goto
<1>5. ASSUME Persist(one) PROVE A
  <2>1. PICK k \in DOMAIN pulled[one] :
            /\ pulled' = [pulled EXCEPT ![one] = Without(@, k)]
            /\ \/ /\ k \notin DOMAIN local
                  /\ local' = With(local, k, pulled[one][k])
                  /\ tally' = [tally EXCEPT ![one] = [moved |-> TRUE, failed |-> @.failed]]
                  /\ cur' = [cur EXCEPT ![one] = k] /\ Goto(one, "settle")
               \/ /\ k \in DOMAIN local \ settled
                  /\ cur' = [cur EXCEPT ![one] = k] /\ Goto(one, "settle")
                  /\ UNCHANGED <<local, tally>>
               \/ /\ k \in settled
                  /\ UNCHANGED <<local, tally, cur, pc>>
    BY <1>5 DEF Persist, With
  <2>2. pc[one] = "walk" /\ UNCHANGED <<core, settled, rec, job, sums, report>>
    BY <1>5 DEF Persist
  <2>3. DOMAIN pulled'[one] = DOMAIN pulled[one] \ {k}
    BY <2>1, <1>t DEF Without
  <2>4. pc'[one] \in {"walk", "settle"} /\ report'[one].kind # "repair" /\ job'[one] = "before"
    BY <2>1, <2>2, <1>t DEF Goto
  <2>5. /\ DOMAIN local \subseteq DOMAIN local' /\ k \in DOMAIN local'
        /\ tally[one].failed => tally'[one].failed
    BY <2>1, <1>t DEF With, Typed, TypeOK
  <2>6. StoredAll(one, DOMAIN pulled[one])'
    BY <2>2, <2>3, <2>5
  <2>7. ~ tally'[one].moved => Differs'
    <3>1. tally'[one].moved \/ (tally' = tally /\ local' = local)
      BY <2>1, <1>t
    <3>2. tally' = tally /\ local' = local /\ ~ tally[one].moved => Differs'
      BY <2>2, <1>w
    <3> QED BY <3>1, <3>2, Zenon
  <2> QED BY <2>4, <2>6, <2>7
<1>6. ASSUME PersistFails(one) PROVE A
  <2>1. tally'[one] = [moved |-> tally[one].moved, failed |-> TRUE]
    BY <1>6, <1>t DEF PersistFails
  <2>2. tally'[one].failed /\ (tally'[one].moved <=> tally[one].moved)
    BY <2>1
  <2>3. UNCHANGED <<core, local, pc, job, sums, report>>
    BY <1>6 DEF PersistFails
  <2> QED BY <2>2, <2>3, <1>6, <1>w DEF PersistFails
<1>7. ASSUME SettleCur(one) PROVE A
  <2>1. /\ tally'[one].failed <=> tally[one].failed
        /\ ~ tally'[one].moved => ~ tally[one].moved
    BY <1>7, <1>t DEF SettleCur
  <2>2. /\ UNCHANGED <<core, local, job, sums, pulled, report>>
        /\ pc[one] = "settle" /\ pc'[one] = "walk"
    BY <1>7, <1>t DEF SettleCur, Goto
  <2> QED BY <2>1, <2>2, <1>w
<1>8. ASSUME WalkDone(one) PROVE A
  <2>1. /\ UNCHANGED <<core, local, sums>>
        /\ pc[one] = "walk" /\ DOMAIN pulled[one] = {}
    BY <1>8 DEF WalkDone
  <2>2. tally[one].failed \/ DOMAIN core \subseteq DOMAIN local
    BY <2>1
  <2>3. CASE /\ pc'[one] = "local" /\ job'[one] = "after" /\ tally' = tally /\ report' = report
    BY <2>1, <2>2, <2>3
  <2>4. CASE ~ tally[one].moved /\ Return(one, Repaired(FALSE, 1, tally[one].failed, FALSE))
    <3>1. /\ pc'[one] = "idle" /\ job'[one] = "check"
          /\ report'[one] = Repaired(FALSE, 1, tally[one].failed, FALSE)
      BY <2>4, <1>t DEF Return, Goto
    <3>2. ~ tally[one].failed => Unfixable
      BY <2>1, <2>2, <2>4, OnlyUnfixable
    <3>3. report'[one].failed = tally[one].failed
      BY <3>1 DEF Repaired
    <3>4. ~ report'[one].failed => Unfixable'
      BY <3>2, <3>3, <2>1, <1>w, Zenon
    <3> QED BY <3>1, <3>4
  <2> QED BY <1>8, <1>t, <2>3, <2>4 DEF WalkDone, Goto
<1>9. ASSUME ReadDiff(one) PROVE A
  BY <1>9, <1>t DEF ReadDiff, Return, Goto
<1>10. ASSUME GiveUp(one) PROVE A
  BY <1>10, <1>t DEF GiveUp, Return, Goto, NoReport
<1>11. ASSUME CloseByHand PROVE A
  BY <1>11, <1>w DEF CloseByHand, repair
<1>12. ASSUME UNCHANGED vars PROVE A
  BY <1>12, <1>w DEF vars, repair
<1> HIDE DEF A
<1>13. A
  BY <1>t, <1>1, <1>2, <1>3, <1>4, <1>5, <1>6, <1>7, <1>8, <1>9, <1>10, <1>11, <1>12
     DEF Next, Reconcile, Repair, StreamStores, StreamSettles
<1> QED BY <1>13 DEF A

\* A repair of an hour nobody else is changing leaves it unresolved only over
\* what it cannot fix, whatever the hour held (reconcile.go:270-296).  That it
\* is alone matters: beside a live stream the code does not keep this.
THEOREM RepairsFix ==
    ASSUME ~ StreamLive, NEW one, Runners = {one}
    PROVE  Spec => []RepairFixes
<1>1. Init => Alone(one)
  BY AloneInit
<1>2. Typed /\ Sound /\ Alone(one) /\ [Next]_vars => Alone(one)'
  BY AloneStep DEF Sound
<1>3. Alone(one) => RepairFixes
  BY DEF Alone, RepairFixes, Unresolved
<1> QED BY <1>1, <1>2, <1>3, AlwaysSound, PTL DEF Spec
=============================================================================
