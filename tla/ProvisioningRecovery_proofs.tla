---------------------- MODULE ProvisioningRecovery_proofs ----------------------
(***************************************************************************)
(* The credentials of a fixture, for every number of exchanges and mishaps.*)
(*                                                                         *)
(* Types hold for any number of flows.  That keys are never lost and that  *)
(* only accepted keys reach the entry holds for one flow at a time: two    *)
(* repairs of one entry break both (the run concurrent_repairs).           *)
(*                                                                         *)
(* The argument: whenever there is a record and the fixture is in our      *)
(* mesh, the record holds its very keys.  A flow overwrites the record     *)
(* only while the fixture is fresh or foreign, or with the keys it proved; *)
(* where nothing was ever written, the entry is what describes it.         *)
(***************************************************************************)
EXTENDS ProvisioningRecovery, TLAPS

Records == {r \in [net : Nat, dev : Nat, committed : BOOLEAN] :
              r = NoRecord \/ KeysOf(r) \in Keys}
Entries == {e \in [net : Nat, dev : Nat, needs : BOOLEAN] : e = NoEntry \/ KeysOf(e) \in Keys}

(* Places in which a flow has credentials to work with.                    *)
Underway == {"probe", "identify", "adopt", "downgrade", "data", "complete", "finish"}

Jobs == [pc : Underway \cup {"idle", "connect"}, mode : {"none", "add", "recover", "repair"},
         seen : Records, original : Keys \cup {NoKeys}, keys : Keys \cup {NoKeys}]
Setups == [pc : {"idle", "read", "configure", "running"}, seen : Records,
           keys : Keys \cup {NoKeys}]

HasKeys(j) == j.pc \in Underway \/ j.mode = "repair" => j.keys \in Keys

FixtureTyped == fixture \in Keys \cup {NoKeys, Foreign}
StoresTyped  == record \in Records /\ entry \in Entries /\ savedEntry \in Entries
JobsTyped    == job \in [Flows -> Jobs] /\ \A f \in Flows : HasKeys(job[f])
SetupTyped ==
  /\ setup \in Setups /\ reload \in BOOLEAN
  /\ setup.pc = "configure" => setup.keys \in Keys
  /\ setup.pc \in {"read", "configure"} => removing = Stays /\ entry # NoEntry
CountsTyped ==
  /\ exchanges \in 0..MaxExchanges /\ mishaps \in 0..MaxMishaps
  /\ accepted \subseteq Keys /\ forgotten \in BOOLEAN

WellTyped == FixtureTyped /\ StoresTyped /\ JobsTyped /\ SetupTyped /\ CountsTyped

USE BoundAssumption

-------------------------------------------------------------------------------
(* Records, entries and credentials.                                       *)

LEMMA KeysFacts ==
  /\ NoKeys \notin Keys /\ Foreign \notin Keys /\ NoKeys # Foreign
  /\ \A k \in Keys : k.net # NoKeys.net /\ k.net # Foreign.net /\ k.net # 0
  BY DEF Keys, NoKeys, Foreign

LEMMA PendingFacts ==
  ASSUME NEW k \in Keys, NEW c \in BOOLEAN
  PROVE  /\ Pending(k, c) \in Records /\ Pending(k, c) # NoRecord
         /\ KeysOf(Pending(k, c)) = k /\ Pending(k, c).committed = c
         /\ Pending(k, c).net = k.net
  BY DEF Pending, Records, NoRecord, KeysOf, Keys

LEMMA EntryFacts ==
  ASSUME NEW k \in Keys, NEW n \in BOOLEAN
  PROVE  /\ Entry(k, n) \in Entries /\ Entry(k, n) # NoEntry
         /\ KeysOf(Entry(k, n)) = k /\ Entry(k, n).needs = n
  BY DEF Entry, Entries, NoEntry, KeysOf, Keys

LEMMA NoRecordFacts ==
  KeysOf(NoRecord) = NoKeys /\ ~NoRecord.committed /\ NoRecord \in Records
  BY DEF NoRecord, KeysOf, NoKeys, Records

LEMMA RecordFacts ==
  ASSUME NEW r \in Records
  PROVE  /\ r.committed \in BOOLEAN /\ KeysOf(r) \in Keys \cup {NoKeys}
         /\ r # NoRecord => KeysOf(r) \in Keys
  BY NoRecordFacts DEF Records

LEMMA NoEntryFacts == KeysOf(NoEntry) = NoKeys /\ ~NoEntry.needs /\ NoEntry \in Entries
  BY DEF NoEntry, KeysOf, NoKeys, Entries

LEMMA EntriesFacts ==
  ASSUME NEW e \in Entries
  PROVE  /\ e.needs \in BOOLEAN /\ KeysOf(e) \in Keys \cup {NoKeys}
         /\ e # NoEntry => KeysOf(e) \in Keys
  BY NoEntryFacts DEF Entries

-------------------------------------------------------------------------------
(* What a flow's moves do to its place.                                    *)

LEMMA ContinueFacts ==
  ASSUME NEW f \in Flows, NEW pc \in Underway \cup {"connect"}, NEW keys \in Keys \cup {NoKeys},
         JobsTyped, pc \in Underway \/ job[f].mode = "repair" => keys \in Keys,
         Continue(f, pc, keys)
  PROVE  /\ JobsTyped'
         /\ job'[f].pc = pc /\ job'[f].keys = keys
         /\ job'[f].mode = job[f].mode /\ job'[f].seen = job[f].seen
         /\ \A g \in Flows \ {f} : job'[g] = job[g]
<1>1. job \in [Flows -> Jobs] /\ \A g \in Flows : HasKeys(job[g])
  BY DEF JobsTyped
<1>2. job' = [job EXCEPT ![f] = [job[f] EXCEPT !.pc = pc, !.keys = keys]]
  BY <1>1 DEF Continue
<1>3. job[f] \in Jobs
  BY <1>1
<1>4. /\ [job[f] EXCEPT !.pc = pc, !.keys = keys] \in Jobs
      /\ [job[f] EXCEPT !.pc = pc, !.keys = keys].pc = pc
      /\ [job[f] EXCEPT !.pc = pc, !.keys = keys].keys = keys
      /\ [job[f] EXCEPT !.pc = pc, !.keys = keys].mode = job[f].mode
      /\ [job[f] EXCEPT !.pc = pc, !.keys = keys].seen = job[f].seen
  BY <1>3 DEF Jobs
<1>5. /\ job'[f] = [job[f] EXCEPT !.pc = pc, !.keys = keys]
      /\ \A g \in Flows \ {f} : job'[g] = job[g]
      /\ job' \in [Flows -> Jobs]
  BY <1>1, <1>2, <1>4
<1>6. \A g \in Flows : HasKeys(job'[g])
  BY <1>1, <1>4, <1>5 DEF HasKeys
<1> QED  BY <1>4, <1>5, <1>6 DEF JobsTyped

LEMMA IdleFacts == Idle \in Jobs /\ HasKeys(Idle) /\ Idle.pc = "idle" /\ Idle.seen = NoRecord
  BY NoRecordFacts DEF Idle, Jobs, HasKeys, Underway, NoKeys, Records

LEMMA GiveUpFacts ==
  ASSUME NEW f \in Flows, JobsTyped, GiveUp(f)
  PROVE  JobsTyped' /\ job'[f] = Idle /\ \A g \in Flows \ {f} : job'[g] = job[g]
<1>1. /\ job \in [Flows -> Jobs] /\ job' = [job EXCEPT ![f] = Idle]
      /\ \A g \in Flows : HasKeys(job[g])
  BY DEF JobsTyped, GiveUp
<1>2. /\ job' \in [Flows -> Jobs] /\ job'[f] = Idle
      /\ \A g \in Flows \ {f} : job'[g] = job[g]
  BY <1>1, IdleFacts
<1> QED  BY <1>1, <1>2, IdleFacts DEF JobsTyped

-------------------------------------------------------------------------------
(* Types.                                                                  *)

LEMMA RestFacts == Rest \in Setups /\ Rest.pc = "idle" /\ Rest.seen = NoRecord
                   /\ Rest.keys = NoKeys
  BY NoRecordFacts DEF Rest, Setups

LEMMA SetupFacts ==
  ASSUME NEW pc \in {"idle", "read", "configure", "running"}, NEW seen \in Records,
         NEW keys \in Keys \cup {NoKeys}
  PROVE  [pc |-> pc, seen |-> seen, keys |-> keys] \in Setups
  BY DEF Setups

LEMMA SetupEndsFacts ==
  ASSUME NEW pc \in {"idle", "running"}, NEW keys \in Keys \cup {NoKeys}, SetupEnds(pc, keys)
  PROVE  /\ setup' \in Setups /\ reload' \in BOOLEAN /\ setup'.pc \in {"idle", "running"}
         /\ setup'.keys \in {keys, NoKeys} /\ setup'.seen = NoRecord
<1>1. [pc |-> pc, seen |-> NoRecord, keys |-> keys] \in Setups
  BY SetupFacts, NoRecordFacts
<1> QED  BY <1>1, RestFacts DEF SetupEnds

LEMMA TypeInit == Init => WellTyped
<1> SUFFICES ASSUME Init PROVE WellTyped
  OBVIOUS
<1>1. exchanges \in 0..MaxExchanges /\ mishaps \in 0..MaxMishaps /\ forgotten \in BOOLEAN
  <2>1. exchanges \in {0, 1} /\ mishaps = 0
    BY DEF Init
  <2>2. forgotten \in BOOLEAN
    BY Zenon DEF Init
  <2> QED  BY <2>1, <2>2
<1>2. [net |-> 1, dev |-> 1] \in Keys
  BY DEF Keys
<1>3. /\ fixture \in Keys \cup {NoKeys} /\ accepted \subseteq Keys
      /\ entry \in Entries /\ savedEntry \in Entries
  BY <1>2, NoEntryFacts, EntryFacts DEF Init
<1>4. JobsTyped
  <2>1. job = [f \in Flows |-> Idle]
    BY DEF Init
  <2> QED  BY <2>1, IdleFacts DEF JobsTyped
<1>5. SetupTyped
  BY RestFacts DEF Init, SetupTyped
<1> QED  BY <1>1, <1>3, <1>4, <1>5, NoRecordFacts
         DEF Init, WellTyped, FixtureTyped, StoresTyped, CountsTyped

(* The next-state relation, one disjunct per action.                       *)
LEMMA FlowSteps ==
  ASSUME WellTyped, NEW f \in Flows, Flow(f)
  PROVE  WellTyped'
<1>0. /\ FixtureTyped /\ StoresTyped /\ JobsTyped /\ SetupTyped /\ CountsTyped
      /\ record \in Records /\ entry \in Entries /\ savedEntry \in Entries
      /\ job \in [Flows -> Jobs] /\ HasKeys(job[f]) /\ job[f] \in Jobs
      /\ job[f].keys \in Keys \cup {NoKeys}
  BY DEF WellTyped, StoresTyped, JobsTyped, Jobs
<1> USE <1>0
<1>1. ASSUME NEW j \in Jobs, HasKeys(j), job' = [job EXCEPT ![f] = j] PROVE JobsTyped'
  <2>1. job' \in [Flows -> Jobs] /\ \A g \in Flows : job'[g] = IF g = f THEN j ELSE job[g]
    BY <1>1
  <2> QED  BY <1>1, <2>1 DEF JobsTyped
<1>2. ASSUME NEW mode \in {"add", "recover"}, StartAdd(f, mode) PROVE WellTyped'
  <2> DEFINE Started(pc, keys) ==
        [pc |-> pc, mode |-> mode, seen |-> record, original |-> NoKeys, keys |-> keys]
  <2>1. \/ job' = [job EXCEPT ![f] = Started("connect", NoKeys)]
        \/ record # NoRecord /\ job' = [job EXCEPT ![f] = Started("finish", KeysOf(record))]
        \/ record # NoRecord /\ job' = [job EXCEPT ![f] = Started("probe", KeysOf(record))]
    BY <1>2 DEF StartAdd
  <2>2. Started("connect", NoKeys) \in Jobs /\ HasKeys(Started("connect", NoKeys))
    BY DEF Jobs, HasKeys, Underway
  <2>3. ASSUME record # NoRecord, NEW pc \in {"finish", "probe"}
        PROVE  Started(pc, KeysOf(record)) \in Jobs /\ HasKeys(Started(pc, KeysOf(record)))
    BY <2>3, RecordFacts DEF Jobs, HasKeys, Underway
  <2> HIDE DEF Started
  <2>4. JobsTyped'
    BY <1>1, <2>1, <2>2, <2>3
  <2> QED  BY <1>2, <2>4
           DEF StartAdd, entries, bounds, WellTyped, FixtureTyped, StoresTyped, SetupTyped,
               CountsTyped
<1>3. CASE StartRepair(f)
  <2> DEFINE started == [pc |-> "probe", mode |-> "repair", seen |-> record,
                         original |-> KeysOf(entry), keys |-> Prepared(record, entry)]
  <2>1. job' = [job EXCEPT ![f] = started] /\ entry # NoEntry
    BY <1>3 DEF StartRepair
  <2>2. KeysOf(entry) \in Keys /\ Prepared(record, entry) \in Keys
    BY <2>1, RecordFacts, EntriesFacts DEF Prepared
  <2>3. started \in Jobs /\ HasKeys(started)
    BY <2>2 DEF Jobs, HasKeys, Underway
  <2> HIDE DEF started
  <2>4. JobsTyped'
    BY <1>1, <2>1, <2>3
  <2> QED  BY <1>3, <2>4
           DEF StartRepair, entries, bounds, WellTyped, FixtureTyped, StoresTyped, SetupTyped,
               CountsTyped
<1>4. CASE Probe(f)
  <2>1. job[f].keys \in Keys
    BY <1>4 DEF Probe, At, HasKeys, Underway
  <2>2. JobsTyped'
    BY <1>4, <2>1, ContinueFacts, GiveUpFacts DEF Probe, Underway
  <2> QED  BY <1>4, <2>2
           DEF Probe, entries, bounds, WellTyped, FixtureTyped, StoresTyped, SetupTyped,
               CountsTyped
<1>5. CASE Downgrade(f)
  <2>1. job[f].keys \in Keys
    BY <1>5 DEF Downgrade, At, HasKeys, Underway
  <2>2. JobsTyped'
    BY <1>5, <2>1, ContinueFacts DEF Downgrade, Underway
  <2>3. record' \in Records
    <3>1. record' = Pending(job[f].keys, FALSE)
      BY <1>5 DEF Downgrade
    <3>2. Pending(job[f].keys, FALSE) \in Records
      BY <2>1, PendingFacts
    <3> QED  BY <3>1, <3>2
  <2> QED  BY <1>5, <2>2, <2>3
           DEF Downgrade, entries, bounds, WellTyped, FixtureTyped, StoresTyped, SetupTyped,
               CountsTyped
<1>6. CASE Identify(f)
  <2>1. job[f].keys \in Keys
    BY <1>6 DEF Identify, At, HasKeys, Underway
  <2>2. JobsTyped'
    BY <1>6, <2>1, ContinueFacts DEF Identify, Underway
  <2> QED  BY <1>6, <2>2
           DEF Identify, entries, bounds, WellTyped, FixtureTyped, StoresTyped, SetupTyped,
               CountsTyped
<1>7. CASE Adopt(f)
  <2>1. job[f].keys \in Keys
    BY <1>7 DEF Adopt, At, HasKeys, Underway
  <2>2. JobsTyped'
    BY <1>7, <2>1, ContinueFacts DEF Adopt, Underway
  <2>3. record' \in Records
    <3>1. record' \in {Pending(job[f].keys, TRUE), record}
      BY <1>7 DEF Adopt
    <3>2. Pending(job[f].keys, TRUE) \in Records
      BY <2>1, PendingFacts
    <3> QED  BY <3>1, <3>2
  <2> QED  BY <1>7, <2>2, <2>3
           DEF Adopt, entries, bounds, WellTyped, FixtureTyped, StoresTyped, SetupTyped,
               CountsTyped
<1>8. CASE PreData(f)
  <2> DEFINE new == exchanges + 1
             keys == [net |-> IF job[f].keys.net = 0 THEN new ELSE job[f].keys.net, dev |-> new]
  <2>1. exchanges < MaxExchanges /\ exchanges \in Nat /\ new \in 1..MaxExchanges
    BY <1>8 DEF PreData, CountsTyped
  <2>2. job[f].keys.net = 0 \/ job[f].keys.net \in 1..MaxExchanges
    BY DEF Keys, NoKeys
  <2>3. keys \in Keys
    BY <2>1, <2>2 DEF Keys
  <2>4. Continue(f, "data", keys) /\ record' = Pending(keys, FALSE) /\ exchanges' = new
    BY <1>8 DEF PreData
  <2> HIDE DEF keys
  <2>5. JobsTyped' /\ record' \in Records
    BY <2>3, <2>4, ContinueFacts, PendingFacts DEF Underway
  <2>6. CountsTyped'
    <3>1. UNCHANGED <<mishaps, accepted>>
      BY <1>8 DEF PreData
    <3>2. forgotten' \in BOOLEAN
      BY <1>8, Zenon DEF PreData
    <3> QED  BY <2>1, <2>4, <3>1, <3>2 DEF CountsTyped
  <2> QED  BY <1>8, <2>5, <2>6
           DEF PreData, entries, WellTyped, FixtureTyped, StoresTyped, SetupTyped
<1>9. CASE Data(f)
  <2>1. job[f].keys \in Keys
    BY <1>9 DEF Data, At, HasKeys, Underway
  <2>2. JobsTyped'
    BY <1>9, <2>1, ContinueFacts, GiveUpFacts DEF Data, Underway
  <2> QED  BY <1>9, <2>1, <2>2
           DEF Data, entries, bounds, WellTyped, FixtureTyped, StoresTyped, SetupTyped, CountsTyped
<1>10. CASE Complete(f)
  <2>1. job[f].keys \in Keys
    BY <1>10 DEF Complete, At, HasKeys, Underway
  <2>2. JobsTyped' /\ record' \in Records
    BY <1>10, <2>1, ContinueFacts, PendingFacts DEF Complete, Underway
  <2> QED  BY <1>10, <2>2
           DEF Complete, entries, bounds, WellTyped, FixtureTyped, StoresTyped, SetupTyped,
               CountsTyped
<1>11. CASE FlowFails(f)
  <2>1. JobsTyped'
    BY <1>11, GiveUpFacts DEF FlowFails
  <2> QED  BY <1>11, <2>1
           DEF FlowFails, entries, bounds, WellTyped, FixtureTyped, StoresTyped, SetupTyped,
               CountsTyped
<1>12. CASE Finish(f)
  <2>1. job[f].keys \in Keys
    BY <1>12 DEF Finish, At, HasKeys, Underway
  <2>2. JobsTyped'
    BY <1>12, GiveUpFacts DEF Finish
  <2> DEFINE stopped == [setup EXCEPT !.pc = "idle"]
  <2>3. stopped \in Setups /\ stopped.pc = "idle"
    BY DEF SetupTyped, Setups
  <2>4. CASE job[f].mode = "repair" /\ entry = NoEntry
    BY <1>12, <2>2, <2>4
       DEF Finish, bounds, WellTyped, FixtureTyped, StoresTyped, SetupTyped, CountsTyped
  <2>5. CASE ~(job[f].mode = "repair" /\ entry = NoEntry)
    <3>1. /\ entry' = Entry(job[f].keys, TRUE)
          /\ setup' \in {stopped, setup}
          /\ UNCHANGED <<fixture, record, savedEntry, removing, bounds, accepted, forgotten>>
      BY <1>12, <2>5 DEF Finish
    <3>1a. reload' \in BOOLEAN
      <4>1. reload' = (setup.pc \in {"read", "configure"})
        BY <1>12, <2>5 DEF Finish
      <4>2. (setup.pc \in {"read", "configure"}) \in BOOLEAN
        BY SMT
      <4> QED  BY <4>1, <4>2, Zenon
    <3> HIDE DEF stopped
    <3>2. entry' \in Entries /\ entry' # NoEntry
      BY <2>1, <3>1, EntryFacts
    <3>3. SetupTyped'
      BY <2>3, <3>1, <3>1a, <3>2 DEF SetupTyped
    <3> QED  BY <2>2, <3>1, <3>1a, <3>2, <3>3
             DEF bounds, WellTyped, FixtureTyped, StoresTyped, CountsTyped
  <2> QED  BY <2>4, <2>5
<1> QED  BY <1>2, <1>3, <1>4, <1>5, <1>6, <1>7, <1>8, <1>9, <1>10, <1>11, <1>12 DEF Flow

LEMMA SetupSteps ==
  ASSUME WellTyped, Setup \/ Reload
  PROVE  WellTyped'
<1>0. /\ FixtureTyped /\ StoresTyped /\ JobsTyped /\ SetupTyped /\ CountsTyped
      /\ record \in Records /\ entry \in Entries /\ savedEntry \in Entries
      /\ setup \in Setups /\ setup.keys \in Keys \cup {NoKeys} /\ setup.seen \in Records
      /\ reload \in BOOLEAN
  BY DEF WellTyped, StoresTyped, SetupTyped, Setups
<1> USE <1>0
<1>1. CASE SetupRead
  <2>1. [pc |-> "read", seen |-> record, keys |-> NoKeys] \in Setups
    BY SetupFacts
  <2>2. SetupTyped'
    BY <1>1, <2>1 DEF SetupRead, SetupTyped, entries
  <2> QED  BY <1>1, <2>2
           DEF SetupRead, entries, bounds, WellTyped, FixtureTyped, StoresTyped, JobsTyped,
               CountsTyped
<1>2. CASE Reconcile
  <2>1. setup.pc = "read" /\ entry # NoEntry /\ removing = Stays /\ KeysOf(entry) \in Keys
    BY <1>2, EntriesFacts DEF Reconcile, SetupTyped
  <2>2. Reconciled \in Entries /\ Reconciled # NoEntry /\ KeysOf(Reconciled) \in Keys
    BY <2>1, RecordFacts, EntryFacts DEF Reconciled, Replaces
  <2>3. entry' \in Entries /\ entry' # NoEntry
    BY <1>2, <2>1, <2>2 DEF Reconcile
  <2>4. setup' \in Setups /\ reload' \in BOOLEAN
        /\ (setup'.pc = "configure" => setup'.keys \in Keys)
    <3>1. /\ [pc |-> "configure", seen |-> NoRecord, keys |-> KeysOf(Reconciled)] \in Setups
          /\ [pc |-> "configure", seen |-> NoRecord, keys |-> KeysOf(Reconciled)].keys
               = KeysOf(Reconciled)
      BY <2>2, SetupFacts, NoRecordFacts
    <3>2. CASE setup' = [pc |-> "configure", seen |-> NoRecord, keys |-> KeysOf(Reconciled)]
               /\ reload' = reload
      BY <2>2, <3>1, <3>2
    <3>3. CASE SetupEnds("idle", NoKeys)
      BY <3>3, SetupEndsFacts
    <3>4. CASE SetupEnds("running", KeysOf(Reconciled))
      BY <2>2, <3>4, SetupEndsFacts
    <3> QED  BY <1>2, <3>2, <3>3, <3>4 DEF Reconcile
  <2>5. UNCHANGED <<fixture, record, savedEntry, job, removing, bounds, accepted, forgotten>>
    BY <1>2 DEF Reconcile
  <2> QED  BY <2>1, <2>3, <2>4, <2>5
           DEF bounds, WellTyped, FixtureTyped, StoresTyped, JobsTyped, SetupTyped, CountsTyped
<1>3. CASE Configure \/ ConfigureFails
  <2>1. setup.pc = "configure" /\ setup.keys \in Keys
    BY <1>3 DEF Configure, ConfigureFails, SetupTyped
  <2>2. entry' \in {entry, Entry(setup.keys, FALSE), Entry(setup.keys, TRUE)}
    BY <1>3 DEF Configure, ConfigureFails
  <2>3. entry' \in Entries
    <3>1. Entry(setup.keys, FALSE) \in Entries /\ Entry(setup.keys, TRUE) \in Entries
      BY <2>1, EntryFacts
    <3> QED  BY <2>2, <3>1
  <2>4. setup' \in Setups /\ reload' \in BOOLEAN /\ setup'.pc \in {"idle", "running"}
    <3>1. SetupEnds("idle", NoKeys) \/ SetupEnds("running", setup.keys)
      BY <1>3 DEF Configure, ConfigureFails
    <3> QED  BY <2>1, <3>1, SetupEndsFacts
  <2>5. UNCHANGED <<fixture, record, savedEntry, job, removing, bounds, accepted, forgotten>>
    BY <1>3 DEF Configure, ConfigureFails
  <2> QED  BY <2>3, <2>4, <2>5
           DEF bounds, WellTyped, FixtureTyped, StoresTyped, JobsTyped, SetupTyped, CountsTyped
<1>4. CASE Reload
  <2>1. setup' \in Setups /\ setup'.pc = "idle"
    BY <1>4, RestFacts DEF Reload
  <2> QED  BY <1>4, <2>1
           DEF Reload, entries, bounds, WellTyped, FixtureTyped, StoresTyped, JobsTyped, SetupTyped,
               CountsTyped
<1> QED  BY <1>1, <1>2, <1>3, <1>4 DEF Setup

LEMMA RemovalSteps ==
  ASSUME WellTyped, StartRemove \/ Release \/ Removal
  PROVE  WellTyped'
<1>0. /\ FixtureTyped /\ StoresTyped /\ JobsTyped /\ SetupTyped /\ CountsTyped
  BY DEF WellTyped
<1> USE <1>0
<1>1. CASE StartRemove
  <2>1. SetupTyped'
    BY <1>1, RestFacts DEF StartRemove, SetupTyped
  <2> QED  BY <1>1, <2>1
           DEF StartRemove, Mishap, entries, WellTyped, FixtureTyped, StoresTyped, JobsTyped,
               CountsTyped
<1>2. CASE Release
  BY <1>2 DEF Release, entries, bounds, WellTyped, FixtureTyped, StoresTyped, JobsTyped,
              SetupTyped, CountsTyped
<1>3. CASE Forget
  <2>1. SetupTyped'
    BY <1>3 DEF Forget, Stays, SetupTyped, entries
  <2>2. record' \in Records
    BY <1>3, NoRecordFacts DEF Forget, StoresTyped
  <2>3. forgotten' \in BOOLEAN
    BY <1>3, Zenon DEF Forget
  <2> QED  BY <1>3, <2>1, <2>2, <2>3
           DEF Forget, entries, bounds, WellTyped, FixtureTyped, StoresTyped, JobsTyped,
               CountsTyped
<1>4. CASE Remove
  <2>1. SetupTyped'
    BY <1>4 DEF Remove, Stays, SetupTyped
  <2>2. entry' \in Entries
    BY <1>4, NoEntryFacts DEF Remove
  <2>3. forgotten' \in BOOLEAN
    BY <1>4, Zenon DEF Remove
  <2> QED  BY <1>4, <2>1, <2>2, <2>3
           DEF Remove, bounds, WellTyped, FixtureTyped, StoresTyped, JobsTyped, CountsTyped
<1> QED  BY <1>1, <1>2, <1>3, <1>4 DEF Removal

LEMMA EnvironmentSteps ==
  ASSUME WellTyped, FactoryReset \/ AdoptElsewhere \/ FlushEntry \/ Crash
  PROVE  WellTyped'
<1>0. /\ FixtureTyped /\ StoresTyped /\ JobsTyped /\ SetupTyped /\ CountsTyped
  BY DEF WellTyped
<1> USE <1>0
<1>1. CASE FactoryReset \/ AdoptElsewhere
  BY <1>1 DEF FactoryReset, AdoptElsewhere, Mishap, entries, WellTyped, FixtureTyped,
              StoresTyped, JobsTyped, SetupTyped, CountsTyped
<1>2. CASE FlushEntry
  BY <1>2 DEF FlushEntry, bounds, WellTyped, FixtureTyped, StoresTyped, JobsTyped, SetupTyped,
              CountsTyped
<1>3. CASE Crash
  <2>1. SetupTyped'
    <3>1. setup' \in Setups /\ setup'.pc = "idle"
      BY <1>3, RestFacts DEF Crash
    <3>2. reload' \in BOOLEAN
      BY <1>3, Zenon DEF Crash
    <3> QED  BY <3>1, <3>2 DEF SetupTyped
  <2>2. JobsTyped'
    <3>1. job' = [f \in Flows |-> Idle]
      BY <1>3 DEF Crash
    <3> QED  BY <3>1, IdleFacts DEF JobsTyped
  <2> QED  BY <1>3, <2>1, <2>2
           DEF Crash, Mishap, WellTyped, FixtureTyped, StoresTyped, CountsTyped
<1> QED  BY <1>1, <1>2, <1>3

LEMMA TypeStep == WellTyped /\ [Next]_vars => WellTyped'
<1> SUFFICES ASSUME WellTyped, [Next]_vars PROVE WellTyped'
  OBVIOUS
<1>1. CASE UNCHANGED vars
  BY <1>1 DEF vars, entries, bounds, WellTyped, FixtureTyped, StoresTyped, JobsTyped, SetupTyped,
              CountsTyped
<1> QED  BY <1>1, FlowSteps, SetupSteps, RemovalSteps, EnvironmentSteps DEF Next

LEMMA TypesSuffice == WellTyped => TypeOK
<1> SUFFICES ASSUME WellTyped PROVE TypeOK
  OBVIOUS
<1>1. /\ KeysOf(record) \in Keys \cup {NoKeys} /\ record.committed \in BOOLEAN
      /\ KeysOf(entry) \in Keys \cup {NoKeys} /\ entry.needs \in BOOLEAN
      /\ KeysOf(savedEntry) \in Keys \cup {NoKeys} /\ savedEntry.needs \in BOOLEAN
  BY RecordFacts, EntriesFacts DEF WellTyped, StoresTyped
<1>2. \A f \in Flows : /\ job[f].keys \in Keys \cup {NoKeys}
                       /\ job[f].mode = "repair" => job[f].keys \in Keys
  BY DEF WellTyped, JobsTyped, HasKeys, Jobs
<1>3. setup.pc \in {"idle", "read", "configure", "running"}
  BY DEF WellTyped, SetupTyped, Setups
<1> QED  BY <1>1, <1>2, <1>3 DEF TypeOK, WellTyped, FixtureTyped, CountsTyped

(* Every variable keeps its type and a repair always has credentials to    *)
(* start from, however many flows run at once.                             *)
THEOREM TypeCorrect == Spec => []TypeOK
<1>1. Init => WellTyped
  BY TypeInit
<1>2. WellTyped /\ [Next]_vars => WellTyped'
  BY TypeStep
<1> QED  BY <1>1, <1>2, TypesSuffice, PTL DEF Spec

-------------------------------------------------------------------------------
(* One flow at a time.                                                     *)

OneFlow == \A f, g \in Flows : f = g

(* A fixture in our mesh has these keys.                                   *)
Describes(keys) == fixture \in Keys => fixture = keys

FixtureOk ==
  /\ fixture \in Keys => fixture \in accepted
  /\ record # NoRecord => Describes(KeysOf(record))

(* What is marked as committed was accepted.                               *)
Proven(r) == r.committed => KeysOf(r) \in accepted
RecordsOk == Proven(record) /\ Proven(setup.seen)

EntryOk == {KeysOf(entry), KeysOf(savedEntry), setup.keys} \subseteq accepted \cup {NoKeys}

JobOk(j) ==
  /\ Proven(j.seen)
  /\ j.pc = "probe" => j.mode = "repair" \/ j.seen # NoRecord
  /\ j.pc \in {"identify", "adopt"} => j.seen # NoRecord
  /\ j.pc \in {"probe", "identify", "adopt"} /\ j.seen # NoRecord => Describes(j.keys)
  /\ j.pc \in {"adopt", "complete", "finish"} => j.keys \in accepted
  /\ j.pc = "complete" => Describes(j.keys)
  /\ j.pc = "downgrade" => fixture \notin Keys
  /\ j.pc = "data" => /\ fixture = NoKeys
                      /\ record = Pending(j.keys, FALSE) \/ (forgotten /\ record = NoRecord)
JobsOk == \A f \in Flows : JobOk(job[f])

(* Without a record that the user did not give up, nothing but the entry   *)
(* ever held keys.                                                         *)
Bare ==
  record = NoRecord /\ ~forgotten =>
    /\ setup.seen = NoRecord
    /\ \A f \in Flows : job[f].seen = NoRecord /\ job[f].pc \notin {"data", "complete", "finish"}
    /\ Describes(KeysOf(entry)) /\ Describes(KeysOf(savedEntry))
    /\ setup.pc = "configure" => setup.keys = KeysOf(entry)

CredsOk == FixtureOk /\ RecordsOk /\ EntryOk /\ JobsOk /\ Bare

LEMMA CredsInit == Init => CredsOk
<1> SUFFICES ASSUME Init PROVE CredsOk
  OBVIOUS
<1>1. [net |-> 1, dev |-> 1] \in Keys
  BY DEF Keys
<1>2. /\ fixture = NoKeys \/ fixture \in accepted
      /\ Describes(KeysOf(entry)) /\ savedEntry = entry
      /\ KeysOf(entry) \in accepted \cup {NoKeys}
  BY <1>1, KeysFacts, NoEntryFacts, EntryFacts DEF Init, Describes
<1>3. record = NoRecord /\ setup = Rest /\ \A f \in Flows : job[f] = Idle
  BY DEF Init
<1>4. FixtureOk
  BY <1>2, <1>3, KeysFacts DEF FixtureOk
<1>5. RecordsOk
  BY <1>3, NoRecordFacts, RestFacts DEF RecordsOk, Proven
<1>6. EntryOk
  BY <1>2, <1>3, RestFacts DEF EntryOk
<1>7. JobsOk
  BY <1>3, IdleFacts, NoRecordFacts DEF JobsOk, JobOk, Proven
<1>8. Bare
  BY <1>2, <1>3, IdleFacts, RestFacts DEF Bare
<1> QED  BY <1>4, <1>5, <1>6, <1>7, <1>8 DEF CredsOk

(* Nothing else to show of a step that changes only the flow's place.      *)
LEMMA FlowMoves ==
  ASSUME OneFlow, CredsOk, NEW f \in Flows, JobOk(job[f])',
         UNCHANGED <<fixture, record, entries, setup, accepted, forgotten>>,
         record = NoRecord /\ ~forgotten =>
           job'[f].seen = NoRecord /\ job'[f].pc \notin {"data", "complete", "finish"}
  PROVE  CredsOk'
<1>1. \A g \in Flows : g = f
  BY DEF OneFlow
<1>2. JobsOk'
  BY <1>1 DEF JobsOk
<1>3. FixtureOk' /\ RecordsOk' /\ EntryOk'
  BY DEF CredsOk, FixtureOk, RecordsOk, EntryOk, Describes, Proven, entries
<1>4. Bare'
  BY <1>1 DEF CredsOk, Bare, Describes, entries
<1> QED  BY <1>2, <1>3, <1>4 DEF CredsOk

LEMMA IdleOk ==
  ASSUME NEW f \in Flows, job'[f] = Idle
  PROVE  JobOk(job[f])'
  BY IdleFacts, NoRecordFacts DEF JobOk, Proven

LEMMA FlowCreds ==
  ASSUME OneFlow, WellTyped, CredsOk, NEW f \in Flows, Flow(f)
  PROVE  CredsOk'
<1>0. /\ record \in Records /\ entry \in Entries /\ JobsTyped
      /\ job \in [Flows -> Jobs] /\ HasKeys(job[f]) /\ job[f] \in Jobs
      /\ job[f].keys \in Keys \cup {NoKeys} /\ job[f].seen \in Records
      /\ fixture \in Keys \cup {NoKeys, Foreign} /\ accepted \subseteq Keys
      /\ exchanges \in Nat
  BY DEF WellTyped, FixtureTyped, StoresTyped, JobsTyped, CountsTyped, Jobs
<1>00. /\ FixtureOk /\ RecordsOk /\ EntryOk /\ JobsOk /\ Bare /\ JobOk(job[f])
       /\ \A g \in Flows : g = f
  BY DEF CredsOk, JobsOk, OneFlow
<1> USE <1>0, <1>00
<1>1. ASSUME NEW mode \in {"add", "recover"}, StartAdd(f, mode) PROVE CredsOk'
  <2> DEFINE Started(pc, keys) ==
        [pc |-> pc, mode |-> mode, seen |-> record, original |-> NoKeys, keys |-> keys]
  <2>1. \/ job' = [job EXCEPT ![f] = Started("connect", NoKeys)]
        \/ /\ record # NoRecord /\ record.committed
           /\ job' = [job EXCEPT ![f] = Started("finish", KeysOf(record))]
        \/ record # NoRecord /\ job' = [job EXCEPT ![f] = Started("probe", KeysOf(record))]
    BY <1>1 DEF StartAdd
  <2>2. UNCHANGED <<fixture, record, entries, setup, accepted, forgotten>>
    BY <1>1 DEF StartAdd
  <2>3. /\ job'[f].seen = record /\ job'[f].pc \in {"connect", "finish", "probe"}
        /\ job'[f].pc \in {"finish", "probe"} => record # NoRecord /\ job'[f].keys = KeysOf(record)
        /\ job'[f].pc = "finish" => record.committed
    BY <2>1
  <2>4. JobOk(job[f])'
    BY <2>2, <2>3 DEF JobOk, FixtureOk, RecordsOk, Proven, Describes
  <2> QED  BY <2>2, <2>3, <2>4, FlowMoves
<1>2. CASE StartRepair(f)
  <2> DEFINE started == [pc |-> "probe", mode |-> "repair", seen |-> record,
                         original |-> KeysOf(entry), keys |-> Prepared(record, entry)]
  <2>1. job' = [job EXCEPT ![f] = started]
    BY <1>2 DEF StartRepair
  <2>2. UNCHANGED <<fixture, record, entries, setup, accepted, forgotten>>
    BY <1>2 DEF StartRepair
  <2>3. /\ job'[f].seen = record /\ job'[f].pc = "probe" /\ job'[f].mode = "repair"
        /\ job'[f].keys = Prepared(record, entry)
    BY <2>1
  <2>4. JobOk(job[f])'
    BY <2>2, <2>3 DEF JobOk, FixtureOk, RecordsOk, Proven, Describes, Prepared
  <2> QED  BY <2>2, <2>3, <2>4, FlowMoves
<1>3. CASE Probe(f)
  <2>1. job[f].pc = "probe" /\ job[f].keys \in Keys
    BY <1>3 DEF Probe, At, HasKeys, Underway
  <2>2. UNCHANGED <<fixture, record, entries, setup, accepted, forgotten>>
    BY <1>3 DEF Probe
  <2>3. CASE GiveUp(f)
    BY <2>2, <2>3, GiveUpFacts, IdleOk, IdleFacts, FlowMoves
  <2>4. CASE fixture # NoKeys /\ Resumable(job[f]) /\ Continue(f, "identify", job[f].keys)
    <3>1. /\ job'[f].pc = "identify" /\ job'[f].keys = job[f].keys
          /\ job'[f].seen = job[f].seen
      BY <2>1, <2>4, ContinueFacts DEF Underway
    <3>2. job[f].seen # NoRecord
      BY <2>1, <2>4 DEF Resumable, JobOk
    <3>3. JobOk(job[f])'
      BY <2>1, <2>2, <3>1, <3>2 DEF JobOk, Proven, Describes
    <3> QED  BY <2>2, <3>1, <3>2, <3>3, FlowMoves DEF Bare
  <2>5. CASE fixture = NoKeys /\ \E pc \in {"connect", "downgrade"} : Continue(f, pc, job[f].keys)
    <3>1. /\ job'[f].pc \in {"connect", "downgrade"} /\ job'[f].seen = job[f].seen
      BY <2>1, <2>5, ContinueFacts DEF Underway
    <3>2. JobOk(job[f])'
      BY <2>2, <2>5, <3>1, KeysFacts DEF JobOk, Proven
    <3> QED  BY <2>2, <3>1, <3>2, FlowMoves DEF Bare
  <2> QED  BY <1>3, <2>3, <2>4, <2>5 DEF Probe
<1>4. CASE Downgrade(f)
  <2>1. job[f].pc = "downgrade" /\ job[f].keys \in Keys
    BY <1>4 DEF Downgrade, At, HasKeys, Underway
  <2>2. record' = Pending(job[f].keys, FALSE) /\ record' # NoRecord /\ ~record'.committed
    <3>1. Pending(job[f].keys, FALSE) # NoRecord /\ ~Pending(job[f].keys, FALSE).committed
      BY <2>1, PendingFacts
    <3> QED  BY <1>4, <3>1 DEF Downgrade
  <2>3. UNCHANGED <<fixture, entries, setup, accepted, forgotten>>
    BY <1>4 DEF Downgrade
  <2>4. job'[f].pc = "connect" /\ job'[f].seen = job[f].seen
    BY <1>4, <2>1, ContinueFacts DEF Downgrade
  <2>5. JobsOk'
    BY <2>3, <2>4 DEF JobsOk, JobOk, Proven
  <2>6. FixtureOk' /\ RecordsOk' /\ EntryOk' /\ Bare'
    BY <2>1, <2>2, <2>3
       DEF FixtureOk, RecordsOk, EntryOk, Bare, JobOk, Describes, Proven, entries
  <2> QED  BY <2>5, <2>6 DEF CredsOk
<1>5. CASE Identify(f)
  <2>1. job[f].pc = "identify" /\ job[f].keys \in Keys /\ fixture.net = job[f].keys.net
    BY <1>5 DEF Identify, At, HasKeys, Underway
  <2>2. UNCHANGED <<fixture, record, entries, setup, accepted, forgotten>>
    BY <1>5 DEF Identify
  <2>3. fixture \in Keys
    BY <2>1, KeysFacts
  <2>4. fixture = job[f].keys /\ job[f].keys \in accepted /\ job[f].seen # NoRecord
    BY <2>1, <2>3 DEF JobOk, FixtureOk, Describes
  <2>5. /\ job'[f].pc = "adopt" /\ job'[f].keys = job[f].keys
        /\ job'[f].seen = job[f].seen
    BY <1>5, <2>1, ContinueFacts DEF Identify, Underway
  <2>6. JobOk(job[f])'
    BY <2>1, <2>2, <2>4, <2>5 DEF JobOk, Proven, Describes
  <2> QED  BY <2>2, <2>4, <2>5, <2>6, FlowMoves DEF Bare
<1>6. CASE Adopt(f)
  <2>1. job[f].pc = "adopt" /\ job[f].keys \in Keys
    BY <1>6 DEF Adopt, At, HasKeys, Underway
  <2>2. /\ Pending(job[f].keys, TRUE) # NoRecord
        /\ KeysOf(Pending(job[f].keys, TRUE)) = job[f].keys
    BY <2>1, PendingFacts
  <2>3. UNCHANGED <<fixture, entries, setup, accepted, forgotten>>
    BY <1>6 DEF Adopt
  <2>4. /\ job'[f].pc = "finish" /\ job'[f].keys = job[f].keys
        /\ job'[f].seen = job[f].seen
    BY <1>6, <2>1, ContinueFacts DEF Adopt, Underway
  <2>5. job[f].keys \in accepted /\ Describes(job[f].keys) /\ job[f].seen # NoRecord
    BY <2>1 DEF JobOk
  <2>6. JobOk(job[f])'
    BY <2>3, <2>4, <2>5 DEF JobOk, Proven
  <2>7. CASE record' = record
    BY <2>3, <2>4, <2>5, <2>6, <2>7, FlowMoves DEF Bare
  <2>8. CASE record' = Pending(job[f].keys, TRUE)
    <3>1. FixtureOk' /\ RecordsOk' /\ EntryOk' /\ Bare'
      BY <2>2, <2>3, <2>5, <2>8
         DEF FixtureOk, RecordsOk, EntryOk, Bare, Describes, Proven, entries
    <3> QED  BY <2>6, <3>1 DEF CredsOk, JobsOk
  <2> QED  BY <1>6, <2>7, <2>8 DEF Adopt
<1>7. CASE PreData(f)
  <2> DEFINE new == exchanges + 1
             keys == [net |-> IF job[f].keys.net = 0 THEN new ELSE job[f].keys.net, dev |-> new]
  <2>1. /\ fixture = NoKeys /\ exchanges < MaxExchanges
        /\ record' = Pending(keys, FALSE) /\ Continue(f, "data", keys)
        /\ UNCHANGED <<fixture, entries, setup, accepted>>
    BY <1>7 DEF PreData
  <2>2. keys \in Keys
    <3>1. new \in 1..MaxExchanges
      BY <2>1
    <3>2. job[f].keys.net = 0 \/ job[f].keys.net \in 1..MaxExchanges
      BY DEF Keys, NoKeys
    <3> QED  BY <3>1, <3>2 DEF Keys
  <2> HIDE DEF keys
  <2>3. record' # NoRecord /\ ~record'.committed
    <3>1. Pending(keys, FALSE) # NoRecord /\ ~Pending(keys, FALSE).committed
      BY <2>2, PendingFacts
    <3> QED  BY <2>1, <3>1
  <2>4. job'[f].pc = "data" /\ job'[f].keys = keys /\ job'[f].seen = job[f].seen
    BY <2>1, <2>2, ContinueFacts DEF Underway
  <2>5. JobsOk'
    BY <2>1, <2>4 DEF JobsOk, JobOk, Proven
  <2>6. FixtureOk' /\ RecordsOk' /\ EntryOk' /\ Bare'
    BY <2>1, <2>3, KeysFacts DEF FixtureOk, RecordsOk, EntryOk, Bare, Describes, Proven, entries
  <2> QED  BY <2>5, <2>6 DEF CredsOk
<1>8. CASE Data(f)
  <2>1. job[f].pc = "data" /\ job[f].keys \in Keys
    BY <1>8 DEF Data, At, HasKeys, Underway
  <2>2. /\ fixture' = job[f].keys /\ accepted' = accepted \cup {job[f].keys}
        /\ UNCHANGED <<record, entries, setup, forgotten>>
    BY <1>8 DEF Data
  <2>3. \/ job'[f] = Idle
        \/ /\ job'[f].pc = "complete" /\ job'[f].keys = job[f].keys
           /\ job'[f].seen = job[f].seen
    BY <1>8, <2>1, ContinueFacts, GiveUpFacts DEF Data, Underway
  <2>4. JobsOk'
    <3>1. JobOk(job[f])'
      BY <2>2, <2>3, IdleOk DEF JobOk, Proven, Describes
    <3> QED  BY <3>1 DEF JobsOk
  <2>5. /\ KeysOf(Pending(job[f].keys, FALSE)) = job[f].keys
        /\ Pending(job[f].keys, FALSE) # NoRecord
    BY <2>1, PendingFacts
  <2>6. record # NoRecord => KeysOf(record) = job[f].keys
    BY <2>1, <2>5 DEF JobOk
  <2>7. FixtureOk' /\ RecordsOk' /\ EntryOk'
    BY <2>2, <2>6 DEF FixtureOk, RecordsOk, EntryOk, Describes, Proven, entries
  <2>8. Bare'
    BY <2>1, <2>2 DEF Bare
  <2> QED  BY <2>4, <2>7, <2>8 DEF CredsOk
<1>9. CASE Complete(f)
  <2>1. job[f].pc = "complete" /\ job[f].keys \in Keys
    BY <1>9 DEF Complete, At, HasKeys, Underway
  <2>2. /\ Pending(job[f].keys, TRUE) # NoRecord
        /\ KeysOf(Pending(job[f].keys, TRUE)) = job[f].keys
    BY <2>1, PendingFacts
  <2>3. UNCHANGED <<fixture, entries, setup, accepted, forgotten>>
        /\ record' = Pending(job[f].keys, TRUE)
    BY <1>9 DEF Complete
  <2>4. /\ job'[f].pc = "finish" /\ job'[f].keys = job[f].keys
        /\ job'[f].seen = job[f].seen
    BY <1>9, <2>1, ContinueFacts DEF Complete, Underway
  <2>5. job[f].keys \in accepted /\ Describes(job[f].keys)
    BY <2>1 DEF JobOk
  <2>6. JobOk(job[f])'
    BY <2>3, <2>4, <2>5 DEF JobOk, Proven
  <2>7. FixtureOk' /\ RecordsOk' /\ EntryOk' /\ Bare'
    BY <2>2, <2>3, <2>5
       DEF FixtureOk, RecordsOk, EntryOk, Bare, Describes, Proven, entries
  <2> QED  BY <2>6, <2>7 DEF CredsOk, JobsOk
<1>10. CASE FlowFails(f)
  <2>1. UNCHANGED <<fixture, record, entries, setup, accepted, forgotten>>
    BY <1>10 DEF FlowFails
  <2>2. job'[f] = Idle
    BY <1>10, GiveUpFacts DEF FlowFails
  <2> QED  BY <2>1, <2>2, IdleOk, IdleFacts, FlowMoves
<1>11. CASE Finish(f)
  <2>1. job[f].pc = "finish" /\ job[f].keys \in Keys /\ job[f].keys \in accepted
    BY <1>11 DEF Finish, At, HasKeys, Underway, JobOk
  <2>2. job'[f] = Idle /\ UNCHANGED <<fixture, record, savedEntry, accepted, forgotten>>
    BY <1>11, GiveUpFacts DEF Finish
  <2>3. JobsOk'
    BY <2>2, IdleOk DEF JobsOk
  <2>4. KeysOf(entry') \in {KeysOf(entry), job[f].keys}
    <3>1. KeysOf(Entry(job[f].keys, TRUE)) = job[f].keys
      BY <2>1, EntryFacts
    <3>2. entry' \in {entry, Entry(job[f].keys, TRUE)}
      BY <1>11 DEF Finish
    <3> QED  BY <3>1, <3>2
  <2>5. setup'.keys = setup.keys /\ setup'.seen = setup.seen
    <3>1. setup \in Setups
      BY DEF WellTyped, SetupTyped
    <3>2. setup' \in {setup, [setup EXCEPT !.pc = "idle"]}
      BY <1>11 DEF Finish
    <3> QED  BY <3>1, <3>2 DEF Setups
  <2>6. FixtureOk' /\ RecordsOk' /\ EntryOk'
    BY <2>1, <2>2, <2>4, <2>5 DEF FixtureOk, RecordsOk, EntryOk, Describes, Proven
  <2>7. Bare'
    BY <2>1, <2>2 DEF Bare
  <2> QED  BY <2>3, <2>6, <2>7 DEF CredsOk
<1> QED  BY <1>1, <1>2, <1>3, <1>4, <1>5, <1>6, <1>7, <1>8, <1>9, <1>10, <1>11 DEF Flow

LEMMA SetupCreds ==
  ASSUME WellTyped, CredsOk, Setup \/ Reload
  PROVE  CredsOk'
<1>0. /\ setup \in Setups /\ setup.keys \in Keys \cup {NoKeys}
      /\ record \in Records /\ entry \in Entries /\ setup.seen \in Records
      /\ fixture \in Keys \cup {NoKeys, Foreign} /\ accepted \subseteq Keys
      /\ setup.pc = "configure" => setup.keys \in Keys
      /\ setup.pc \in {"read", "configure"} => entry # NoEntry
  BY DEF WellTyped, FixtureTyped, StoresTyped, SetupTyped, CountsTyped, Setups
<1>00. FixtureOk /\ RecordsOk /\ EntryOk /\ JobsOk /\ Bare
  BY DEF CredsOk
<1> USE <1>0, <1>00
<1>1. UNCHANGED <<fixture, record, savedEntry, job, accepted, forgotten>>
  BY DEF Setup, SetupRead, Reconcile, Configure, ConfigureFails, Reload, entries
<1>2. JobsOk' /\ FixtureOk'
  BY <1>1 DEF JobsOk, JobOk, FixtureOk, Describes, Proven
<1>3. ASSUME KeysOf(entry') \in accepted \cup {NoKeys}, setup'.keys \in accepted \cup {NoKeys},
             Proven(setup'.seen),
             record = NoRecord /\ ~forgotten =>
               /\ setup'.seen = NoRecord /\ Describes(KeysOf(entry'))
               /\ setup'.pc = "configure" => setup'.keys = KeysOf(entry')
      PROVE  CredsOk'
  <2>1. RecordsOk' /\ EntryOk'
    BY <1>1, <1>3 DEF RecordsOk, Proven, EntryOk
  <2>2. Bare'
    BY <1>1, <1>3 DEF Bare, Describes
  <2> QED  BY <1>2, <2>1, <2>2 DEF CredsOk
<1>4. Proven(NoRecord)
  BY NoRecordFacts DEF Proven
<1>5. CASE SetupRead
  <2>1. setup'.seen = record /\ setup'.keys = NoKeys /\ setup'.pc = "read" /\ entry' = entry
    BY <1>5 DEF SetupRead, entries
  <2> QED  BY <1>3, <2>1 DEF RecordsOk, EntryOk, Bare
<1>6. CASE Reconcile
  <2>1. setup.pc = "read" /\ KeysOf(entry) \in accepted \cup {NoKeys}
    BY <1>6 DEF Reconcile, EntryOk
  <2>2. CASE Uncertain(setup.seen, entry)
    <3>1. entry' = entry /\ SetupEnds("idle", NoKeys)
      BY <1>6, <2>2 DEF Reconcile
    <3>2. setup'.seen = NoRecord /\ setup'.keys = NoKeys /\ setup'.pc # "configure"
      BY <3>1, SetupEndsFacts
    <3> QED  BY <1>3, <1>4, <2>1, <3>1, <3>2 DEF Bare
  <2>3. CASE ~Uncertain(setup.seen, entry)
    <3>1. /\ KeysOf(Reconciled) \in accepted \cup {NoKeys}
          /\ record = NoRecord /\ ~forgotten => Describes(KeysOf(Reconciled))
      <4>1. CASE Replaces(setup.seen, entry)
        <5>1. setup.seen # NoRecord /\ setup.seen.committed
          BY <2>3, <4>1, RecordFacts DEF Uncertain, Replaces
        <5>2. KeysOf(setup.seen) \in Keys /\ KeysOf(setup.seen) \in accepted
          BY <5>1, RecordFacts DEF RecordsOk, Proven
        <5>3. Reconciled = Entry(KeysOf(setup.seen), TRUE)
          BY <4>1 DEF Reconciled
        <5>4. KeysOf(Reconciled) = KeysOf(setup.seen)
          BY <5>2, <5>3, EntryFacts
        <5> QED  BY <5>1, <5>2, <5>4 DEF Bare
      <4>2. CASE ~Replaces(setup.seen, entry)
        BY <2>1, <4>2 DEF Reconciled, Bare
      <4> QED  BY <4>1, <4>2
    <3>2. /\ entry' = Reconciled
          /\ \/ setup' = [pc |-> "configure", seen |-> NoRecord, keys |-> KeysOf(Reconciled)]
             \/ SetupEnds("running", KeysOf(Reconciled))
             \/ SetupEnds("idle", NoKeys)
      BY <1>6, <2>3 DEF Reconcile
    <3>3. /\ setup'.seen = NoRecord
          /\ \/ setup'.keys \in {KeysOf(Reconciled), NoKeys} /\ setup'.pc # "configure"
             \/ setup'.keys = KeysOf(Reconciled)
      BY <3>1, <3>2, SetupEndsFacts
    <3> QED  BY <1>3, <1>4, <3>1, <3>2, <3>3
  <2> QED  BY <2>2, <2>3
<1>7. CASE Configure \/ ConfigureFails
  <2>1. setup.pc = "configure" /\ setup.keys \in Keys /\ setup.keys \in accepted
    BY <1>7, KeysFacts DEF Configure, ConfigureFails, EntryOk
  <2>2. KeysOf(entry') \in {KeysOf(entry), setup.keys}
    <3>1. /\ KeysOf(Entry(setup.keys, FALSE)) = setup.keys
          /\ KeysOf(Entry(setup.keys, TRUE)) = setup.keys
      BY <2>1, EntryFacts
    <3>2. entry' \in {entry, Entry(setup.keys, FALSE), Entry(setup.keys, TRUE)}
      BY <1>7 DEF Configure, ConfigureFails
    <3> QED  BY <3>1, <3>2
  <2>3. SetupEnds("idle", NoKeys) \/ SetupEnds("running", setup.keys)
    BY <1>7 DEF Configure, ConfigureFails
  <2>4. setup'.pc # "configure" /\ setup'.keys \in {setup.keys, NoKeys} /\ setup'.seen = NoRecord
    BY <2>1, <2>3, SetupEndsFacts
  <2> QED  BY <1>3, <1>4, <2>1, <2>2, <2>4 DEF EntryOk, Bare
<1>8. CASE Reload
  <2>1. setup' = Rest /\ entry' = entry
    BY <1>8 DEF Reload, entries
  <2> QED  BY <1>3, <1>4, <2>1, RestFacts DEF EntryOk, Bare
<1> QED  BY <1>5, <1>6, <1>7, <1>8 DEF Setup

LEMMA RemovalCreds ==
  ASSUME WellTyped, CredsOk, StartRemove \/ Release \/ Removal
  PROVE  CredsOk'
<1>0. FixtureOk /\ RecordsOk /\ EntryOk /\ JobsOk /\ Bare
  BY DEF CredsOk
<1> USE <1>0
<1>1. Proven(NoRecord)
  BY NoRecordFacts DEF Proven
<1>2. CASE StartRemove
  <2>1. UNCHANGED <<fixture, record, entries, job, accepted, forgotten>> /\ setup' = Rest
    BY <1>2 DEF StartRemove
  <2>2. FixtureOk' /\ RecordsOk' /\ EntryOk' /\ JobsOk'
    BY <1>1, <2>1, RestFacts
       DEF FixtureOk, RecordsOk, EntryOk, JobsOk, JobOk, Describes, Proven, entries
  <2>3. Bare'
    BY <2>1, RestFacts DEF Bare, Describes, entries
  <2> QED  BY <2>2, <2>3 DEF CredsOk
<1>3. CASE Release
  <2>1. UNCHANGED <<record, entries, job, setup, accepted, forgotten>> /\ fixture' = NoKeys
    BY <1>3 DEF Release
  <2> QED  BY <2>1, KeysFacts
           DEF CredsOk, FixtureOk, RecordsOk, EntryOk, JobsOk, JobOk, Bare, Describes, Proven,
               entries
<1>4. CASE Forget
  <2>1. /\ UNCHANGED <<fixture, entries, job, setup, accepted>>
        /\ record' \in {record, NoRecord} /\ forgotten'
    BY <1>4 DEF Forget
  <2>2. FixtureOk' /\ RecordsOk' /\ EntryOk' /\ Bare'
    BY <1>1, <2>1 DEF FixtureOk, RecordsOk, EntryOk, Bare, Describes, Proven, entries
  <2>3. JobsOk'
    BY <2>1 DEF JobsOk, JobOk, Describes, Proven
  <2> QED  BY <2>2, <2>3 DEF CredsOk
<1>5. CASE Remove
  <2>1. UNCHANGED <<fixture, record, savedEntry, job, setup, accepted>> /\ forgotten'
        /\ KeysOf(entry') = NoKeys
    BY <1>5, NoEntryFacts DEF Remove
  <2>2. FixtureOk' /\ RecordsOk' /\ EntryOk' /\ Bare'
    BY <2>1 DEF FixtureOk, RecordsOk, EntryOk, Bare, Describes, Proven
  <2>3. JobsOk'
    BY <2>1 DEF JobsOk, JobOk, Describes, Proven
  <2> QED  BY <2>2, <2>3 DEF CredsOk
<1> QED  BY <1>2, <1>3, <1>4, <1>5 DEF Removal

LEMMA EnvironmentCreds ==
  ASSUME WellTyped, CredsOk, FactoryReset \/ AdoptElsewhere \/ FlushEntry \/ Crash
  PROVE  CredsOk'
<1>0. FixtureOk /\ RecordsOk /\ EntryOk /\ JobsOk /\ Bare
  BY DEF CredsOk
<1> USE <1>0
<1>1. CASE FactoryReset \/ AdoptElsewhere
  <2>1. /\ UNCHANGED <<record, entries, job, setup, accepted, forgotten>>
        /\ fixture' = NoKeys \/ (fixture' = Foreign /\ LinkFree)
    BY <1>1 DEF FactoryReset, AdoptElsewhere
  <2>2. fixture' \notin Keys
    BY <2>1, KeysFacts
  <2>3. JobsOk'
    BY <2>1, <2>2 DEF JobsOk, JobOk, Describes, Proven, LinkFree, At
  <2> QED  BY <2>1, <2>2, <2>3
           DEF CredsOk, FixtureOk, RecordsOk, EntryOk, Bare, Describes, Proven, entries
<1>2. CASE FlushEntry
  <2>1. UNCHANGED <<fixture, record, entry, job, setup, accepted, forgotten>>
        /\ savedEntry' = entry
    BY <1>2 DEF FlushEntry
  <2>2. JobsOk'
    BY <2>1 DEF JobsOk, JobOk, Describes, Proven
  <2> QED  BY <2>1, <2>2 DEF CredsOk, FixtureOk, RecordsOk, EntryOk, Bare, Describes, Proven
<1>3. CASE Crash
  <2>1. /\ UNCHANGED <<fixture, record, savedEntry, accepted, forgotten>>
        /\ entry' = savedEntry /\ setup' = Rest /\ job' = [f \in Flows |-> Idle]
    BY <1>3 DEF Crash
  <2>2. \A f \in Flows : job'[f] = Idle
    BY <2>1
  <2>3. JobsOk'
    BY <2>2, IdleOk DEF JobsOk
  <2>4. RecordsOk'
    BY <2>1, RestFacts, NoRecordFacts DEF RecordsOk, Proven
  <2>5. Bare'
    BY <2>1, <2>2, IdleFacts, RestFacts DEF Bare, Describes
  <2> QED  BY <2>1, <2>3, <2>4, <2>5, RestFacts DEF CredsOk, FixtureOk, EntryOk, Describes
<1> QED  BY <1>1, <1>2, <1>3

IInv == WellTyped /\ CredsOk

LEMMA Inductive == ASSUME OneFlow PROVE Spec => []IInv
<1>1. Init => IInv
  BY TypeInit, CredsInit DEF IInv
<1>2. IInv /\ [Next]_vars => IInv'
  <2> SUFFICES ASSUME IInv, [Next]_vars PROVE IInv'
    OBVIOUS
  <2>1. WellTyped /\ CredsOk /\ WellTyped'
    BY TypeStep DEF IInv
  <2>2. CASE UNCHANGED vars
    BY <2>1, <2>2 DEF IInv, CredsOk, FixtureOk, RecordsOk, EntryOk, JobsOk, JobOk, Bare,
                      Describes, Proven, vars, entries
  <2>3. CASE Next
    BY <2>1, <2>3, FlowCreds, SetupCreds, RemovalCreds, EnvironmentCreds DEF IInv, Next
  <2> QED  BY <2>2, <2>3
<1> QED  BY <1>1, <1>2, PTL DEF Spec

(* With one flow at a time, the keys of a fixture in our mesh are on disk  *)
(* until the user gives them up, whatever fails, crashes or is reset.      *)
THEOREM NeverLost == ASSUME OneFlow PROVE Spec => []KeysNeverLost
<1>1. IInv => KeysNeverLost
  BY DEF IInv, CredsOk, FixtureOk, Bare, Describes, KeysNeverLost
<1> QED  BY <1>1, Inductive, PTL

(* With one flow at a time, the entry only ever holds keys that the        *)
(* fixture accepted.                                                       *)
THEOREM AcceptedOnly == ASSUME OneFlow PROVE Spec => []OnlyAcceptedKeys
<1>1. IInv => OnlyAcceptedKeys
  BY DEF IInv, CredsOk, EntryOk, OnlyAcceptedKeys
<1> QED  BY <1>1, Inductive, PTL

===============================================================================
