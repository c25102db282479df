------------------------- MODULE ProvisioningRecovery -------------------------
(***************************************************************************)
(* Provisioning of one fixture and everything that keeps its credentials:  *)
(* the pending record on disk (pending.py), async_provision_fixture and    *)
(* the flows that call it (config_flow.py, repairs.py), the config entry   *)
(* in memory and on disk, and the entry's setup with its reconciliation    *)
(* (__init__.py).                                                          *)
(*                                                                         *)
(* The Provisioning Data PDU is irreversible and Home Assistant may stop   *)
(* at any instruction, so every await is a boundary between two actions.   *)
(*                                                                         *)
(* Abstractions:                                                           *)
(*   - credentials are the numbers of the exchanges that made them: a      *)
(*     fresh NetKey has the number of the exchange it is first used in;    *)
(*   - advertisements are cached additively, so a flow may be offered at   *)
(*     any time; what it then reads, probes and verifies is modelled;      *)
(*   - a save is atomic and verified, it lands or it raises;               *)
(*   - addresses, names and product ids are left out.                      *)
(* MaxExchanges bounds the handshakes, MaxMishaps the crashes, factory     *)
(* resets, foreign adoptions and removals of one behaviour.                *)
(***************************************************************************)
EXTENDS Integers

CONSTANTS
  Flows,          \* tasks that may run async_provision_fixture
  MaxExchanges,
  MaxMishaps

ASSUME BoundAssumption == MaxExchanges \in Nat \ {0} /\ MaxMishaps \in Nat

VARIABLES
  fixture,            \* the credentials the fixture accepted
  record,             \* the pending record of its stable address, on disk
  entry, savedEntry,  \* the config entry in memory and on disk
  job,                \* each flow's place in async_provision_fixture
  setup, reload,      \* async_setup_entry, and a reload waiting for it
  removing,           \* the place of async_remove_entry, and the entry's keys
  exchanges, mishaps,
  accepted,           \* all credentials the fixture ever accepted (history)
  forgotten           \* the user removed the entry since the last exchange

entries == <<entry, savedEntry>>
bounds  == <<exchanges, mishaps>>
vars == <<fixture, record, entries, job, setup, reload, removing, bounds, accepted,
          forgotten>>

Keys     == [net : 1..MaxExchanges, dev : 1..MaxExchanges]
NoKeys   == [net |-> 0, dev |-> 0]       \* a factory-fresh fixture
Foreign  == [net |-> -1, dev |-> -1]     \* a fixture in somebody else's mesh
NoRecord == [net |-> 0, dev |-> 0, committed |-> FALSE]
NoEntry  == [net |-> 0, dev |-> 0, needs |-> FALSE]

KeysOf(r) == [net |-> r.net, dev |-> r.dev]
Pending(keys, committed) == [net |-> keys.net, dev |-> keys.dev, committed |-> committed]
Entry(keys, needs) == [net |-> keys.net, dev |-> keys.dev, needs |-> needs]

-------------------------------------------------------------------------------
(* async_provision_fixture.  "seen" is the record it read first, "keys"    *)
(* what it provisions with or returns; net = 0 stands for a fresh NetKey.  *)

Idle == [pc |-> "idle", mode |-> "none", seen |-> NoRecord, original |-> NoKeys,
         keys |-> NoKeys]

At(f, pc) == job[f].pc = pc
Continue(f, pc, keys) == job' = [job EXCEPT ![f].pc = pc, ![f].keys = keys]
GiveUp(f) == job' = [job EXCEPT ![f] = Idle]

(* Home Assistant runs one config flow per unique id, and none for a       *)
(* configured one.  "add" starts from an advertisement of the address,     *)
(* "recover" from one that matched the record's network.  A committed      *)
(* record is adopted as it is, except over an alternate address.           *)
StartAdd(f, mode) ==
  /\ At(f, "idle") /\ entry = NoEntry
  /\ \A g \in Flows : job[g].mode \notin {"add", "recover"}
  /\ mode = "recover" => record # NoRecord
  /\ LET start(pc, keys) == job' = [job EXCEPT ![f] =
           [pc |-> pc, mode |-> mode, seen |-> record, original |-> NoKeys, keys |-> keys]]
     IN \/ record = NoRecord /\ start("connect", NoKeys)
        \/ record # NoRecord /\ record.committed /\ mode = "add"
           /\ start("finish", KeysOf(record))
        \/ record # NoRecord /\ (~record.committed \/ mode = "recover")
           /\ start("probe", KeysOf(record))
  /\ UNCHANGED <<fixture, record, entries, setup, reload, removing, bounds, accepted,
                 forgotten>>

(* Mutant: the entry's own credentials are not a fallback.                 *)
PreparedFromRecord(r, e) == KeysOf(r)

(* A repair works on the record, or on the entry where there is none.      *)
Prepared(r, e) == IF r = NoRecord THEN KeysOf(e) ELSE KeysOf(r)

(* A repair or a reconfiguration of an existing entry.                     *)
StartRepair(f) ==
  /\ At(f, "idle") /\ entry # NoEntry
  /\ job' = [job EXCEPT ![f] =
       [pc |-> "probe", mode |-> "repair", seen |-> record, original |-> KeysOf(entry),
        keys |-> Prepared(record, entry)]]
  /\ UNCHANGED <<fixture, record, entries, setup, reload, removing, bounds, accepted,
                 forgotten>>

(* A Mesh Proxy is worth identifying unless the record is only the copy    *)
(* kept for a configured entry.                                            *)
Resumable(j) ==
  j.mode = "repair" => j.seen # NoRecord /\ j.seen.dev # j.original.dev

(* A fixture accepts one link, and a handshake holds it.                   *)
LinkFree == \A g \in Flows : ~At(g, "data")

(* _async_probe_mesh_bearer: a provisioned fixture exposes the proxy.      *)
Probe(f) ==
  LET j == job[f]
  IN /\ At(f, "probe") /\ LinkFree
     /\ \/ fixture # NoKeys /\ Resumable(j) /\ Continue(f, "identify", j.keys)
        \/ fixture # NoKeys /\ ~Resumable(j) /\ GiveUp(f)
        \/ fixture = NoKeys /\ j.mode = "recover" /\ GiveUp(f)
        \/ /\ fixture = NoKeys /\ j.mode = "add"
           /\ Continue(f, "connect", j.keys)
        \/ /\ fixture = NoKeys /\ j.mode = "repair"
           /\ Continue(f, IF j.seen = Pending(j.keys, FALSE) THEN "connect" ELSE "downgrade",
                       j.keys)
     /\ UNCHANGED <<fixture, record, entries, setup, reload, removing, bounds, accepted,
                    forgotten>>

(* The record of a fixture that was reset no longer describes it.          *)
Downgrade(f) ==
  /\ At(f, "downgrade")
  /\ record' = Pending(job[f].keys, FALSE)
  /\ Continue(f, "connect", job[f].keys)
  /\ UNCHANGED <<fixture, entries, setup, reload, removing, bounds, accepted, forgotten>>

(* _async_verify_proxy_identity proves the NetKey.                         *)
Identify(f) ==
  /\ At(f, "identify")
  /\ fixture.net = job[f].keys.net
  /\ Continue(f, "adopt", job[f].keys)
  /\ UNCHANGED <<fixture, record, entries, setup, reload, removing, bounds, accepted,
                 forgotten>>

(* The uncertain credentials are promoted; a record that already says so   *)
(* need not be written again.                                              *)
Adopt(f) ==
  /\ At(f, "adopt")
  /\ \/ record' = Pending(job[f].keys, TRUE)
     \/ job[f].seen.committed /\ job[f].mode # "recover" /\ UNCHANGED record
  /\ Continue(f, "finish", job[f].keys)
  /\ UNCHANGED <<fixture, entries, setup, reload, removing, bounds, accepted, forgotten>>

(* Mutant: the credentials are kept in memory until Complete arrives.       *)
PreDataUnsaved(f) ==
  LET new == exchanges + 1
      keys == [net |-> IF job[f].keys.net = 0 THEN new ELSE job[f].keys.net, dev |-> new]
  IN /\ At(f, "connect")
     /\ fixture = NoKeys /\ LinkFree /\ exchanges < MaxExchanges
     /\ exchanges' = new
     /\ forgotten' = FALSE
     /\ Continue(f, "data", keys)
     /\ UNCHANGED <<fixture, record, entries, setup, reload, removing, mishaps, accepted>>

(* The handshake succeeds with a factory-fresh fixture, and                *)
(* save_before_commit stores the new credentials.                          *)
PreData(f) ==
  LET new == exchanges + 1
      keys == [net |-> IF job[f].keys.net = 0 THEN new ELSE job[f].keys.net, dev |-> new]
  IN /\ At(f, "connect")
     /\ fixture = NoKeys /\ LinkFree /\ exchanges < MaxExchanges
     /\ exchanges' = new
     /\ record' = Pending(keys, FALSE)
     /\ forgotten' = FALSE
     /\ Continue(f, "data", keys)
     /\ UNCHANGED <<fixture, entries, setup, reload, removing, mishaps, accepted>>

(* Provisioning Data: accepted, with or without Complete coming back.      *)
Data(f) ==
  /\ At(f, "data")
  /\ fixture' = job[f].keys
  /\ accepted' = accepted \cup {job[f].keys}
  /\ Continue(f, "complete", job[f].keys) \/ GiveUp(f)
  /\ UNCHANGED <<record, entries, setup, reload, removing, bounds, forgotten>>

Complete(f) ==
  /\ At(f, "complete")
  /\ record' = Pending(job[f].keys, TRUE)
  /\ Continue(f, "finish", job[f].keys)
  /\ UNCHANGED <<fixture, entries, setup, reload, removing, bounds, accepted, forgotten>>

(* A connection, a handshake, a verification or a save fails, or times out.*)
FlowFails(f) ==
  /\ job[f].pc \notin {"idle", "finish"}
  /\ GiveUp(f)
  /\ UNCHANGED <<fixture, record, entries, setup, reload, removing, bounds, accepted,
                 forgotten>>

(* The entry is created, or updated and reloaded.  A reload waits for a    *)
(* setup that is under way; a removed entry cannot be updated.             *)
Finish(f) ==
  /\ At(f, "finish")
  /\ GiveUp(f)
  /\ IF job[f].mode = "repair" /\ entry = NoEntry
     THEN UNCHANGED <<entry, setup, reload>>
     ELSE /\ entry' = Entry(job[f].keys, TRUE)
          /\ setup' = IF setup.pc = "running" THEN [setup EXCEPT !.pc = "idle"] ELSE setup
          /\ reload' = (setup.pc \in {"read", "configure"})
  /\ UNCHANGED <<fixture, record, savedEntry, removing, bounds, accepted, forgotten>>

-------------------------------------------------------------------------------
(* async_setup_entry, which Home Assistant repeats until it succeeds, but  *)
(* not while it removes the entry.                                         *)

Stays == [pc |-> "no", keys |-> NoKeys]
Rest == [pc |-> "idle", seen |-> NoRecord, keys |-> NoKeys]

(* An attempt ends; a waiting reload starts the next one at once.          *)
SetupEnds(pc, keys) ==
  /\ setup' = IF reload THEN Rest ELSE [pc |-> pc, seen |-> NoRecord, keys |-> keys]
  /\ reload' = FALSE

SetupRead ==
  /\ setup.pc = "idle" /\ entry # NoEntry /\ removing = Stays
  /\ setup' = [pc |-> "read", seen |-> record, keys |-> NoKeys]
  /\ UNCHANGED <<fixture, record, entries, job, reload, removing, bounds, accepted,
                 forgotten>>

(* A newer DeviceKey of the same subnet.                                   *)
Replaces(r, e) == r # NoRecord /\ r.net = e.net /\ r.dev # e.dev

(* Mutant: a newer DeviceKey is trusted, confirmed or not.                 *)
UncertainNever(r, e) == FALSE

(* It was saved before Provisioning Data, and nobody confirmed it since.   *)
Uncertain(r, e) == Replaces(r, e) /\ ~r.committed

(* Mutant: reconciliation leaves the entry as the disk had it.              *)
ReconciledStale == entry

(* The entry a completed repair should have left behind.                   *)
Reconciled ==
  IF Replaces(setup.seen, entry) THEN Entry(KeysOf(setup.seen), TRUE) ELSE entry

(* Uncertain credentials stop the setup; otherwise it goes on with the     *)
(* reconciled entry: configures the node if that is still due, and starts. *)
Reconcile ==
  /\ setup.pc = "read"
  /\ \/ /\ Uncertain(setup.seen, entry)
        /\ SetupEnds("idle", NoKeys)
        /\ UNCHANGED entry
     \/ /\ ~Uncertain(setup.seen, entry)
        /\ entry' = Reconciled
        /\ \/ /\ Reconciled.needs
              /\ setup' = [pc |-> "configure", seen |-> NoRecord, keys |-> KeysOf(Reconciled)]
              /\ UNCHANGED reload
           \/ /\ ~Reconciled.needs
              /\ SetupEnds("running", KeysOf(Reconciled)) \/ SetupEnds("idle", NoKeys)
  /\ UNCHANGED <<fixture, record, savedEntry, job, removing, bounds, accepted, forgotten>>

(* Configuration succeeds only with the fixture's own keys.  The entry is  *)
(* written from the copy taken before it began.                            *)
Configure ==
  /\ setup.pc = "configure"
  /\ fixture = setup.keys
  /\ entry' = Entry(setup.keys, FALSE)
  /\ SetupEnds("running", setup.keys) \/ SetupEnds("idle", NoKeys)
  /\ UNCHANGED <<fixture, record, savedEntry, job, removing, bounds, accepted, forgotten>>

(* A NodeConfigurationError writes that copy back too.                     *)
ConfigureFails ==
  /\ setup.pc = "configure"
  /\ entry' \in {entry, Entry(setup.keys, TRUE)}
  /\ SetupEnds("idle", NoKeys)
  /\ UNCHANGED <<fixture, record, savedEntry, job, removing, bounds, accepted, forgotten>>

(* Options change, or the user reloads the entry.                          *)
Reload ==
  /\ setup.pc = "running"
  /\ setup' = Rest
  /\ UNCHANGED <<fixture, record, entries, job, reload, removing, bounds, accepted,
                 forgotten>>

-------------------------------------------------------------------------------
(* async_remove_entry: unload, reset the node, forget the record; only     *)
(* then does Home Assistant drop the entry, and write that down later.     *)

Mishap == mishaps < MaxMishaps /\ mishaps' = mishaps + 1

StartRemove ==
  /\ Mishap
  /\ entry # NoEntry /\ setup.pc \in {"idle", "running"} /\ removing = Stays
  /\ removing' = [pc |-> "release", keys |-> KeysOf(entry)]
  /\ setup' = Rest
  /\ UNCHANGED <<fixture, record, entries, job, reload, exchanges, accepted, forgotten>>

(* async_release_node reaches a fixture only with its own keys.            *)
Release ==
  /\ removing.pc = "release" /\ fixture = removing.keys
  /\ fixture' = NoKeys
  /\ UNCHANGED <<record, entries, job, setup, reload, removing, bounds, accepted,
                 forgotten>>

(* The fixture may be out of reach and the record may stay: removal        *)
(* succeeds anyway.                                                        *)
Forget ==
  /\ removing.pc = "release"
  /\ removing' = [removing EXCEPT !.pc = "remove"]
  /\ record' \in {record, NoRecord}
  /\ forgotten' = TRUE
  /\ UNCHANGED <<fixture, entries, job, setup, reload, bounds, accepted>>

Remove ==
  /\ removing.pc = "remove"
  /\ removing' = Stays
  /\ entry' = NoEntry
  /\ forgotten' = TRUE
  /\ UNCHANGED <<fixture, record, savedEntry, job, setup, reload, bounds, accepted>>

-------------------------------------------------------------------------------
(* The environment.                                                        *)

FactoryReset ==
  /\ Mishap
  /\ fixture # NoKeys
  /\ fixture' = NoKeys
  /\ UNCHANGED <<record, entries, job, setup, reload, removing, exchanges, accepted,
                 forgotten>>

AdoptElsewhere ==
  /\ Mishap
  /\ fixture = NoKeys /\ LinkFree
  /\ fixture' = Foreign
  /\ UNCHANGED <<record, entries, job, setup, reload, removing, exchanges, accepted,
                 forgotten>>

FlushEntry ==
  /\ savedEntry' = entry
  /\ UNCHANGED <<fixture, record, entry, job, setup, reload, removing, bounds, accepted,
                 forgotten>>

Crash ==
  /\ Mishap
  /\ entry' = savedEntry
  /\ job' = [f \in Flows |-> Idle]
  /\ setup' = Rest /\ reload' = FALSE /\ removing' = Stays
  /\ UNCHANGED <<fixture, record, savedEntry, exchanges, accepted, forgotten>>

-------------------------------------------------------------------------------
(* A new installation, or one configured by a version without records.     *)
Init ==
  /\ \/ /\ fixture = NoKeys /\ entry = NoEntry /\ exchanges = 0 /\ accepted = {}
     \/ /\ fixture = [net |-> 1, dev |-> 1] /\ entry = Entry(fixture, FALSE)
        /\ exchanges = 1 /\ accepted = {fixture}
  /\ record = NoRecord
  /\ savedEntry = entry
  /\ job = [f \in Flows |-> Idle]
  /\ setup = Rest /\ reload = FALSE /\ removing = Stays
  /\ mishaps = 0
  /\ forgotten = FALSE

Flow(f) ==
  \/ StartAdd(f, "add") \/ StartAdd(f, "recover") \/ StartRepair(f)
  \/ Probe(f) \/ Downgrade(f) \/ Identify(f) \/ Adopt(f)
  \/ PreData(f) \/ Data(f) \/ Complete(f) \/ FlowFails(f) \/ Finish(f)

Setup == SetupRead \/ Reconcile \/ Configure \/ ConfigureFails

Removal == Forget \/ Remove

Next ==
  \/ \E f \in Flows : Flow(f)
  \/ Setup \/ Reload
  \/ StartRemove \/ Release \/ Removal
  \/ FactoryReset \/ AdoptElsewhere \/ FlushEntry \/ Crash

(* Home Assistant retries a setup that is not ready, an accepted repair is *)
(* carried into the entry without waiting for anything, and a removal      *)
(* ends.                                                                   *)
Fairness ==
  /\ WF_vars(Setup) /\ WF_vars(Removal)
  /\ \A f \in Flows : WF_vars(Finish(f))

Spec == Init /\ [][Next]_vars /\ Fairness

-------------------------------------------------------------------------------
(* Properties.                                                             *)

(* Every variable keeps its type, and a repair always has credentials to   *)
(* start from, so that it never leaves the entry's subnet for a fresh one  *)
(* (config_flow.py:866-880).                                               *)
TypeOK ==
  /\ fixture \in Keys \cup {NoKeys, Foreign}
  /\ KeysOf(record) \in Keys \cup {NoKeys} /\ record.committed \in BOOLEAN
  /\ KeysOf(entry) \in Keys \cup {NoKeys} /\ entry.needs \in BOOLEAN
  /\ KeysOf(savedEntry) \in Keys \cup {NoKeys} /\ savedEntry.needs \in BOOLEAN
  /\ \A f \in Flows : /\ job[f].keys \in Keys \cup {NoKeys}
                      /\ job[f].mode = "repair" => job[f].keys \in Keys
  /\ setup.pc \in {"idle", "read", "configure", "running"}
  /\ exchanges \in 0..MaxExchanges /\ mishaps \in 0..MaxMishaps
  /\ accepted \subseteq Keys

(* Once the fixture accepted credentials, only they can recover or reset   *)
(* it: whatever failed or crashed since, they are on disk, in the pending  *)
(* record or in the entry, until the user removes the entry                *)
(* (provisioning.py:311-314, __init__.py:336-341).                         *)
KeysNeverLost ==
  fixture \in Keys /\ ~forgotten => fixture \in {KeysOf(record), KeysOf(savedEntry)}

(* The entry never holds credentials that the fixture did not accept: what *)
(* was saved before Provisioning Data is promoted only on proof            *)
(* (config_flow.py:640-715, 810-823, __init__.py:124-131).                 *)
OnlyAcceptedKeys == {KeysOf(entry), KeysOf(savedEntry)} \subseteq accepted \cup {NoKeys}

(* A repair that Provisioning Complete confirmed reaches the entry and     *)
(* stays there, even if Home Assistant stopped before it was updated or    *)
(* written, or a setup with the old keys writes its copy back              *)
(* (__init__.py:83-149, reconfiguration.py:173-193).                       *)
RepairReachesEntry ==
  <>[](record.committed /\ fixture = KeysOf(record) /\ entry.net = record.net
         => KeysOf(entry) = KeysOf(record))
===============================================================================
