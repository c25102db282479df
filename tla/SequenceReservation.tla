------------------------- MODULE SequenceReservation -------------------------
(***************************************************************************)
(* Durable reservation of Bluetooth Mesh sequence numbers, and the tasks   *)
(* that draw numbers from it.                                              *)
(*                                                                         *)
(* A session (runtime, configuration or release of one fixture) loads the  *)
(* stores, creates a SequenceReservation (amaranble/sequence.py) and hands *)
(* its next number to one ProxyClient per connection.  Inside a proxy the  *)
(* Foreground operation, which owns the AmaranLight operation lock, and    *)
(* the background AckTasks that acknowledge inbound segments draw numbers  *)
(* under _sequence_lock and then queue for the bearer's write lock.        *)
(*                                                                         *)
(* Simplifications, each sound for the properties below:                   *)
(*   - a message is the single PDU it sends next: the loops over retries   *)
(*     and segments are repeated draws by the same task;                   *)
(*   - a cancelled store write has either landed or not at the instant of  *)
(*     the cancellation;                                                   *)
(*   - Connect waits for the foreground operation of the previous proxy,   *)
(*     as the operation lock makes every reconnection after start-up do.   *)
(***************************************************************************)
EXTENDS Integers, FiniteSets

CONSTANTS
  Space,        \* SEQUENCE_SPACE = 2^24
  Block,        \* SEQUENCE_CHECKPOINT = 512
  HasCompat,    \* whether a second, rollback-compatible store is kept
  Foreground,   \* the operation that owns the operation lock
  AckTasks      \* tasks of ProxyClient._background_tasks

ASSUME SpaceAssumption == Space \in Nat \ {0}
ASSUME BlockAssumption == Block \in Nat \ {0}
ASSUME CompatAssumption == HasCompat \in BOOLEAN
ASSUME TaskAssumption == Foreground \notin AckTasks

VARIABLES
  stable, compat,         \* the two stores on disk
  initial, savedInitial,  \* CONF_INITIAL_SEQUENCE in memory and on disk
  session,                \* which kind of session owns the reservation
  next, reserved,         \* SequenceReservation.next_sequence, _reserved_until
  linked, seq,            \* the proxy's link, and ProxyClient._seq
  pc,                     \* where each task is in _next_seq and send
  pdu, turn, arrivals,    \* SEQ of each queued PDU, its place in the queue
  frontier                \* one above the last SEQ put on the wire

stores  == <<stable, compat>>
entry   == <<initial, savedInitial>>
tasks   == <<pc, pdu, turn, arrivals>>
vars    == <<stores, entry, session, next, reserved, linked, seq, tasks, frontier>>

Tasks == {Foreground} \cup AckTasks

Larger(a, b)  == IF a > b THEN a ELSE b
Smaller(a, b) == IF a < b THEN a ELSE b

-------------------------------------------------------------------------------
(* Store records.  "sequence" is the version 0.1 format.                   *)

Record == [kind : {"none", "sequence", "reserved"}, value : 0..Space]
NoRecord == [kind |-> "none", value |-> 0]
Reserved(until) == [kind |-> "reserved", value |-> until]

(* Mutant: the one-block migration skip of the old format is forgotten.     *)
HighWaterNoSkip(record) == record.value

(* The next safe number one store vouches for, 0 when it is empty.         *)
HighWater(record) ==
  IF record.kind = "sequence" THEN record.value + Block ELSE record.value

(* Mutant: only the stable store is consulted.                              *)
StableHighWater == HighWater(stable)

(* Merge of both stores; 0 stands for "nothing stored".                    *)
MergedHighWater == Larger(HighWater(stable), HighWater(compat))

NothingStored == stable.kind = "none" /\ compat.kind = "none"

RoundUp(n) == ((n + Block - 1) \div Block) * Block

(* Mutant: a new mesh starts at the configured minimum.                     *)
CreateNextUnskipped(minimum) == Larger(MergedHighWater, minimum)

(* SequenceReservation.create over the merged stores.                      *)
CreateNext(minimum) ==
  IF NothingStored
  THEN RoundUp(Larger(minimum, Block))
  ELSE Larger(MergedHighWater, minimum)

(* Mutant: the last block runs past the space.                              *)
ReserveUntilUnclamped(s) == s + Block

(* Exclusive end of the block that ensure_reserved saves for number s.     *)
ReserveUntil(s) == Smaller(s + Block, Space)

-------------------------------------------------------------------------------
(* What the version that wrote a record may have transmitted before the    *)
(* component was upgraded to this one.                                     *)
PriorTraffic(record) ==
  IF record.kind = "sequence" THEN record.value + Block ELSE record.value

Init ==
  /\ stable \in {r \in Record : r.kind = "none" => r.value = 0}
  /\ compat \in {r \in Record : r.kind = "none" => r.value = 0}
  /\ ~HasCompat => compat = NoRecord
  /\ savedInitial \in 0..Space
  /\ initial = savedInitial
  /\ frontier \in 0..Space
  /\ \/ frontier <= PriorTraffic(stable)
     \/ frontier <= PriorTraffic(compat)
     \/ frontier <= savedInitial
     \/ NothingStored /\ frontier <= Block   \* configuration of a new node
  /\ session = "down"
  /\ next = 0 /\ reserved = 0
  /\ linked = FALSE /\ seq = 0
  /\ pc = [t \in Tasks |-> "idle"]
  /\ pdu = [t \in Tasks |-> 0]
  /\ turn = [t \in Tasks |-> 0]
  /\ arrivals = 0

-------------------------------------------------------------------------------
(* Session life cycle.                                                     *)

(* async_start, async_configure_stored_node and async_release_node all     *)
(* begin this way; a release behaves as a "runtime" session here.          *)
StartSession(kind) ==
  /\ session = "down"
  /\ session' = kind
  /\ next' = CreateNext(initial)
  /\ reserved' = next'
  /\ UNCHANGED <<stores, entry, linked, seq, tasks, frontier>>

(* A new ProxyClient continues from the number the last one left.  It is   *)
(* the foreground operation: start() installs the filter.                  *)
Connect ==
  /\ session # "down"
  /\ ~linked
  /\ pc[Foreground] = "idle"
  /\ linked' = TRUE
  /\ seq' = next
  /\ pc' = [pc EXCEPT ![Foreground] = "held"]
  /\ UNCHANGED <<stores, entry, session, next, reserved, pdu, turn, arrivals, frontier>>

BeginOperation ==
  /\ linked
  /\ pc[Foreground] = "idle"
  /\ pc' = [pc EXCEPT ![Foreground] = "held"]
  /\ UNCHANGED <<stores, entry, session, next, reserved, linked, seq, pdu, turn,
                 arrivals, frontier>>

EndOperation ==
  /\ pc[Foreground] = "held"
  /\ pc' = [pc EXCEPT ![Foreground] = "idle"]
  /\ UNCHANGED <<stores, entry, session, next, reserved, linked, seq, pdu, turn,
                 arrivals, frontier>>

(* The tasks of T stop where they are: they leave both locks, and a store  *)
(* write one of them was awaiting may still have landed.                   *)
Abandon(T) ==
  /\ pc' = [t \in Tasks |-> IF t \in T THEN "idle" ELSE pc[t]]
  /\ pdu' = [t \in Tasks |-> IF t \in T THEN 0 ELSE pdu[t]]
  /\ turn' = [t \in Tasks |-> IF t \in T THEN 0 ELSE turn[t]]
  /\ \/ UNCHANGED stores
     \/ /\ \E t \in T : pc[t] = "stable"
        /\ stable' = Reserved(ReserveUntil(seq))
        /\ UNCHANGED compat
     \/ /\ \E t \in T : pc[t] = "compat"
        /\ compat' = Reserved(ReserveUntil(seq))
        /\ UNCHANGED stable
  /\ UNCHANGED arrivals

(* async_stop, or the end of a configuration, which reports its proxy's    *)
(* sequence to the config entry unless no proxy was ever created.          *)
StopSession ==
  /\ session # "down"
  /\ pc[Foreground] = "idle"
  /\ session' = "down"
  /\ linked' = FALSE
  /\ Abandon(AckTasks)
  /\ initial' \in IF session = "configure" THEN {initial, next} ELSE {initial}
  /\ UNCHANGED <<savedInitial, next, reserved, seq, frontier>>

(* Home Assistant writes config entries some time after they change.       *)
FlushEntry ==
  /\ savedInitial' = initial
  /\ UNCHANGED <<stores, initial, session, next, reserved, linked, seq, tasks, frontier>>

(* The process dies: only the disk survives.                               *)
Crash ==
  /\ session' = "down"
  /\ linked' = FALSE
  /\ Abandon(Tasks)
  /\ initial' = savedInitial
  /\ UNCHANGED <<savedInitial, next, reserved, seq, frontier>>

-------------------------------------------------------------------------------
(* Drawing a number: ProxyClient._next_seq over ensure_reserved.           *)

Saving(t) == pc[t] \in {"stable", "compat"}
LockFree == \A t \in Tasks : ~Saving(t)

(* A segment to acknowledge arrives only over a live link; a foreground    *)
(* operation keeps using the proxy it started with.                        *)
MayDraw(t) ==
  \/ t = Foreground /\ pc[t] = "held"
  \/ t \in AckTasks /\ pc[t] = "idle" /\ linked

(* Mutant: mark_next is not called.                                         *)
TakeNumberUnmarked(t) ==
  /\ pdu' = [pdu EXCEPT ![t] = seq]
  /\ seq' = seq + 1
  /\ pc' = [pc EXCEPT ![t] = "queued"]
  /\ arrivals' = arrivals + 1
  /\ turn' = [turn EXCEPT ![t] = arrivals']
  /\ UNCHANGED next

(* The number is taken, published with mark_next, and queued for the write *)
(* lock without an await in between.                                       *)
TakeNumber(t) ==
  /\ pdu' = [pdu EXCEPT ![t] = seq]
  /\ seq' = seq + 1
  /\ next' = seq + 1
  /\ pc' = [pc EXCEPT ![t] = "queued"]
  /\ arrivals' = arrivals + 1
  /\ turn' = [turn EXCEPT ![t] = arrivals']

Draw(t) ==
  /\ MayDraw(t) /\ LockFree
  /\ seq < reserved /\ seq < Space
  /\ TakeNumber(t)
  /\ UNCHANGED <<stores, entry, session, reserved, linked, frontier>>

(* Mutant: memory moves on before the save.                                 *)
BeginReserveEager(t) ==
  /\ MayDraw(t) /\ LockFree
  /\ seq >= reserved /\ seq < Space
  /\ reserved' = ReserveUntil(seq)
  /\ pc' = [pc EXCEPT ![t] = "stable"]
  /\ UNCHANGED <<stores, entry, session, next, linked, seq, pdu, turn, arrivals,
                 frontier>>

BeginReserve(t) ==
  /\ MayDraw(t) /\ LockFree
  /\ seq >= reserved /\ seq < Space
  /\ pc' = [pc EXCEPT ![t] = "stable"]
  /\ UNCHANGED <<stores, entry, session, next, reserved, linked, seq, pdu, turn,
                 arrivals, frontier>>

(* seq > MAX_SEQUENCE: the operation fails for good.                       *)
Exhausted ==
  /\ pc[Foreground] = "held" /\ LockFree
  /\ seq >= Space
  /\ pc' = [pc EXCEPT ![Foreground] = "idle"]
  /\ UNCHANGED <<stores, entry, session, next, reserved, linked, seq, pdu, turn,
                 arrivals, frontier>>

(* The stable store is written and read back first.                        *)
SaveStable(t) ==
  /\ HasCompat
  /\ pc[t] = "stable"
  /\ stable' = Reserved(ReserveUntil(seq))
  /\ pc' = [pc EXCEPT ![t] = "compat"]
  /\ UNCHANGED <<compat, entry, session, next, reserved, linked, seq, pdu, turn,
                 arrivals, frontier>>

(* The last store is written and verified; only then does memory move on.  *)
SaveLast(t) ==
  /\ \/ /\ HasCompat /\ pc[t] = "compat"
        /\ compat' = Reserved(ReserveUntil(seq))
        /\ UNCHANGED stable
     \/ /\ ~HasCompat /\ pc[t] = "stable"
        /\ stable' = Reserved(ReserveUntil(seq))
        /\ UNCHANGED compat
  /\ reserved' = ReserveUntil(seq)
  /\ TakeNumber(t)
  /\ UNCHANGED <<entry, session, linked, frontier>>

(* Store.async_save only logs a failed write; the read-back differs and    *)
(* the draw fails with OSError, nothing allocated.                         *)
SaveFails(t) ==
  /\ \/ pc[t] = "stable" /\ stable # Reserved(ReserveUntil(seq))
     \/ pc[t] = "compat" /\ compat # Reserved(ReserveUntil(seq))
  /\ pc' = [pc EXCEPT ![t] = "idle"]
  /\ UNCHANGED <<stores, entry, session, next, reserved, linked, seq, pdu, turn,
                 arrivals, frontier>>

-------------------------------------------------------------------------------
(* Writing to the bearer: MeshGattTransport.send under its FIFO lock.      *)

Queued(t) == pc[t] = "queued"
AtHead(t) == Queued(t) /\ \A u \in Tasks : Queued(u) => turn[t] <= turn[u]

Write(t) ==
  /\ linked
  /\ AtHead(t)
  /\ frontier' = pdu[t] + 1
  /\ pc' = [pc EXCEPT ![t] = IF t = Foreground THEN "held" ELSE "idle"]
  /\ pdu' = [pdu EXCEPT ![t] = 0]
  /\ turn' = [turn EXCEPT ![t] = 0]
  /\ UNCHANGED <<stores, entry, session, next, reserved, linked, seq, arrivals>>

(* A failed acknowledgment is only logged.  A failed foreground write      *)
(* drops the connection, which also cancels the acknowledgments.           *)
WriteFails(t) ==
  /\ AtHead(t)
  /\ IF t = Foreground
     THEN linked' = FALSE /\ Abandon(Tasks)
     ELSE UNCHANGED linked /\ Abandon({t})
  /\ UNCHANGED <<entry, session, next, reserved, seq, frontier>>

(* The fixture disconnects, or a failing link is dropped: the proxy's      *)
(* background tasks are cancelled, a foreground operation finds out later. *)
DropLink ==
  /\ linked
  /\ linked' = FALSE
  /\ Abandon(AckTasks)
  /\ UNCHANGED <<entry, session, next, reserved, seq, frontier>>

(* A timeout or the caller cancels the foreground operation.               *)
CancelOperation ==
  /\ pc[Foreground] # "idle"
  /\ Abandon({Foreground})
  /\ UNCHANGED <<entry, session, next, reserved, linked, seq, frontier>>

-------------------------------------------------------------------------------
Next ==
  \/ \E kind \in {"runtime", "configure"} : StartSession(kind)
  \/ Connect \/ BeginOperation \/ EndOperation \/ StopSession
  \/ FlushEntry \/ Crash
  \/ Exhausted \/ DropLink \/ CancelOperation
  \/ \E t \in Tasks :
       \/ Draw(t) \/ BeginReserve(t)
       \/ SaveStable(t) \/ SaveLast(t) \/ SaveFails(t)
       \/ Write(t) \/ WriteFails(t)

Spec == Init /\ [][Next]_vars

-------------------------------------------------------------------------------
(* Properties.                                                             *)

(* Every variable keeps its type; in particular no store ever holds a mark *)
(* beyond the 24-bit space (ensure_reserved, sequence.py:86).              *)
TypeOK ==
  /\ stable \in Record /\ compat \in Record
  /\ initial \in Nat /\ savedInitial \in Nat
  /\ session \in {"down", "runtime", "configure"}
  /\ next \in Nat /\ reserved \in Nat
  /\ linked \in BOOLEAN /\ seq \in Nat
  /\ pc \in [Tasks -> {"idle", "held", "stable", "compat", "queued"}]
  /\ pdu \in [Tasks -> Nat] /\ turn \in [Tasks -> Nat]
  /\ arrivals \in Nat
  /\ frontier \in 0..Space

(* A number on its way to the wire is below the mark of every store, so    *)
(* neither a restart nor a rollback to the version that reads only the     *)
(* compatibility store can hand it out again, whichever of the two writes  *)
(* failed or was cancelled (sequence.py:76-94, device.py:394-410).         *)
DurableBeforeUse ==
  \A t \in Tasks : Queued(t) =>
    /\ pdu[t] < HighWater(stable)
    /\ HasCompat => pdu[t] < HighWater(compat)

(* If the process died now, the next session would start above every       *)
(* number that is on the wire or queued for it (sequence.py:36-69 over     *)
(* device.py:376-391).                                                     *)
RestartStartsAbove ==
  /\ frontier <= CreateNext(savedInitial)
  /\ \A t \in Tasks : Queued(t) => pdu[t] < CreateNext(savedInitial)

(* PDUs reach the bearer in the order their numbers were drawn, so the     *)
(* fixture's replay list never discards an acknowledgment overtaken by a   *)
(* command or the reverse (proxy.py:120-132, 230 and 569).                 *)
WriteOrder ==
  \A t \in Tasks : Queued(t) =>
    /\ frontier <= pdu[t]
    /\ \A u \in Tasks : Queued(u) /\ turn[t] < turn[u] => pdu[t] < pdu[u]

(* No save ever lowers the mark of a store, whichever store was ahead when *)
(* the session began (device.py:394-410).                                  *)
StoresNeverRegress ==
  [][/\ HighWater(stable') >= HighWater(stable)
     /\ HighWater(compat') >= HighWater(compat)]_vars

(* The whole machinery implements the promise to the mesh: across crashes, *)
(* restarts, failed saves and reconnections every PDU carries a number     *)
(* above all earlier ones and inside the space.                            *)
Wire == INSTANCE ReplaySafeWire WITH Space <- Space, frontier <- frontier
ReplaySafe == Wire!WireSpec
===============================================================================
