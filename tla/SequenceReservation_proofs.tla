---------------------- MODULE SequenceReservation_proofs ----------------------
(***************************************************************************)
(* Type correctness, the safety invariants and the refinement of           *)
(* ReplaySafeWire, for every space, block size, set of tasks and both      *)
(* store layouts.                                                          *)
(***************************************************************************)
EXTENDS SequenceReservation, TLAPS

(* What the stores and the config entry on disk vouch for, before the      *)
(* rounding CreateNext adds for a mesh that never stored anything.         *)
Vouched ==
  IF NothingStored THEN Larger(savedInitial, Block)
                   ELSE Larger(MergedHighWater, savedInitial)

(* Outside a session nothing runs.                                         *)
QuietWhenDown ==
  session = "down" => ~linked /\ \A t \in Tasks : pc[t] = "idle"

(* _sequence_lock: one task saves at a time.                               *)
OneSaver == \A t, u \in Tasks : Saving(t) /\ Saving(u) => t = u

(* A proxy in use continues exactly where the reservation stands.          *)
ProxyInStep == (linked \/ \E t \in Tasks : pc[t] # "idle") => seq = next

(* The mark of each store against the reservation in memory: the unused    *)
(* part of the block is saved, and no save runs further ahead than the one *)
(* the next draw would make.                                               *)
MarksBracketReservation ==
  session # "down" =>
    /\ next <= reserved
    /\ next < reserved => /\ reserved <= HighWater(stable)
                          /\ HasCompat => reserved <= HighWater(compat)
    /\ HighWater(stable) <= Larger(reserved, ReserveUntil(next))
    /\ HighWater(compat) <= Larger(reserved, ReserveUntil(next))

(* A save is under way only for a block nobody reserved yet.               *)
SaverAtEdge ==
  \A t \in Tasks :
    /\ Saving(t) => seq = reserved /\ seq < Space
    /\ pc[t] = "compat" => HasCompat /\ stable = Reserved(ReserveUntil(seq))

(* Numbers queued or on the wire lie below the next one.                   *)
NextAboveUse ==
  /\ session # "down" => frontier <= next /\ initial <= next
  /\ \A t \in Tasks : Queued(t) => pdu[t] < next /\ pdu[t] < Space

(* The write lock's queue is a queue.                                      *)
TurnsDistinct ==
  \A t \in Tasks : Queued(t) =>
    /\ turn[t] <= arrivals
    /\ \A u \in Tasks : Queued(u) /\ turn[t] = turn[u] => t = u

FrontierVouched == frontier <= Vouched
EntryMonotone == savedInitial <= initial
NoCompatStore == ~HasCompat => compat.kind = "none" /\ compat.value = 0
EmptyIsZero == /\ stable.kind = "none" => stable.value = 0
               /\ compat.kind = "none" => compat.value = 0

IInv ==
  /\ TypeOK
  /\ QuietWhenDown /\ OneSaver /\ ProxyInStep
  /\ MarksBracketReservation /\ SaverAtEdge /\ NextAboveUse /\ TurnsDistinct
  /\ FrontierVouched /\ EntryMonotone /\ NoCompatStore /\ EmptyIsZero
  /\ DurableBeforeUse /\ WriteOrder
-------------------------------------------------------------------------------
USE SpaceAssumption, BlockAssumption, CompatAssumption, TaskAssumption

LEMMA HighWaterNat ==
  ASSUME NEW r \in Record
  PROVE  HighWater(r) \in Nat
  BY DEF Record, HighWater

LEMMA ReserveUntilFacts ==
  ASSUME NEW s \in Nat, s < Space
  PROVE  /\ ReserveUntil(s) \in 0..Space
         /\ s < ReserveUntil(s)
         /\ Reserved(ReserveUntil(s)) \in Record
         /\ HighWater(Reserved(ReserveUntil(s))) = ReserveUntil(s)
         /\ Reserved(ReserveUntil(s)).kind = "reserved"
  BY DEF ReserveUntil, Smaller, Reserved, HighWater, Record

LEMMA ReserveUntilInt ==
  ASSUME NEW s \in Nat
  PROVE  ReserveUntil(s) \in Int
  BY DEF ReserveUntil, Smaller

LEMMA RoundUpFacts ==
  ASSUME NEW n \in Nat
  PROVE  RoundUp(n) \in Nat /\ n <= RoundUp(n)
  BY DEF RoundUp

LEMMA CreateNextNat ==
  ASSUME TypeOK, NEW m \in Nat
  PROVE  CreateNext(m) \in Nat
  BY RoundUpFacts, HighWaterNat DEF TypeOK, CreateNext, Larger, MergedHighWater

LEMMA TypeStep == TypeOK /\ SaverAtEdge /\ NextAboveUse /\ [Next]_vars => TypeOK'
<1> SUFFICES ASSUME TypeOK, SaverAtEdge, NextAboveUse, [Next]_vars PROVE TypeOK'
  OBVIOUS
<1> USE DEF TypeOK
<1>1. ASSUME NEW k \in {"runtime", "configure"}, StartSession(k) PROVE TypeOK'
  BY <1>1, CreateNextNat DEF StartSession, stores, entry, tasks
<1>2. CASE Connect
  BY <1>2 DEF Connect, stores, entry, tasks
<1>3. CASE BeginOperation
  BY <1>3 DEF BeginOperation, stores, entry, tasks
<1>4. CASE EndOperation
  BY <1>4 DEF EndOperation, stores, entry, tasks
<1>5. ASSUME NEW T \in SUBSET Tasks, Abandon(T)
      PROVE  stable' \in Record /\ compat' \in Record
             /\ pc' \in [Tasks -> {"idle", "held", "stable", "compat", "queued"}]
             /\ pdu' \in [Tasks -> Nat] /\ turn' \in [Tasks -> Nat] /\ arrivals' \in Nat
  <2>1. ASSUME NEW t \in T, Saving(t) PROVE Reserved(ReserveUntil(seq)) \in Record
    BY <2>1, ReserveUntilFacts DEF SaverAtEdge
  <2> QED BY <1>5, <2>1 DEF Abandon, stores, Saving
<1>6. CASE StopSession
  BY <1>6, <1>5 DEF StopSession, Tasks
<1>7. CASE FlushEntry
  BY <1>7 DEF FlushEntry, stores, entry, tasks
<1>8. CASE Crash
  BY <1>8, <1>5 DEF Crash
<1>9. CASE Exhausted
  BY <1>9 DEF Exhausted, stores, entry, tasks
<1>10. CASE DropLink
  BY <1>10, <1>5 DEF DropLink, entry, Tasks
<1>11. CASE CancelOperation
  BY <1>11, <1>5 DEF CancelOperation, entry, Tasks
<1>12. ASSUME NEW t \in Tasks, Draw(t) PROVE TypeOK'
  BY <1>12 DEF Draw, TakeNumber, stores, entry, tasks
<1>13. ASSUME NEW t \in Tasks, BeginReserve(t) PROVE TypeOK'
  BY <1>13 DEF BeginReserve, stores, entry, tasks
<1>14. ASSUME NEW t \in Tasks, SaveStable(t) PROVE TypeOK'
  BY <1>14, ReserveUntilFacts DEF SaveStable, SaverAtEdge, Saving, entry
<1>15. ASSUME NEW t \in Tasks, SaveLast(t) PROVE TypeOK'
  BY <1>15, ReserveUntilFacts DEF SaveLast, TakeNumber, SaverAtEdge, Saving, entry
<1>16. ASSUME NEW t \in Tasks, SaveFails(t) PROVE TypeOK'
  BY <1>16 DEF SaveFails, stores, entry
<1>17. ASSUME NEW t \in Tasks, Write(t) PROVE TypeOK'
  BY <1>17 DEF Write, AtHead, NextAboveUse, stores, entry
<1>18. ASSUME NEW t \in Tasks, WriteFails(t) PROVE TypeOK'
  <2>1. stable' \in Record /\ compat' \in Record
             /\ pc' \in [Tasks -> {"idle", "held", "stable", "compat", "queued"}]
             /\ pdu' \in [Tasks -> Nat] /\ turn' \in [Tasks -> Nat] /\ arrivals' \in Nat
    BY <1>18, <1>5 DEF WriteFails
  <2> QED BY <1>18, <2>1 DEF WriteFails, entry
<1>19. CASE UNCHANGED vars
  BY <1>19 DEF vars, stores, entry, tasks
<1> QED
  BY <1>1, <1>2, <1>3, <1>4, <1>6, <1>7, <1>8, <1>9, <1>10, <1>11, <1>12, <1>13,
     <1>14, <1>15, <1>16, <1>17, <1>18, <1>19 DEF Next

(* While a save is under way the reservation stands still at its edge, and *)
(* the block being saved lies above both marks.                            *)
LEMMA SaverFacts ==
  ASSUME IInv, NEW t \in Tasks, Saving(t)
  PROVE  /\ session # "down"
         /\ seq \in Nat /\ seq = next /\ seq = reserved /\ seq < Space
         /\ HighWater(stable) <= ReserveUntil(seq)
         /\ HighWater(compat) <= ReserveUntil(seq)
         /\ frontier <= seq /\ initial <= seq
<1>1. session # "down" /\ seq = next
  BY DEF IInv, QuietWhenDown, ProxyInStep, Saving
<1>2. seq \in Nat /\ seq = reserved /\ seq < Space
  BY DEF IInv, TypeOK, SaverAtEdge
<1> QED
  BY <1>1, <1>2, ReserveUntilFacts, HighWaterNat
     DEF IInv, TypeOK, MarksBracketReservation, NextAboveUse, Larger

(* A step that lowers no mark and leaves the wire alone keeps what was     *)
(* vouched for.                                                            *)
LEMMA VouchedKept ==
  ASSUME IInv, TypeOK', EmptyIsZero', NoCompatStore',
         frontier' = frontier, savedInitial' = savedInitial,
         UNCHANGED stores \/ \E t \in Tasks : Saving(t),
         HighWater(stable') >= HighWater(stable),
         HighWater(compat') >= HighWater(compat),
         stable' = stable \/ stable' = Reserved(ReserveUntil(seq)),
         compat' = compat \/ compat' = Reserved(ReserveUntil(seq))
  PROVE  FrontierVouched'
<1>1. CASE UNCHANGED stores
  BY <1>1 DEF IInv, FrontierVouched, Vouched, NothingStored, MergedHighWater, stores
<1>2. CASE ~UNCHANGED stores
  <2>1. PICK t \in Tasks : Saving(t)
    BY <1>2
  <2>2. seq \in Nat /\ seq < Space /\ frontier <= seq
    BY <2>1, SaverFacts
  <2>3. ~NothingStored' /\ MergedHighWater' >= ReserveUntil(seq)
    BY <1>2, <2>2, ReserveUntilFacts, HighWaterNat
       DEF stores, NothingStored, MergedHighWater, Larger, TypeOK, IInv
  <2> QED
    BY <2>2, <2>3, ReserveUntilFacts, HighWaterNat
       DEF FrontierVouched, Vouched, Larger, MergedHighWater, IInv, TypeOK
<1> QED BY <1>1, <1>2

(* Everything an abandoned task leaves behind.                             *)
LEMMA AbandonFacts ==
  ASSUME IInv, TypeOK', NEW T \in SUBSET Tasks, Abandon(T),
         UNCHANGED <<savedInitial, next, reserved, seq, frontier>>
  PROVE  /\ HighWater(stable') >= HighWater(stable)
         /\ HighWater(compat') >= HighWater(compat)
         /\ session # "down" =>
              /\ HighWater(stable') <= Larger(reserved, ReserveUntil(next))
              /\ HighWater(compat') <= Larger(reserved, ReserveUntil(next))
         /\ OneSaver' /\ SaverAtEdge' /\ TurnsDistinct'
         /\ NoCompatStore' /\ EmptyIsZero' /\ FrontierVouched'
         /\ DurableBeforeUse' /\ WriteOrder'
         /\ \A t \in Tasks : Queued(t)' => Queued(t) /\ pdu'[t] = pdu[t]
<1>1. /\ HighWater(stable') >= HighWater(stable)
      /\ HighWater(compat') >= HighWater(compat)
      /\ session # "down" =>
           /\ HighWater(stable') <= Larger(reserved, ReserveUntil(next))
           /\ HighWater(compat') <= Larger(reserved, ReserveUntil(next))
  <2>1. CASE UNCHANGED stores
    BY <2>1, HighWaterNat DEF stores, IInv, TypeOK, MarksBracketReservation
  <2>2. ASSUME NEW t \in T, Saving(t),
               \/ stable' = Reserved(ReserveUntil(seq)) /\ UNCHANGED compat
               \/ compat' = Reserved(ReserveUntil(seq)) /\ UNCHANGED stable
        PROVE  /\ HighWater(stable') >= HighWater(stable)
               /\ HighWater(compat') >= HighWater(compat)
               /\ session # "down" =>
                    /\ HighWater(stable') <= Larger(reserved, ReserveUntil(next))
                    /\ HighWater(compat') <= Larger(reserved, ReserveUntil(next))
    BY <2>2, SaverFacts, ReserveUntilFacts, HighWaterNat
       DEF IInv, TypeOK, MarksBracketReservation, Larger
  <2> QED BY <2>1, <2>2 DEF Abandon, Saving
<1>2. \A t \in Tasks : pc'[t] # "idle" =>
        pc'[t] = pc[t] /\ pdu'[t] = pdu[t] /\ turn'[t] = turn[t]
  BY DEF Abandon
<1>3. OneSaver' /\ TurnsDistinct' /\ WriteOrder'
      /\ \A t \in Tasks : Queued(t)' => Queued(t) /\ pdu'[t] = pdu[t]
  BY <1>2 DEF IInv, OneSaver, Saving, TurnsDistinct, WriteOrder, Queued, Abandon
<1>4. NoCompatStore' /\ EmptyIsZero'
  <2>1. \A t \in Tasks : Saving(t) =>
          Reserved(ReserveUntil(seq)).kind = "reserved" /\ (pc[t] = "compat" => HasCompat)
    BY SaverFacts, ReserveUntilFacts DEF IInv, SaverAtEdge
  <2> QED
    BY <2>1 DEF IInv, NoCompatStore, EmptyIsZero, Abandon, stores, Saving
<1>5. SaverAtEdge'
  <2> SUFFICES ASSUME NEW u \in Tasks, Saving(u)'
               PROVE  /\ seq' = reserved' /\ seq' < Space
                      /\ pc'[u] = "compat" => HasCompat /\ stable' = Reserved(ReserveUntil(seq'))
    BY DEF SaverAtEdge, Saving
  <2>1. Saving(u) /\ pc'[u] = pc[u]
    BY <1>2 DEF Saving
  <2>2. stable' = stable \/ stable' = Reserved(ReserveUntil(seq))
    BY DEF Abandon, stores
  <2> QED BY <2>1, <2>2 DEF IInv, SaverAtEdge
<1>6. DurableBeforeUse'
  <2> SUFFICES ASSUME NEW t \in Tasks, Queued(t)'
               PROVE  /\ pdu'[t] < HighWater(stable')
                      /\ HasCompat => pdu'[t] < HighWater(compat')
    BY DEF DurableBeforeUse, Queued, HighWater
  <2> QED
    BY <1>1, <1>3, HighWaterNat DEF IInv, TypeOK, DurableBeforeUse
<1>7. FrontierVouched'
  <2>1. UNCHANGED stores \/ \E t \in Tasks : Saving(t)
    BY DEF Abandon, Saving
  <2> QED BY <2>1, <1>1, <1>4, VouchedKept DEF Abandon, stores
<1> QED BY <1>1, <1>3, <1>4, <1>5, <1>6, <1>7

LEMMA IndStep == IInv /\ [Next]_vars => IInv'
<1> SUFFICES ASSUME IInv, [Next]_vars PROVE IInv'
  OBVIOUS
<1> USE DEF IInv
<1>0. TypeOK'
  BY TypeStep
<1>1. ASSUME NEW k \in {"runtime", "configure"}, StartSession(k) PROVE IInv'
  <2>1. next' \in Nat /\ reserved' = next'
        /\ frontier <= next' /\ initial <= next'
        /\ HighWater(stable) <= next' /\ HighWater(compat) <= next'
    <3>1. CASE NothingStored
      BY <3>1, <1>1, RoundUpFacts
         DEF StartSession, CreateNext, Larger, TypeOK, FrontierVouched, Vouched,
             EntryMonotone, EmptyIsZero, NothingStored, HighWater
    <3>2. CASE ~NothingStored
      BY <3>2, <1>1, HighWaterNat
         DEF StartSession, CreateNext, Larger, TypeOK, FrontierVouched, Vouched,
             EntryMonotone, MergedHighWater
    <3> QED BY <3>1, <3>2
  <2>2. UNCHANGED <<stores, entry, linked, seq, tasks, frontier>> /\ session = "down"
        /\ session' # "down"
    BY <1>1 DEF StartSession
  <2>3. MarksBracketReservation'
    <3>1. ReserveUntil(next') \in Int
      BY <2>1, ReserveUntilInt
    <3>2. HighWater(stable') = HighWater(stable) /\ HighWater(compat') = HighWater(compat)
      BY <2>2 DEF stores
    <3>3. HighWater(stable) \in Nat /\ HighWater(compat) \in Nat
      BY HighWaterNat DEF TypeOK
    <3> QED
      BY <2>1, <3>1, <3>2, <3>3 DEF MarksBracketReservation, Larger
  <2>4. \A t \in Tasks : pc[t] = "idle"
    BY <2>2 DEF QuietWhenDown
  <2>5. QuietWhenDown' /\ ProxyInStep' /\ NextAboveUse' /\ SaverAtEdge'
    BY <2>1, <2>2, <2>4 DEF QuietWhenDown, ProxyInStep, NextAboveUse, SaverAtEdge,
       Saving, Queued, tasks, entry
  <2> QED
    BY <1>0, <2>2, <2>3, <2>4, <2>5
       DEF OneSaver, TurnsDistinct, FrontierVouched, Vouched, NothingStored,
           MergedHighWater, EntryMonotone, NoCompatStore, EmptyIsZero,
           DurableBeforeUse, WriteOrder, Queued, Saving, stores, entry, tasks
<1>2. CASE Connect
  BY <1>2, <1>0
     DEF Connect, QuietWhenDown, OneSaver, ProxyInStep, MarksBracketReservation,
        SaverAtEdge, NextAboveUse, TurnsDistinct, FrontierVouched, EntryMonotone,
        NoCompatStore, EmptyIsZero, DurableBeforeUse, WriteOrder,
        Vouched, NothingStored, MergedHighWater, Saving, Queued, stores, entry, tasks
<1>3. CASE BeginOperation
  BY <1>3, <1>0
     DEF BeginOperation, QuietWhenDown, OneSaver, ProxyInStep, MarksBracketReservation,
        SaverAtEdge, NextAboveUse, TurnsDistinct, FrontierVouched, EntryMonotone,
        NoCompatStore, EmptyIsZero, DurableBeforeUse, WriteOrder,
        Vouched, NothingStored, MergedHighWater, Saving, Queued, stores, entry, tasks
<1>4. CASE EndOperation
  BY <1>4, <1>0
     DEF EndOperation, QuietWhenDown, OneSaver, ProxyInStep, MarksBracketReservation,
        SaverAtEdge, NextAboveUse, TurnsDistinct, FrontierVouched, EntryMonotone,
        NoCompatStore, EmptyIsZero, DurableBeforeUse, WriteOrder,
        Vouched, NothingStored, MergedHighWater, Saving, Queued, stores, entry, tasks
<1>6. CASE StopSession
  <2>1. Abandon(AckTasks) /\ UNCHANGED <<savedInitial, next, reserved, seq, frontier>>
    BY <1>6 DEF StopSession, entry
  <2>2. AckTasks \in SUBSET Tasks
    BY DEF Tasks
  <2> HIDE DEF IInv
  <2>3. /\ HighWater(stable') >= HighWater(stable)
        /\ HighWater(compat') >= HighWater(compat)
        /\ session # "down" =>
             /\ HighWater(stable') <= Larger(reserved, ReserveUntil(next))
             /\ HighWater(compat') <= Larger(reserved, ReserveUntil(next))
        /\ OneSaver' /\ SaverAtEdge' /\ TurnsDistinct'
        /\ NoCompatStore' /\ EmptyIsZero' /\ FrontierVouched'
        /\ DurableBeforeUse' /\ WriteOrder'
        /\ \A t \in Tasks : Queued(t)' => Queued(t) /\ pdu'[t] = pdu[t]
    BY <1>0, <2>1, <2>2, AbandonFacts
  <2> USE DEF IInv
  <2>4. session' = "down" /\ ~linked' /\ \A t \in Tasks : pc'[t] = "idle"
    BY <1>6 DEF StopSession, Abandon, Tasks
  <2>5. EntryMonotone'
    BY <1>6 DEF StopSession, EntryMonotone, NextAboveUse, TypeOK
  <2> QED
    BY <1>0, <2>3, <2>4, <2>5
       DEF QuietWhenDown, ProxyInStep, MarksBracketReservation, NextAboveUse, Queued
<1>7. CASE FlushEntry
  <2>1. FrontierVouched' /\ EntryMonotone'
    BY <1>7, HighWaterNat
       DEF FlushEntry, FrontierVouched, Vouched, NothingStored, MergedHighWater, Larger,
           EntryMonotone, TypeOK, stores
  <2> QED
    BY <1>7, <1>0, <2>1
       DEF FlushEntry, QuietWhenDown, OneSaver, ProxyInStep, MarksBracketReservation,
        SaverAtEdge, NextAboveUse, TurnsDistinct, NoCompatStore, EmptyIsZero,
        DurableBeforeUse, WriteOrder, Saving, Queued, stores, tasks
<1>8. CASE Crash
  <2>1. Abandon(Tasks) /\ UNCHANGED <<savedInitial, next, reserved, seq, frontier>>
    BY <1>8 DEF Crash, entry
  <2>2. Tasks \in SUBSET Tasks
    BY DEF Tasks
  <2> HIDE DEF IInv
  <2>3. /\ HighWater(stable') >= HighWater(stable)
        /\ HighWater(compat') >= HighWater(compat)
        /\ session # "down" =>
             /\ HighWater(stable') <= Larger(reserved, ReserveUntil(next))
             /\ HighWater(compat') <= Larger(reserved, ReserveUntil(next))
        /\ OneSaver' /\ SaverAtEdge' /\ TurnsDistinct'
        /\ NoCompatStore' /\ EmptyIsZero' /\ FrontierVouched'
        /\ DurableBeforeUse' /\ WriteOrder'
        /\ \A t \in Tasks : Queued(t)' => Queued(t) /\ pdu'[t] = pdu[t]
    BY <1>0, <2>1, <2>2, AbandonFacts
  <2> USE DEF IInv
  <2>4. session' = "down" /\ ~linked' /\ \A t \in Tasks : pc'[t] = "idle"
    BY <1>8 DEF Crash, Abandon, Tasks
  <2>5. EntryMonotone'
    BY <1>8 DEF Crash, EntryMonotone, NextAboveUse, TypeOK
  <2> QED
    BY <1>0, <2>3, <2>4, <2>5
       DEF QuietWhenDown, ProxyInStep, MarksBracketReservation, NextAboveUse, Queued
<1>9. CASE Exhausted
  BY <1>9, <1>0
     DEF Exhausted, QuietWhenDown, OneSaver, ProxyInStep, MarksBracketReservation,
        SaverAtEdge, NextAboveUse, TurnsDistinct, FrontierVouched, EntryMonotone,
        NoCompatStore, EmptyIsZero, DurableBeforeUse, WriteOrder,
        Vouched, NothingStored, MergedHighWater, Saving, Queued, stores, entry, tasks
<1>10. CASE DropLink
  <2>1. Abandon(AckTasks) /\ UNCHANGED <<savedInitial, next, reserved, seq, frontier>>
    BY <1>10 DEF DropLink, entry
  <2>2. AckTasks \in SUBSET Tasks
    BY DEF Tasks
  <2> HIDE DEF IInv
  <2>3. /\ HighWater(stable') >= HighWater(stable)
        /\ HighWater(compat') >= HighWater(compat)
        /\ session # "down" =>
             /\ HighWater(stable') <= Larger(reserved, ReserveUntil(next))
             /\ HighWater(compat') <= Larger(reserved, ReserveUntil(next))
        /\ OneSaver' /\ SaverAtEdge' /\ TurnsDistinct'
        /\ NoCompatStore' /\ EmptyIsZero' /\ FrontierVouched'
        /\ DurableBeforeUse' /\ WriteOrder'
        /\ \A t \in Tasks : Queued(t)' => Queued(t) /\ pdu'[t] = pdu[t]
    BY <1>0, <2>1, <2>2, AbandonFacts
  <2> USE DEF IInv
  <2>4. MarksBracketReservation'
    BY <1>0, <1>10, <2>1, <2>3, HighWaterNat DEF DropLink, MarksBracketReservation, TypeOK
  <2>5. QuietWhenDown' /\ ProxyInStep' /\ NextAboveUse' /\ EntryMonotone'
    BY <1>10, <2>1, <2>3
       DEF DropLink, QuietWhenDown, ProxyInStep, NextAboveUse, EntryMonotone, entry, Abandon
  <2> QED
    BY <1>0, <2>3, <2>4, <2>5
<1>11. CASE CancelOperation
  <2>1. Abandon({Foreground}) /\ UNCHANGED <<savedInitial, next, reserved, seq, frontier>>
    BY <1>11 DEF CancelOperation, entry
  <2>2. {Foreground} \in SUBSET Tasks
    BY DEF Tasks
  <2> HIDE DEF IInv
  <2>3. /\ HighWater(stable') >= HighWater(stable)
        /\ HighWater(compat') >= HighWater(compat)
        /\ session # "down" =>
             /\ HighWater(stable') <= Larger(reserved, ReserveUntil(next))
             /\ HighWater(compat') <= Larger(reserved, ReserveUntil(next))
        /\ OneSaver' /\ SaverAtEdge' /\ TurnsDistinct'
        /\ NoCompatStore' /\ EmptyIsZero' /\ FrontierVouched'
        /\ DurableBeforeUse' /\ WriteOrder'
        /\ \A t \in Tasks : Queued(t)' => Queued(t) /\ pdu'[t] = pdu[t]
    BY <1>0, <2>1, <2>2, AbandonFacts
  <2> USE DEF IInv
  <2>4. MarksBracketReservation'
    BY <1>0, <1>11, <2>1, <2>3, HighWaterNat
       DEF CancelOperation, MarksBracketReservation, TypeOK
  <2>5. QuietWhenDown' /\ ProxyInStep' /\ NextAboveUse' /\ EntryMonotone'
    BY <1>11, <2>1, <2>3
       DEF CancelOperation, QuietWhenDown, ProxyInStep, NextAboveUse, EntryMonotone, entry, Abandon
  <2> QED
    BY <1>0, <2>3, <2>4, <2>5
<1>12. ASSUME NEW t \in Tasks, Draw(t) PROVE IInv'
  <2>1. seq = next /\ session # "down"
    BY <1>12 DEF Draw, MayDraw, ProxyInStep, QuietWhenDown
  <2>2. \A u \in Tasks : ~Saving(u)
    BY <1>12 DEF Draw, LockFree
  <2>3. next' = next + 1 /\ seq' = next + 1 /\ next < reserved
        /\ pdu'[t] = next /\ turn'[t] = arrivals + 1 /\ pc'[t] = "queued"
        /\ UNCHANGED <<stores, entry, session, reserved, linked, frontier>>
        /\ \A u \in Tasks \ {t} : pc'[u] = pc[u] /\ pdu'[u] = pdu[u] /\ turn'[u] = turn[u]
    BY <1>12, <2>1 DEF Draw, TakeNumber, TypeOK
  <2>4. \A u \in Tasks : ~Saving(u)'
    BY <2>2, <2>3 DEF Saving
  <2>5. MarksBracketReservation'
    BY <2>1, <2>3, HighWaterNat
       DEF MarksBracketReservation, stores, Larger, ReserveUntil, Smaller, TypeOK
  <2>6. DurableBeforeUse'
    BY <2>1, <2>3, HighWaterNat
       DEF MarksBracketReservation, DurableBeforeUse, stores, Queued, TypeOK
  <2>7. TurnsDistinct' /\ WriteOrder' /\ NextAboveUse'
    BY <1>12, <2>1, <2>3
       DEF Draw, TakeNumber, TurnsDistinct, WriteOrder, NextAboveUse, Queued, TypeOK, entry
  <2>8. QuietWhenDown' /\ ProxyInStep' /\ OneSaver' /\ SaverAtEdge'
    BY <2>1, <2>3, <2>4
       DEF QuietWhenDown, ProxyInStep, OneSaver, SaverAtEdge, Saving
  <2>9. FrontierVouched' /\ EntryMonotone' /\ NoCompatStore' /\ EmptyIsZero'
    BY <2>3 DEF FrontierVouched, Vouched, NothingStored, MergedHighWater, EntryMonotone,
                NoCompatStore, EmptyIsZero, stores, entry
  <2> QED
    BY <1>0, <2>5, <2>6, <2>7, <2>8, <2>9
<1>13. ASSUME NEW t \in Tasks, BeginReserve(t) PROVE IInv'
  <2>1. seq = next /\ session # "down" /\ seq = reserved
    BY <1>13 DEF BeginReserve, MayDraw, ProxyInStep, QuietWhenDown,
                 MarksBracketReservation, TypeOK
  <2>2. OneSaver' /\ SaverAtEdge'
    BY <1>13, <2>1 DEF BeginReserve, LockFree, OneSaver, SaverAtEdge, Saving, TypeOK
  <2>3. \A u \in Tasks : Queued(u)' => Queued(u)
    BY <1>13 DEF BeginReserve, Queued, TypeOK
  <2>4. TurnsDistinct' /\ WriteOrder' /\ NextAboveUse' /\ DurableBeforeUse'
    BY <1>13, <2>3 DEF BeginReserve, TurnsDistinct, WriteOrder, NextAboveUse,
                       DurableBeforeUse, stores, entry
  <2> QED
    BY <1>13, <1>0, <2>1, <2>2, <2>4
       DEF BeginReserve, QuietWhenDown, ProxyInStep, MarksBracketReservation,
           FrontierVouched, Vouched, NothingStored, MergedHighWater, EntryMonotone,
           NoCompatStore, EmptyIsZero, stores, entry
<1>14. ASSUME NEW t \in Tasks, SaveStable(t) PROVE IInv'
  <2>1. session # "down" /\ seq = next /\ seq = reserved /\ seq \in Nat /\ seq < Space
        /\ HighWater(stable) <= ReserveUntil(seq) /\ HighWater(compat) <= ReserveUntil(seq)
    BY <1>14, SaverFacts DEF SaveStable, Saving
  <2>2. /\ stable' = Reserved(ReserveUntil(seq)) /\ pc'[t] = "compat" /\ pc[t] = "stable"
        /\ \A u \in Tasks \ {t} : pc'[u] = pc[u]
        /\ UNCHANGED <<compat, entry, session, next, reserved, linked, seq, pdu, turn,
                       arrivals, frontier>>
    BY <1>14 DEF SaveStable, TypeOK
  <2>3. HighWater(stable') = ReserveUntil(seq) /\ stable'.kind = "reserved"
    BY <2>1, <2>2, ReserveUntilFacts
  <2>4. \A u \in Tasks : /\ Saving(u)' => Saving(u)
                         /\ Queued(u)' => Queued(u)
    BY <2>2 DEF Saving, Queued
  <2>5. QuietWhenDown' /\ OneSaver' /\ ProxyInStep' /\ NoCompatStore' /\ EmptyIsZero'
    BY <2>1, <2>2, <2>3, <2>4
       DEF QuietWhenDown, OneSaver, ProxyInStep, NoCompatStore, EmptyIsZero
  <2>6. MarksBracketReservation'
    <3>1. /\ seq < ReserveUntil(seq) /\ ReserveUntil(seq) \in Nat
          /\ HighWater(stable') = ReserveUntil(seq) /\ HighWater(compat') <= ReserveUntil(seq)
          /\ next' = seq /\ reserved' = seq
      <4>1. seq < ReserveUntil(seq) /\ ReserveUntil(seq) \in Nat
        BY <2>1, ReserveUntilFacts
      <4>2. compat' = compat /\ next' = next /\ reserved' = reserved
        BY <2>2
      <4> QED BY <2>1, <2>3, <4>1, <4>2
    <3>2. Larger(reserved', ReserveUntil(next')) = ReserveUntil(seq)
      BY <3>1, <2>1 DEF Larger
    <3> QED
      BY <2>1, <3>1, <3>2, ReserveUntilFacts DEF MarksBracketReservation
  <2>7. SaverAtEdge'
    <3> SUFFICES ASSUME NEW u \in Tasks, Saving(u)'
                 PROVE  /\ seq' = reserved' /\ seq' < Space
                        /\ pc'[u] = "compat" => HasCompat /\ stable' = Reserved(ReserveUntil(seq'))
      BY DEF SaverAtEdge, Saving
    <3> QED
      BY <1>14, <2>1, <2>2 DEF SaveStable
  <2>8. NextAboveUse' /\ TurnsDistinct' /\ WriteOrder' /\ EntryMonotone'
    BY <2>2, <2>4 DEF NextAboveUse, TurnsDistinct, WriteOrder, EntryMonotone, entry
  <2>9. DurableBeforeUse'
    BY <2>1, <2>2, <2>3, <2>4, ReserveUntilFacts, HighWaterNat
       DEF DurableBeforeUse, TypeOK
  <2>10. FrontierVouched'
    BY <1>0, <2>1, <2>2, <2>3, <2>5, <1>14, VouchedKept, HighWaterNat
       DEF Saving, SaveStable, entry, TypeOK
  <2> QED
    BY <1>0, <2>5, <2>6, <2>7, <2>8, <2>9, <2>10
<1>15. ASSUME NEW t \in Tasks, SaveLast(t) PROVE IInv'
  <2>1. session # "down" /\ seq = next /\ seq = reserved /\ seq \in Nat /\ seq < Space
        /\ HighWater(stable) <= ReserveUntil(seq) /\ HighWater(compat) <= ReserveUntil(seq)
        /\ frontier <= seq /\ initial <= seq
        /\ ReserveUntil(seq) \in Nat /\ seq < ReserveUntil(seq)
    BY <1>15, SaverFacts, ReserveUntilFacts DEF SaveLast, Saving
  <2>2. /\ next' = seq + 1 /\ seq' = seq + 1 /\ reserved' = ReserveUntil(seq)
        /\ pdu'[t] = seq /\ turn'[t] = arrivals + 1 /\ pc'[t] = "queued"
        /\ arrivals' = arrivals + 1 /\ ~Queued(t)
        /\ \A u \in Tasks \ {t} : pc'[u] = pc[u] /\ pdu'[u] = pdu[u] /\ turn'[u] = turn[u]
        /\ UNCHANGED <<entry, session, linked, frontier>>
    BY <1>15 DEF SaveLast, TakeNumber, TypeOK, Queued
  <2>3. /\ HighWater(stable') = ReserveUntil(seq)
        /\ HighWater(stable') >= HighWater(stable)
        /\ HighWater(compat') >= HighWater(compat)
        /\ HighWater(compat') <= ReserveUntil(seq)
        /\ HasCompat => HighWater(compat') = ReserveUntil(seq)
        /\ NoCompatStore' /\ EmptyIsZero'
    BY <1>15, <2>1, ReserveUntilFacts, HighWaterNat
       DEF SaveLast, SaverAtEdge, NoCompatStore, EmptyIsZero, TypeOK
  <2>4. \A u \in Tasks : ~Saving(u)'
    BY <1>15, <2>2 DEF SaveLast, Saving, OneSaver
  <2>5. \A u \in Tasks : Queued(u)' => u = t \/ (Queued(u) /\ u # t)
    BY <2>2 DEF Queued
  <2>6. QuietWhenDown' /\ OneSaver' /\ ProxyInStep' /\ SaverAtEdge' /\ EntryMonotone'
    BY <2>1, <2>2, <2>4
       DEF QuietWhenDown, OneSaver, ProxyInStep, SaverAtEdge, Saving, EntryMonotone, entry
  <2>7. MarksBracketReservation'
    <3>1. HighWater(stable') \in Nat /\ HighWater(compat') \in Nat /\ ReserveUntil(next') \in Int
      BY <1>0, <2>1, <2>2, ReserveUntilInt, HighWaterNat DEF TypeOK
    <3> QED
      BY <2>1, <2>2, <2>3, <3>1 DEF MarksBracketReservation, Larger
  <2>8. NextAboveUse' /\ TurnsDistinct' /\ WriteOrder'
    BY <2>1, <2>2, <2>5 DEF NextAboveUse, TurnsDistinct, WriteOrder, entry, TypeOK
  <2>9. DurableBeforeUse'
    BY <2>1, <2>2, <2>3, <2>5, HighWaterNat DEF DurableBeforeUse, TypeOK
  <2>10. FrontierVouched'
    <3>1. Saving(t) /\ (stable' = stable \/ stable' = Reserved(ReserveUntil(seq)))
          /\ (compat' = compat \/ compat' = Reserved(ReserveUntil(seq)))
      BY <1>15 DEF SaveLast, Saving
    <3> QED
      BY <1>0, <2>2, <2>3, <3>1, VouchedKept DEF entry
  <2> QED
    BY <1>0, <2>3, <2>6, <2>7, <2>8, <2>9, <2>10
<1>16. ASSUME NEW t \in Tasks, SaveFails(t) PROVE IInv'
  BY <1>16, <1>0
     DEF SaveFails, QuietWhenDown, OneSaver, ProxyInStep, MarksBracketReservation,
        SaverAtEdge, NextAboveUse, TurnsDistinct, FrontierVouched, EntryMonotone,
        NoCompatStore, EmptyIsZero, DurableBeforeUse, WriteOrder,
        Vouched, NothingStored, MergedHighWater, Saving, Queued, stores, entry, tasks
<1>17. ASSUME NEW t \in Tasks, Write(t) PROVE IInv'
  <2>1. /\ frontier' = pdu[t] + 1 /\ Queued(t) /\ linked
        /\ UNCHANGED <<stores, entry, session, next, reserved, linked, seq, arrivals>>
        /\ \A u \in Tasks : Queued(u)' =>
             u # t /\ Queued(u) /\ pdu'[u] = pdu[u] /\ turn'[u] = turn[u] /\ turn[t] <= turn[u]
        /\ \A u \in Tasks : Saving(u)' => Saving(u) /\ pc'[u] = pc[u]
    BY <1>17 DEF Write, AtHead, Queued, Saving, TypeOK
  <2>2. session # "down" /\ seq = next
    BY <2>1 DEF Queued, ProxyInStep, QuietWhenDown
  <2>3. pdu[t] < next /\ pdu[t] < Space /\ pdu[t] < HighWater(stable) /\ pdu[t] \in Nat
    BY <2>1 DEF NextAboveUse, DurableBeforeUse, TypeOK
  <2>4. \A u \in Tasks : Queued(u)' => pdu[t] < pdu[u]
    BY <2>1, HighWaterNat DEF TurnsDistinct, WriteOrder, TypeOK
  <2>5. WriteOrder' /\ TurnsDistinct'
    BY <2>1, <2>3, <2>4 DEF WriteOrder, TurnsDistinct, TypeOK
  <2>6. DurableBeforeUse' /\ NextAboveUse'
    BY <2>1, <2>2, <2>3 DEF DurableBeforeUse, NextAboveUse, stores, entry, TypeOK
  <2>7. FrontierVouched'
    <3>1. ~NothingStored
      BY <2>3 DEF NothingStored, EmptyIsZero, HighWater
    <3> QED
      BY <2>1, <2>3, <3>1, HighWaterNat
         DEF FrontierVouched, Vouched, NothingStored, MergedHighWater, Larger, stores,
             entry, TypeOK
  <2>8. QuietWhenDown' /\ OneSaver' /\ ProxyInStep' /\ SaverAtEdge'
    BY <2>1, <2>2 DEF QuietWhenDown, OneSaver, ProxyInStep, SaverAtEdge, Saving, stores
  <2>9. MarksBracketReservation'
    BY <2>1 DEF MarksBracketReservation, stores
  <2> QED
    BY <1>0, <2>1, <2>5, <2>6, <2>7, <2>8, <2>9
       DEF EntryMonotone, NoCompatStore, EmptyIsZero, stores, entry
<1>18. ASSUME NEW t \in Tasks, WriteFails(t) PROVE IInv'
  <2>1. PICK T \in SUBSET Tasks : /\ Abandon(T)
                                  /\ t \in T
                                  /\ linked' = FALSE \/ linked' = linked
    BY <1>18 DEF WriteFails, Tasks
  <2>2. UNCHANGED <<savedInitial, initial, session, next, reserved, seq, frontier>>
    BY <1>18 DEF WriteFails, entry
  <2> HIDE DEF IInv
  <2>3. /\ HighWater(stable') >= HighWater(stable)
        /\ HighWater(compat') >= HighWater(compat)
        /\ session # "down" =>
             /\ HighWater(stable') <= Larger(reserved, ReserveUntil(next))
             /\ HighWater(compat') <= Larger(reserved, ReserveUntil(next))
        /\ OneSaver' /\ SaverAtEdge' /\ TurnsDistinct'
        /\ NoCompatStore' /\ EmptyIsZero' /\ FrontierVouched'
        /\ DurableBeforeUse' /\ WriteOrder'
        /\ \A u \in Tasks : Queued(u)' => Queued(u) /\ pdu'[u] = pdu[u]
    BY <1>0, <2>1, <2>2, AbandonFacts
  <2> USE DEF IInv
  <2>4. MarksBracketReservation'
    BY <1>0, <2>2, <2>3, HighWaterNat DEF MarksBracketReservation, TypeOK
  <2>5. \A u \in Tasks : pc'[u] # "idle" => pc'[u] = pc[u]
    BY <2>1 DEF Abandon
  <2>6. QuietWhenDown' /\ ProxyInStep' /\ NextAboveUse' /\ EntryMonotone'
    BY <2>1, <2>2, <2>3, <2>5
       DEF QuietWhenDown, ProxyInStep, NextAboveUse, EntryMonotone, TypeOK
  <2> QED
    BY <1>0, <2>3, <2>4, <2>6
<1>19. CASE UNCHANGED vars
  BY <1>19, <1>0
     DEF vars, QuietWhenDown, OneSaver, ProxyInStep, MarksBracketReservation,
        SaverAtEdge, NextAboveUse, TurnsDistinct, FrontierVouched, EntryMonotone,
        NoCompatStore, EmptyIsZero, DurableBeforeUse, WriteOrder,
        Vouched, NothingStored, MergedHighWater, Saving, Queued, stores, entry, tasks
<1> QED
  BY <1>1, <1>2, <1>3, <1>4, <1>6, <1>7, <1>8, <1>9, <1>10, <1>11, <1>12, <1>13,
     <1>14, <1>15, <1>16, <1>17, <1>18, <1>19 DEF Next

LEMMA InitInv == Init => IInv
<1> SUFFICES ASSUME Init PROVE IInv
  OBVIOUS
<1> USE DEF Init
<1>1. TypeOK /\ EmptyIsZero /\ NoCompatStore
  <2>1. stable \in Record /\ compat \in Record /\ EmptyIsZero
    BY DEF EmptyIsZero
  <2>2. NoCompatStore
    BY DEF NoCompatStore, NoRecord
  <2>3. /\ initial \in Nat /\ savedInitial \in Nat /\ frontier \in 0..Space
        /\ next \in Nat /\ reserved \in Nat /\ seq \in Nat /\ arrivals \in Nat
    OBVIOUS
  <2>5. session \in {"down", "runtime", "configure"} /\ linked \in BOOLEAN
    OBVIOUS
  <2>4. /\ pc \in [Tasks -> {"idle", "held", "stable", "compat", "queued"}]
        /\ pdu \in [Tasks -> Nat] /\ turn \in [Tasks -> Nat]
    OBVIOUS
  <2> QED BY <2>1, <2>2, <2>3, <2>4, <2>5 DEF TypeOK
<1>2. FrontierVouched
  BY <1>1, HighWaterNat
     DEF FrontierVouched, Vouched, NothingStored, MergedHighWater, Larger, PriorTraffic,
         HighWater, TypeOK, EmptyIsZero
<1> QED
  BY <1>1, <1>2
     DEF IInv, QuietWhenDown, OneSaver, ProxyInStep, MarksBracketReservation, SaverAtEdge,
         NextAboveUse, TurnsDistinct, EntryMonotone, DurableBeforeUse, WriteOrder, Queued,
         Saving, TypeOK

LEMMA Invariant == Spec => []IInv
  BY InitInv, IndStep, PTL DEF Spec

(* Types are kept for every space, block and set of tasks.                 *)
THEOREM TypeCorrect == Spec => []TypeOK
<1>1. IInv => TypeOK
  BY DEF IInv
<1> QED BY <1>1, Invariant, PTL

(* No number is used before every store vouches for it.                    *)
THEOREM DurableUse == Spec => []DurableBeforeUse
<1>1. IInv => DurableBeforeUse
  BY DEF IInv
<1> QED BY <1>1, Invariant, PTL

(* PDUs are written in the order of their numbers.                         *)
THEOREM OrderedWrites == Spec => []WriteOrder
<1>1. IInv => WriteOrder
  BY DEF IInv
<1> QED BY <1>1, Invariant, PTL

(* A crash at any point is followed by a session above everything used.    *)
THEOREM SafeRestart == Spec => []RestartStartsAbove
<1>1. IInv => RestartStartsAbove
  <2> SUFFICES ASSUME IInv PROVE RestartStartsAbove
    OBVIOUS
  <2>1. frontier <= CreateNext(savedInitial)
    BY RoundUpFacts, HighWaterNat
       DEF IInv, TypeOK, FrontierVouched, Vouched, CreateNext, Larger, MergedHighWater
  <2>2. ASSUME NEW t \in Tasks, Queued(t) PROVE pdu[t] < CreateNext(savedInitial)
    <3>1. pdu[t] < HighWater(stable) /\ pdu[t] \in Nat
      BY <2>2 DEF IInv, DurableBeforeUse, TypeOK
    <3>2. ~NothingStored
      BY <3>1 DEF IInv, NothingStored, EmptyIsZero, HighWater
    <3> QED
      BY <3>1, <3>2, HighWaterNat DEF IInv, TypeOK, CreateNext, Larger, MergedHighWater
  <2> QED BY <2>1, <2>2 DEF RestartStartsAbove
<1> QED BY <1>1, Invariant, PTL

LEMMA MarksStep ==
  ASSUME IInv, IInv', Next
  PROVE  /\ HighWater(stable') >= HighWater(stable)
         /\ HighWater(compat') >= HighWater(compat)
<1>1. CASE UNCHANGED stores
  BY <1>1, HighWaterNat DEF stores, IInv, TypeOK
<1>2. ASSUME NEW T \in SUBSET Tasks, Abandon(T) PROVE
        /\ HighWater(stable') >= HighWater(stable)
        /\ HighWater(compat') >= HighWater(compat)
  <2>1. ASSUME NEW t \in T, Saving(t),
               \/ stable' = Reserved(ReserveUntil(seq)) /\ UNCHANGED compat
               \/ compat' = Reserved(ReserveUntil(seq)) /\ UNCHANGED stable
        PROVE  /\ HighWater(stable') >= HighWater(stable)
               /\ HighWater(compat') >= HighWater(compat)
    BY <2>1, SaverFacts, ReserveUntilFacts, HighWaterNat DEF IInv, TypeOK
  <2> QED BY <1>2, <2>1, <1>1 DEF Abandon, Saving
<1>3. ASSUME NEW t \in Tasks, SaveStable(t) \/ SaveLast(t) PROVE
        /\ HighWater(stable') >= HighWater(stable)
        /\ HighWater(compat') >= HighWater(compat)
  BY <1>3, SaverFacts, ReserveUntilFacts, HighWaterNat
     DEF SaveStable, SaveLast, Saving, IInv, TypeOK
<1>4. CASE StopSession \/ Crash \/ DropLink \/ CancelOperation \/ \E t \in Tasks : WriteFails(t)
  <2>1. PICK T \in SUBSET Tasks : Abandon(T)
    BY <1>4 DEF StopSession, Crash, DropLink, CancelOperation, WriteFails, Tasks
  <2> QED BY <2>1, <1>2
<1> QED
  BY <1>1, <1>3, <1>4
     DEF Next, StartSession, Connect, BeginOperation, EndOperation, FlushEntry, Exhausted,
         Draw, BeginReserve, SaveFails, Write

(* No step lowers what either store vouches for.                           *)
THEOREM MonotoneStores == Spec => StoresNeverRegress
<1>1. IInv /\ IInv' /\ [Next]_vars =>
        [/\ HighWater(stable') >= HighWater(stable)
         /\ HighWater(compat') >= HighWater(compat)]_vars
  BY MarksStep
<1> QED BY <1>1, Invariant, PTL DEF Spec, StoresNeverRegress

LEMMA FrontierStep ==
  ASSUME IInv, [Next]_vars
  PROVE  [Wire!Transmit]_frontier
<1>1. ASSUME NEW t \in Tasks, Write(t) PROVE Wire!Transmit
  <2>1. pdu[t] \in frontier..(Space - 1) /\ frontier' = pdu[t] + 1
    BY <1>1 DEF Write, AtHead, IInv, TypeOK, WriteOrder, NextAboveUse
  <2> QED BY <2>1 DEF Wire!Transmit
<1>2. CASE ~ \E t \in Tasks : Write(t)
  BY <1>2
     DEF Next, vars, StartSession, Connect, BeginOperation, EndOperation, StopSession,
         FlushEntry, Crash, Exhausted, DropLink, CancelOperation, Draw, BeginReserve,
         SaveStable, SaveLast, SaveFails, WriteFails
<1> QED BY <1>1, <1>2

(* The reservation machinery implements the replay-safe wire.              *)
THEOREM Refinement == Spec => ReplaySafe
<1>1. Init => Wire!WireInit
  BY DEF Init, Wire!WireInit
<1>2. IInv /\ [Next]_vars => [Wire!Transmit]_frontier
  BY FrontierStep
<1> QED BY <1>1, <1>2, Invariant, PTL DEF Spec, ReplaySafe, Wire!WireSpec
===============================================================================
