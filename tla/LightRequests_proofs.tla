-------------------------- MODULE LightRequests_proofs --------------------------
(***************************************************************************)
(* The light operations, for any programs and levels, any kinds of calls   *)
(* and any number of them.                                                 *)
(*                                                                         *)
(* The argument: the calls in the queue are different and alive, so what   *)
(* the owner of the lock decided when its stage began still belongs to it  *)
(* when the stage ends; and the snapshot a restore was planned from is the *)
(* one it confirms.  Whether the fixture converges is argued field by      *)
(* field: a field is as the last call in the queue that sets it asks, and  *)
(* one that none of them sets is settled already, unless Boost hides it    *)
(* and the snapshot has it.                                                *)
(***************************************************************************)
EXTENDS LightRequests, SequenceTheorems, TLAPS

Writes == [program : Programs \cup {Keep}, level : Levels \cup {Keep}, on : BOOLEAN \cup {Keep}]
Stages == {"free", "enter", "exit", "restoring", "checkingRestore", "applying", "checking"}

Requests == Request \cup {Anyone}

ReportsTyped == /\ steady \in Look \cup {NoLook} /\ effect \in Look \cup {NoLook}
                /\ boostPage \in {"none", "on", "off"}
ModalTyped   == assumed \in BOOLEAN /\ snapshot \in Look \cup {NoLook}
CallsTyped   == /\ request \in [1..MaxRequests -> Requests]
                /\ issued \in 0..MaxRequests /\ pending \in 0..issued
                /\ pending # 0 => request[pending] \in Request
QueueTyped   == /\ queue \in Seq(1..issued)
                /\ \A n \in DOMAIN queue : request[queue[n]] \in Request
                /\ \A m, n \in DOMAIN queue : queue[m] = queue[n] => m = n
StageTyped   == /\ stage \in Stages /\ failed \in BOOLEAN /\ closing \in BOOLEAN
                /\ stage # "free" => queue # <<>>
                /\ stage \in {"restoring", "applying"} => plan.write \in Writes
                /\ stage \in {"restoring", "checkingRestore"} => plan.write \in Look

WellTyped == fixture \in Look /\ ReportsTyped /\ ModalTyped /\ CallsTyped /\ QueueTyped
             /\ StageTyped

USE DefaultAssumption, BoundAssumption

-------------------------------------------------------------------------------
(* Looks.                                                                  *)

LEMMA LookFacts ==
  /\ \A l \in Look : l.program \in Programs /\ l.level \in Levels /\ l.on \in BOOLEAN
  /\ \A p \in Programs, v \in Levels : /\ [program |-> p, level |-> v, on |-> TRUE] \in Look
                                       /\ [program |-> p, level |-> v, on |-> FALSE] \in Look
  BY DEF Look

LEMMA PutFacts ==
  ASSUME NEW look \in Look, NEW write \in Writes
  PROVE  Put(look, write) \in Look
  BY DEF Put, Look, Writes

LEMMA LookIsWrite == Look \subseteq Writes
  BY DEF Look, Writes

LEMMA VisibleFacts ==
  ASSUME ReportsTyped
  PROVE  Visible # NoLook => Visible \in Look /\ Visible.level \in Levels
  BY DEF ReportsTyped, Visible, Look

LEMMA InFlightFacts ==
  ASSUME WellTyped
  PROVE  \A look \in InFlight : look \in Look
<1>1. [fixture EXCEPT !.program = Glare, !.on = TRUE] \in Look
  BY DEF WellTyped, Look, Programs, Steady
<1>2. stage \in {"restoring", "applying"} => Put(fixture, plan.write) \in Look
  BY PutFacts DEF WellTyped, StageTyped
<1> QED  BY <1>1, <1>2 DEF InFlight, WellTyped

-------------------------------------------------------------------------------
(* Requests and plans.                                                     *)

LEMMA RequestFacts ==
  ASSUME NEW r \in Request
  PROVE  /\ r.program \in Programs \cup {Keep} /\ r.level \in Levels \cup {Keep}
         /\ r.fallback \in Levels \cup {Keep} /\ r.kind \in Kinds
         /\ [r EXCEPT !.superseded = TRUE] \in Request
         /\ \A v \in Levels \cup {Keep} : [r EXCEPT !.fallback = v] \in Request
  BY DEF Request

LEMMA PlanFacts ==
  ASSUME ReportsTyped, ModalTyped, NEW r \in Request
  PROVE  /\ HasApply(r) => ApplyPlan(r).write \in Writes
         /\ snapshot # NoLook => RestorePlan(r).write \in Look
<1>1. snapshot # NoLook => RestorePlan(r).write \in Look
  BY DEF RestorePlan, RestoreLook, ModalTyped, Request, Look
<1>2. Wake \in BOOLEAN \cup {Keep}
  BY DEF Wake
<1>3. SlideLevel(r) \in Levels \cup {Keep}
  BY DEF SlideLevel, ModalTyped, Request, Look
<1>4. SlidePlan(r).write \in Writes
  BY <1>2, <1>3 DEF SlidePlan, ReportsTyped, Request, Look, Writes
<1>5. OnPlan.write \in Writes
  BY DEF OnPlan, Writes
<1>6. OffPlan.write \in Writes
  BY DEF OffPlan, Writes
<1>7. EffectPlan(r).write \in Writes
  BY VisibleFacts DEF EffectPlan, Request, Writes
<1>8. ExitEffectPlan(r).write \in Writes
  BY <1>2 DEF ExitEffectPlan, ReportsTyped, Request, Look, Writes, Programs, Steady
<1> QED  BY <1>1, <1>4, <1>5, <1>6, <1>7, <1>8 DEF HasApply, ApplyPlan

-------------------------------------------------------------------------------
(* The queue.                                                              *)

LEMMA TailFacts ==
  ASSUME NEW S, NEW q \in Seq(S), q # <<>>
  PROVE  /\ Tail(q) \in Seq(S) /\ Head(q) = q[1] /\ Head(q) \in S /\ 1 \in DOMAIN q
         /\ \A n \in DOMAIN Tail(q) : Tail(q)[n] = q[n + 1] /\ n + 1 \in DOMAIN q
  OBVIOUS

LEMMA WithoutFacts ==
  ASSUME NEW S, queue \in Seq(S), NEW k \in DOMAIN queue
  PROVE  /\ Without(k) \in Seq(S)
         /\ DOMAIN Without(k) = 1..Len(queue) - 1
         /\ \A n \in DOMAIN Without(k) :
              /\ n < k => n \in DOMAIN queue /\ Without(k)[n] = queue[n]
              /\ ~(n < k) => /\ n + 1 \in DOMAIN queue /\ n + 1 # k
                             /\ Without(k)[n] = queue[n + 1]
         /\ Len(queue) > 1 => Without(k) # <<>>
<1>1. Len(queue) - 1 \in Nat /\ \A n \in 1..Len(queue) - 1 : Without(k)[n] \in S
  BY DEF Without
<1>2. Without(k) \in Seq(S)
  <2>1. Without(k) \in [1..Len(queue) - 1 -> S]
    BY <1>1 DEF Without
  <2> QED  BY <1>1, <2>1, SeqDef
<1>3. DOMAIN Without(k) = 1..Len(queue) - 1
  BY DEF Without
<1>4. \A n \in DOMAIN Without(k) :
        /\ n < k => n \in DOMAIN queue /\ Without(k)[n] = queue[n]
        /\ ~(n < k) => n + 1 \in DOMAIN queue /\ n + 1 # k /\ Without(k)[n] = queue[n + 1]
  BY <1>3 DEF Without
<1>5. Len(queue) > 1 => Without(k) # <<>>
  <2>1. Len(queue) \in Nat
    OBVIOUS
  <2>2. Len(queue) > 1 => 1 \in 1..Len(queue) - 1
    BY <2>1
  <2>3. DOMAIN <<>> = {}
    OBVIOUS
  <2> QED  BY <1>3, <2>2, <2>3
<1> QED  BY <1>2, <1>3, <1>4, <1>5

LEMMA EnqueueTypes ==
  ASSUME WellTyped, NEW requests \in [1..MaxRequests -> Requests], NEW r \in Request,
         \A id \in 1..issued : request[id] \in Request => requests[id] \in Request,
         Enqueue(requests, r), pending' \in {0, pending, issued'}
  PROVE  /\ WellTyped'
         /\ issued' = issued + 1 /\ request' = [requests EXCEPT ![issued'] = r]
<1>1. /\ issued' = issued + 1 /\ issued' \in 1..MaxRequests
      /\ request' = [requests EXCEPT ![issued'] = r] /\ queue' = Append(queue, issued')
      /\ UNCHANGED <<fixture, reports, modal, stage, plan, failed, closing>>
  BY DEF Enqueue, WellTyped, CallsTyped
<1>2. CallsTyped'
  <2>1. issued \in Nat /\ pending \in 0..issued /\ issued' \in 0..MaxRequests
    BY <1>1 DEF WellTyped, CallsTyped
  <2>2. request' \in [1..MaxRequests -> Requests]
    BY <1>1 DEF Requests
  <2>3. request'[issued'] = r
    BY <1>1
  <2>4. pending # 0 => request'[pending] \in Request
    <3> SUFFICES ASSUME pending # 0 PROVE request'[pending] \in Request
      OBVIOUS
    <3>1. pending \in 1..issued /\ request[pending] \in Request
      BY <2>1 DEF WellTyped, CallsTyped
    <3> QED  BY <1>1, <2>1, <3>1
  <2>5. pending' \in 0..issued' /\ (pending' # 0 => request'[pending'] \in Request)
    BY <1>1, <2>1, <2>3, <2>4
  <2> QED  BY <2>1, <2>2, <2>5 DEF CallsTyped
<1>3. QueueTyped'
  <2>1. queue \in Seq(1..issued) /\ issued \in Nat
    BY DEF WellTyped, QueueTyped, CallsTyped
  <2>2. queue' \in Seq(1..issued')
    <3>1. queue \in Seq(1..issued')
      BY <1>1, <2>1
    <3> QED  BY <1>1, <3>1
  <2>3. /\ DOMAIN queue' = 1..Len(queue) + 1 /\ queue'[Len(queue) + 1] = issued'
        /\ \A n \in 1..Len(queue) : queue'[n] = queue[n] /\ queue[n] \in 1..issued
    BY <1>1, <2>1
  <2>4. \A n \in 1..Len(queue) : request'[queue[n]] \in Request
    <3> SUFFICES ASSUME NEW n \in 1..Len(queue) PROVE request'[queue[n]] \in Request
      OBVIOUS
    <3>1. queue[n] \in 1..issued /\ request[queue[n]] \in Request
      BY <2>1, <2>3 DEF WellTyped, QueueTyped
    <3> QED  BY <1>1, <2>1, <3>1
  <2>5. request'[issued'] = r
    BY <1>1
  <2>6. \A n \in DOMAIN queue' : request'[queue'[n]] \in Request
    <3> SUFFICES ASSUME NEW n \in DOMAIN queue' PROVE request'[queue'[n]] \in Request
      OBVIOUS
    <3>1. CASE n \in 1..Len(queue)
      BY <2>3, <2>4, <3>1
    <3>2. CASE n = Len(queue) + 1
      BY <2>3, <2>5, <3>2
    <3> QED  BY <2>1, <2>3, <3>1, <3>2
  <2>7. \A m, n \in DOMAIN queue' : queue'[m] = queue'[n] => m = n
    BY <1>1, <2>1, <2>3 DEF WellTyped, QueueTyped
  <2> QED  BY <2>2, <2>6, <2>7 DEF QueueTyped
<1>4. StageTyped'
  <2>1. queue' # <<>>
    BY <1>1 DEF WellTyped, QueueTyped
  <2> QED  BY <1>1, <2>1 DEF WellTyped, StageTyped
<1> QED  BY <1>1, <1>2, <1>3, <1>4
         DEF WellTyped, ReportsTyped, ModalTyped, reports, modal

LEMMA SupersedeFacts ==
  ASSUME WellTyped
  PROVE  /\ Supersede(request) \in [1..MaxRequests -> Requests]
         /\ \A id \in 1..issued : request[id] \in Request => Supersede(request)[id] \in Request
<1>1. /\ request \in [1..MaxRequests -> Requests] /\ pending \in 0..issued
      /\ issued \in 0..MaxRequests
  BY DEF WellTyped, CallsTyped
<1>2. CASE pending = 0
  BY <1>1, <1>2 DEF Supersede
<1>3. CASE pending # 0
  <2> DEFINE gone == [request[pending] EXCEPT !.superseded = TRUE]
  <2>1. pending \in 1..MaxRequests /\ request[pending] \in Requests
    BY <1>1, <1>3
  <2>2. gone \in Request
    BY <1>3, RequestFacts DEF WellTyped, CallsTyped
  <2>3. Supersede(request) = [request EXCEPT ![pending] = gone]
    BY <1>3 DEF Supersede
  <2> HIDE DEF gone
  <2>4. Supersede(request) \in [1..MaxRequests -> Requests]
    BY <1>1, <2>1, <2>2, <2>3 DEF Requests
  <2>5. \A id \in 1..issued : request[id] \in Request => Supersede(request)[id] \in Request
    BY <1>1, <2>1, <2>2, <2>3
  <2> QED  BY <2>4, <2>5
<1> QED  BY <1>2, <1>3

LEMMA OwnerFacts ==
  ASSUME WellTyped, queue # <<>>
  PROVE  /\ queue \in Seq(1..issued) /\ issued \in Nat /\ issued \in 0..MaxRequests
         /\ Head(queue) = queue[1] /\ 1 \in DOMAIN queue
         /\ Head(queue) \in 1..issued /\ Head(queue) \in 1..MaxRequests
         /\ Owner \in Request
<1>1. queue \in Seq(1..issued) /\ issued \in Nat /\ issued \in 0..MaxRequests
  BY DEF WellTyped, QueueTyped, CallsTyped
<1>2. Head(queue) = queue[1] /\ 1 \in DOMAIN queue /\ Head(queue) \in 1..issued
  BY <1>1, TailFacts
<1> QED  BY <1>1, <1>2 DEF Owner, WellTyped, QueueTyped

(* The calls that are left are the ones that were there, and the pending   *)
(* one among them, when the call at one position of the queue is over.     *)
LEMMA ReleaseTypes ==
  ASSUME WellTyped, queue # <<>>, Release
  PROVE  CallsTyped' /\ QueueTyped' /\ StageTyped'
<1>1. /\ queue \in Seq(1..issued) /\ issued \in 0..MaxRequests
      /\ Head(queue) = queue[1] /\ 1 \in DOMAIN queue
      /\ Head(queue) \in 1..issued
  BY OwnerFacts
<1>2. /\ issued' = issued /\ request' = [request EXCEPT ![Head(queue)] = Anyone]
      /\ queue' = Tail(queue) /\ pending' = IF pending = Head(queue) THEN 0 ELSE pending
  BY DEF Release
<1>3. CallsTyped'
  <2>1. request \in [1..MaxRequests -> Requests] /\ pending \in 0..issued
    BY DEF WellTyped, CallsTyped
  <2>2. request' \in [1..MaxRequests -> Requests]
    BY <1>2, <2>1 DEF Requests
  <2>3. pending' \in 0..issued
    BY <1>1, <1>2, <2>1
  <2>4. pending' # 0 => request'[pending'] \in Request
    <3> SUFFICES ASSUME pending' # 0 PROVE request'[pending'] \in Request
      OBVIOUS
    <3>1. pending' = pending /\ pending # Head(queue)
      BY <1>2
    <3>2. request[pending] \in Request /\ pending \in 1..MaxRequests
      BY <1>1, <2>1, <3>1 DEF WellTyped, CallsTyped
    <3> QED  BY <1>2, <2>1, <3>1, <3>2
  <2> QED  BY <1>1, <1>2, <2>2, <2>3, <2>4 DEF CallsTyped
<1>4. QueueTyped'
  <2>1. /\ Tail(queue) \in Seq(1..issued)
        /\ \A n \in DOMAIN Tail(queue) : /\ Tail(queue)[n] = queue[n + 1]
                                         /\ n + 1 \in DOMAIN queue
    BY <1>1, TailFacts
  <2>2. \A n \in DOMAIN queue' : request'[queue'[n]] \in Request
    <3> SUFFICES ASSUME NEW n \in DOMAIN queue' PROVE request'[queue'[n]] \in Request
      OBVIOUS
    <3>1. n \in Nat \ {0} /\ queue'[n] = queue[n + 1] /\ n + 1 \in DOMAIN queue
      BY <1>2, <2>1
    <3>2. n + 1 # 1
      BY <3>1
    <3>3. queue[n + 1] # queue[1] /\ request[queue[n + 1]] \in Request
      BY <1>1, <3>1, <3>2 DEF WellTyped, QueueTyped
    <3>4. queue[n + 1] \in 1..MaxRequests
      BY <1>1, <3>1
    <3> QED  BY <1>1, <1>2, <3>1, <3>3, <3>4 DEF WellTyped, CallsTyped
  <2>3. \A m, n \in DOMAIN queue' : queue'[m] = queue'[n] => m = n
    <3> SUFFICES ASSUME NEW m \in DOMAIN queue', NEW n \in DOMAIN queue',
                        queue'[m] = queue'[n]
                 PROVE  m = n
      OBVIOUS
    <3>1. m + 1 = n + 1
      BY <1>2, <2>1 DEF WellTyped, QueueTyped
    <3>2. m \in Nat /\ n \in Nat
      BY <1>2, <2>1
    <3> QED  BY <3>1, <3>2
  <2> QED  BY <1>2, <2>1, <2>2, <2>3 DEF QueueTyped
<1>5. StageTyped'
  <2>1. closing' \in BOOLEAN
    <3>1. closing' = (closing \/ Owner.kind = "stop")
      BY DEF Release
    <3> QED  BY <3>1, Zenon
  <2> QED  BY <2>1 DEF Release, StageTyped, Stages
<1> QED  BY <1>3, <1>4, <1>5

LEMMA RemoveTypes ==
  ASSUME WellTyped, NEW k \in DOMAIN queue, queue' = Without(k), k # 1 \/ stage = "free",
         request' = [request EXCEPT ![queue[k]] = Anyone],
         pending' = IF pending = queue[k] THEN 0 ELSE pending,
         UNCHANGED <<issued, stage, plan, failed, closing>>
  PROVE  CallsTyped' /\ QueueTyped' /\ StageTyped'
<1>1. /\ queue \in Seq(1..issued) /\ issued \in 0..MaxRequests /\ queue[k] \in 1..issued
      /\ request \in [1..MaxRequests -> Requests] /\ pending \in 0..issued
  BY DEF WellTyped, QueueTyped, CallsTyped
<1>2. /\ Without(k) \in Seq(1..issued)
      /\ DOMAIN Without(k) = 1..Len(queue) - 1
      /\ \A n \in DOMAIN Without(k) :
           /\ n < k => n \in DOMAIN queue /\ Without(k)[n] = queue[n]
           /\ ~(n < k) => n + 1 \in DOMAIN queue /\ n + 1 # k /\ Without(k)[n] = queue[n + 1]
      /\ Len(queue) > 1 => Without(k) # <<>>
  BY <1>1, WithoutFacts
<1>3. CallsTyped'
  <2>1. request' \in [1..MaxRequests -> Requests]
    BY <1>1 DEF Requests
  <2>2. pending' \in 0..issued
    BY <1>1
  <2>3. pending' # 0 => request'[pending'] \in Request
    <3> SUFFICES ASSUME pending' # 0 PROVE request'[pending'] \in Request
      OBVIOUS
    <3>1. pending' = pending /\ pending # queue[k]
      OBVIOUS
    <3>2. request[pending] \in Request /\ pending \in 1..MaxRequests
      BY <1>1, <3>1 DEF WellTyped, CallsTyped
    <3> QED  BY <1>1, <3>1, <3>2
  <2> QED  BY <1>1, <2>1, <2>2, <2>3 DEF CallsTyped
<1>4. QueueTyped'
  <2> DEFINE from(n) == IF n < k THEN n ELSE n + 1
  <2>1. \A n \in DOMAIN queue' : /\ n \in Int /\ from(n) \in DOMAIN queue /\ from(n) # k
                                 /\ queue'[n] = queue[from(n)]
    BY <1>2
  <2>2. \A m, n \in DOMAIN queue' : from(m) = from(n) => m = n
    <3> SUFFICES ASSUME NEW m \in DOMAIN queue', NEW n \in DOMAIN queue', from(m) = from(n)
                 PROVE  m = n
      OBVIOUS
    <3>1. m \in Int /\ n \in Int /\ k \in Int
      BY <1>1, <2>1
    <3> QED  BY <3>1
  <2> HIDE DEF from
  <2>3. \A n \in DOMAIN queue' : request'[queue'[n]] \in Request
    <3> SUFFICES ASSUME NEW n \in DOMAIN queue' PROVE request'[queue'[n]] \in Request
      OBVIOUS
    <3>1. from(n) \in DOMAIN queue /\ from(n) # k /\ queue'[n] = queue[from(n)]
      BY <2>1
    <3>2. queue[from(n)] # queue[k] /\ request[queue[from(n)]] \in Request
      BY <3>1 DEF WellTyped, QueueTyped
    <3>3. queue[from(n)] \in 1..MaxRequests
      BY <1>1, <3>1
    <3> QED  BY <1>1, <3>1, <3>2, <3>3
  <2>4. \A m, n \in DOMAIN queue' : queue'[m] = queue'[n] => m = n
    BY <2>1, <2>2 DEF WellTyped, QueueTyped
  <2> QED  BY <1>2, <2>3, <2>4 DEF QueueTyped
<1>5. StageTyped'
  <2>1. stage # "free" => queue' # <<>>
    <3>1. k # 1 => Len(queue) > 1
      BY <1>1
    <3> QED  BY <1>2, <3>1
  <2> QED  BY <2>1 DEF WellTyped, StageTyped
<1> QED  BY <1>3, <1>4, <1>5

-------------------------------------------------------------------------------
(* Every step keeps every type.                                            *)

LEMMA SlideTypes ==
  ASSUME WellTyped, NEW program \in Colors \cup {Keep}, NEW level \in Levels \cup {Keep},
         Slide(program, level)
  PROVE  WellTyped'
<1> DEFINE r == [kind |-> "slide", program |-> Merged("program", program),
                 level |-> Merged("level", level), fallback |-> Visible.level,
                 superseded |-> FALSE]
<1>1. Merged("program", program) \in Programs \cup {Keep}
      /\ Merged("level", level) \in Levels \cup {Keep}
  BY RequestFacts DEF Merged, WellTyped, CallsTyped, Programs, Steady
<1>2. "slide" \in Kinds /\ Visible.level \in Levels
  BY VisibleFacts DEF Slide, WellTyped
<1>3. r \in Request
  BY <1>1, <1>2 DEF Request
<1>4. Enqueue(Supersede(request), r) /\ pending' = issued'
  BY DEF Slide
<1> QED  BY <1>3, <1>4, SupersedeFacts, EnqueueTypes

LEMMA DiscreteTypes ==
  ASSUME WellTyped, NEW kind, NEW program \in Programs \cup {Keep},
         NEW level \in Levels \cup {Keep}, NEW on, Discrete(kind, program, level, on)
  PROVE  WellTyped'
<1> DEFINE r == [kind |-> kind, program |-> program, level |-> level,
                 fallback |-> Visible.level, superseded |-> FALSE]
<1>1. kind \in Kinds /\ Visible.level \in Levels
  BY VisibleFacts DEF Discrete, WellTyped
<1>2. r \in Request
  BY <1>1 DEF Request
<1>3. Enqueue(Supersede(request), r) /\ pending' = 0
  BY DEF Discrete
<1> QED  BY <1>2, <1>3, SupersedeFacts, EnqueueTypes

LEMMA PlainTypes ==
  ASSUME WellTyped, NEW kind, Plain(kind)
  PROVE  WellTyped'
<1> DEFINE r == [Anyone EXCEPT !.kind = kind]
<1>1. r \in Request
  BY DEF Plain, Anyone, Request
<1>2. Enqueue(request, r) /\ pending' = pending
  BY DEF Plain
<1>3. request \in [1..MaxRequests -> Requests]
  BY DEF WellTyped, CallsTyped
<1> QED  BY <1>1, <1>2, <1>3, EnqueueTypes

LEMMA CallTypes ==
  ASSUME WellTyped, Call
  PROVE  WellTyped'
<1>1. ASSUME NEW program \in Colors \cup {Keep}, NEW level \in Levels \cup {Keep},
             Slide(program, level)
      PROVE  WellTyped'
  BY <1>1, SlideTypes
<1>2. CASE TurnOn
  BY <1>2, DiscreteTypes DEF TurnOn
<1>3. CASE TurnOff
  BY <1>3, DiscreteTypes DEF TurnOff
<1>4. ASSUME NEW e \in Effects, NEW level \in Levels \cup {Keep}, SelectEffect(e, level)
      PROVE  WellTyped'
  <2>1. e \in Programs \cup {Keep}
    BY DEF Programs
  <2> QED  BY <1>4, <2>1, DiscreteTypes DEF SelectEffect
<1>5. ASSUME NEW level \in Levels \cup {Keep}, EffectOff(level)
      PROVE  WellTyped'
  BY <1>5, DiscreteTypes DEF EffectOff
<1>6. CASE BoostOn
  BY <1>6, PlainTypes DEF BoostOn
<1>7. CASE BoostOff
  BY <1>7, PlainTypes DEF BoostOff
<1>8. CASE Stop
  BY <1>8, PlainTypes DEF Stop
<1> QED  BY <1>1, <1>2, <1>3, <1>4, <1>5, <1>6, <1>7, <1>8 DEF Call

(* The owner goes on with a plan of its own.                               *)
LEMMA GoToTypes ==
  ASSUME WellTyped, queue # <<>>, NEW where \in Stages, NEW what, GoTo(where, what),
         failed' \in BOOLEAN,
         where \in {"restoring", "applying"} => what.write \in Writes,
         where \in {"restoring", "checkingRestore"} => what.write \in Look
  PROVE  CallsTyped' /\ QueueTyped' /\ StageTyped'
  BY DEF GoTo, WellTyped, CallsTyped, QueueTyped, StageTyped, calls

LEMMA KeepRetryableTypes ==
  ASSUME WellTyped, NEW page \in {"none", "on", "off"}, KeepRetryable(page)
  PROVE  assumed' \in BOOLEAN /\ boostPage' \in {"none", "on", "off"}
<1>1. assumed' \in BOOLEAN
  <2>1. assumed' = TRUE \/ assumed' = assumed
    BY DEF KeepRetryable
  <2>2. assumed \in BOOLEAN
    BY DEF WellTyped, ModalTyped
  <2> QED  BY <2>1, <2>2, Zenon
<1> QED  BY <1>1 DEF KeepRetryable

LEMMA ReceiveTypes ==
  ASSUME WellTyped, NEW look \in Look, Receive(look)
  PROVE  ReportsTyped'
  BY DEF Receive, WellTyped, ReportsTyped, Page

LEMMA FailsTypes ==
  ASSUME WellTyped, queue # <<>>, Fails
  PROVE  CallsTyped' /\ QueueTyped' /\ StageTyped' /\ snapshot' \in Look \cup {NoLook}
<1>1. snapshot' \in Look \cup {NoLook}
  BY DEF Fails, WellTyped, ModalTyped
<1>2. CASE Raise
  BY <1>1, <1>2, ReleaseTypes DEF Raise
<1>3. CASE GoTo("applying", OffPlan) /\ failed' = TRUE
  <2>1. OffPlan.write \in Writes /\ "applying" \in Stages
    BY DEF OffPlan, Writes, Stages
  <2>2. failed' \in BOOLEAN
    BY <1>3, Zenon
  <2> QED  BY <1>1, <1>3, <2>1, <2>2, GoToTypes
<1> QED  BY <1>2, <1>3, <1>1 DEF Fails

LEMMA BeginTypes ==
  ASSUME WellTyped, Begin
  PROVE  WellTyped'
<1> DEFINE r == [Owner EXCEPT !.fallback = IF Visible # NoLook THEN Visible.level ELSE @]
<1>1. /\ queue # <<>>
      /\ request' = [request EXCEPT ![Head(queue)] = r]
      /\ UNCHANGED <<fixture, reports, modal, issued, pending, queue, failed, closing>>
      /\ \/ stage' \in {"enter", "exit"}
         \/ HasApply(r) /\ stage' = "applying" /\ plan' = ApplyPlan(r)
  BY DEF Begin
<1>2. Head(queue) \in 1..MaxRequests /\ Owner \in Request
  BY <1>1, OwnerFacts
<1>3. Visible # NoLook => Visible.level \in Levels \cup {Keep}
  BY VisibleFacts DEF WellTyped
<1>4. r \in Request
  BY <1>2, <1>3 DEF Request
<1> HIDE DEF r
<1>5. HasApply(r) => ApplyPlan(r).write \in Writes
  BY <1>4, PlanFacts DEF WellTyped
<1>6. CallsTyped'
  <2>1. request' \in [1..MaxRequests -> Requests]
    BY <1>1, <1>4 DEF WellTyped, CallsTyped, Requests
  <2>2. pending # 0 => request'[pending] \in Request
    BY <1>1, <1>2, <1>4 DEF WellTyped, CallsTyped
  <2> QED  BY <1>1, <2>1, <2>2 DEF WellTyped, CallsTyped
<1>7. QueueTyped'
  <2>1. \A n \in DOMAIN queue : request'[queue[n]] \in Request
    <3> SUFFICES ASSUME NEW n \in DOMAIN queue PROVE request'[queue[n]] \in Request
      OBVIOUS
    <3>1. queue[n] \in 1..MaxRequests /\ request[queue[n]] \in Request
      BY DEF WellTyped, QueueTyped, CallsTyped
    <3> QED  BY <1>1, <1>2, <1>4, <3>1 DEF WellTyped, CallsTyped
  <2> QED  BY <1>1, <2>1 DEF WellTyped, QueueTyped
<1>8. StageTyped'
  BY <1>1, <1>5 DEF WellTyped, StageTyped, Stages
<1> QED  BY <1>1, <1>6, <1>7, <1>8 DEF WellTyped, ReportsTyped, ModalTyped, reports, modal

LEMMA BeginNothingTypes ==
  ASSUME WellTyped, BeginNothing
  PROVE  WellTyped'
<1>1. queue # <<>> /\ Release /\ UNCHANGED <<fixture, reports, modal>>
  BY DEF BeginNothing, Raise
<1> QED  BY <1>1, ReleaseTypes DEF WellTyped, ReportsTyped, ModalTyped, reports, modal

LEMMA EnterBoostTypes ==
  ASSUME WellTyped, EnterBoost
  PROVE  WellTyped'
<1>1. queue # <<>>
  BY DEF EnterBoost, WellTyped, StageTyped
<1>2. CallsTyped' /\ QueueTyped' /\ StageTyped'
  BY <1>1, ReleaseTypes DEF EnterBoost
<1>3. fixture' \in Look
  BY InFlightFacts DEF EnterBoost
<1>4. snapshot' \in Look \cup {NoLook}
  BY VisibleFacts DEF EnterBoost, WellTyped, ModalTyped
<1>5. ModalTyped'
  <2>1. assumed' = TRUE
    BY DEF EnterBoost
  <2>2. assumed' \in BOOLEAN
    BY <2>1, Zenon
  <2> QED  BY <1>4, <2>2 DEF ModalTyped
<1>6. ReportsTyped'
  BY DEF EnterBoost, WellTyped, ReportsTyped
<1> QED  BY <1>2, <1>3, <1>5, <1>6 DEF WellTyped

LEMMA LeaveBoostTypes ==
  ASSUME WellTyped, LeaveBoost
  PROVE  WellTyped'
<1>1. queue # <<>> /\ failed \in BOOLEAN
  BY DEF LeaveBoost, WellTyped, StageTyped
<1>2. Owner \in Request
  BY <1>1, OwnerFacts
<1>3. /\ HasApply(Owner) => ApplyPlan(Owner).write \in Writes
      /\ snapshot # NoLook => RestorePlan(Owner).write \in Look
  BY <1>2, PlanFacts DEF WellTyped
<1>4. CallsTyped' /\ QueueTyped' /\ StageTyped'
  <2>1. CASE Release
    BY <1>1, <2>1, ReleaseTypes
  <2>2. CASE Restores(Owner) /\ GoTo("restoring", RestorePlan(Owner)) /\ UNCHANGED failed
    <3>1. RestorePlan(Owner).write \in Look /\ RestorePlan(Owner).write \in Writes
      BY <1>3, <2>2, LookIsWrite DEF Restores
    <3>2. "restoring" \in Stages /\ failed' \in BOOLEAN
      BY <1>1, <2>2 DEF Stages
    <3> QED  BY <1>1, <2>2, <3>1, <3>2, GoToTypes
  <2>3. CASE HasApply(Owner) /\ GoTo("applying", ApplyPlan(Owner)) /\ UNCHANGED failed
    <3>1. "applying" \in Stages /\ failed' \in BOOLEAN
      BY <1>1, <2>3 DEF Stages
    <3> QED  BY <1>1, <1>3, <2>3, <3>1, GoToTypes
  <2> QED  BY <2>1, <2>2, <2>3 DEF LeaveBoost
<1>5. ModalTyped'
  <2>1. assumed' = FALSE
    BY DEF LeaveBoost
  <2>2. assumed' \in BOOLEAN
    BY <2>1, Zenon
  <2>3. snapshot' \in Look \cup {NoLook}
    BY DEF LeaveBoost, WellTyped, ModalTyped
  <2> QED  BY <2>2, <2>3 DEF ModalTyped
<1>6. ReportsTyped' /\ fixture' \in Look
  BY DEF LeaveBoost, WellTyped, ReportsTyped
<1> QED  BY <1>4, <1>5, <1>6 DEF WellTyped

LEMMA SendTypes ==
  ASSUME WellTyped, Send
  PROVE  WellTyped'
<1>1. queue # <<>> /\ failed \in BOOLEAN
  BY DEF Send, WellTyped, StageTyped
<1>2. fixture' \in Look
  BY InFlightFacts DEF Send
<1>3. CallsTyped' /\ QueueTyped' /\ StageTyped'
  <2>1. CASE Release
    BY <1>1, <2>1, ReleaseTypes
  <2>2. CASE stage = "restoring" /\ GoTo("checkingRestore", plan) /\ UNCHANGED failed
    <3>1. "checkingRestore" \in Stages /\ failed' \in BOOLEAN /\ plan.write \in Look
      BY <1>1, <2>2 DEF Stages, WellTyped, StageTyped
    <3> QED  BY <1>1, <2>2, <3>1, GoToTypes
  <2>3. CASE GoTo("checking", plan) /\ UNCHANGED failed
    <3>1. "checking" \in Stages /\ failed' \in BOOLEAN
      BY <1>1, <2>3 DEF Stages
    <3> QED  BY <1>1, <2>3, <3>1, GoToTypes
  <2> QED  BY <2>1, <2>2, <2>3 DEF Send
<1> QED  BY <1>2, <1>3 DEF Send, WellTyped, ReportsTyped, ModalTyped, reports, modal

LEMMA ConfirmTypes ==
  ASSUME WellTyped, Confirm
  PROVE  WellTyped'
<1>1. queue # <<>> /\ failed \in BOOLEAN
  BY DEF Confirm, WellTyped, StageTyped
<1>2. CallsTyped' /\ QueueTyped' /\ StageTyped'
  <2>1. CASE Release
    BY <1>1, <2>1, ReleaseTypes
  <2>2. CASE GoTo("applying", OffPlan) /\ UNCHANGED failed
    <3>1. OffPlan.write \in Writes /\ "applying" \in Stages /\ failed' \in BOOLEAN
      BY <1>1, <2>2 DEF OffPlan, Writes, Stages
    <3> QED  BY <1>1, <2>2, <3>1, GoToTypes
  <2> QED  BY <2>1, <2>2 DEF Confirm, Raise
<1>3. ReportsTyped'
  BY ReceiveTypes DEF Confirm, WellTyped
<1>4. ModalTyped' /\ fixture' \in Look
  BY DEF Confirm, WellTyped, ModalTyped
<1> QED  BY <1>2, <1>3, <1>4 DEF WellTyped

LEMMA SendFailsTypes ==
  ASSUME WellTyped, SendFails
  PROVE  WellTyped'
<1>1. queue # <<>>
  BY DEF SendFails, WellTyped, StageTyped
<1>2. CallsTyped' /\ QueueTyped' /\ StageTyped' /\ snapshot' \in Look \cup {NoLook}
  BY <1>1, FailsTypes DEF SendFails
<1>3. fixture' \in Look
  BY InFlightFacts DEF SendFails
<1>4. assumed' \in BOOLEAN /\ boostPage' \in {"none", "on", "off"}
  <2>1. boostPage \in {"none", "on", "off"} /\ "none" \in {"none", "on", "off"}
    BY DEF WellTyped, ReportsTyped
  <2> QED  BY <2>1, KeepRetryableTypes DEF SendFails
<1>5. steady' \in Look \cup {NoLook} /\ effect' \in Look \cup {NoLook}
  BY DEF SendFails, WellTyped, ReportsTyped
<1> QED  BY <1>2, <1>3, <1>4, <1>5 DEF WellTyped, ReportsTyped, ModalTyped

LEMMA UnconfirmedTypes ==
  ASSUME WellTyped, Unconfirmed
  PROVE  WellTyped'
<1>1. queue # <<>>
  BY DEF Unconfirmed, WellTyped, StageTyped
<1>2. CallsTyped' /\ QueueTyped' /\ StageTyped' /\ snapshot' \in Look \cup {NoLook}
  BY <1>1, FailsTypes DEF Unconfirmed
<1>3. assumed' \in BOOLEAN /\ boostPage' \in {"none", "on", "off"}
  BY KeepRetryableTypes DEF Unconfirmed, WellTyped, ReportsTyped
<1> QED  BY <1>2, <1>3 DEF Unconfirmed, WellTyped, ReportsTyped, ModalTyped

LEMMA GiveWayTypes ==
  ASSUME WellTyped, GiveWay
  PROVE  WellTyped'
<1>1. queue # <<>>
  BY DEF GiveWay, WellTyped, StageTyped
<1>2. CallsTyped' /\ QueueTyped' /\ StageTyped'
  BY <1>1, ReleaseTypes DEF GiveWay
<1> QED  BY <1>2 DEF GiveWay, WellTyped, ReportsTyped, ModalTyped, reports, modal

LEMMA ReportTypes ==
  ASSUME WellTyped, Report
  PROVE  WellTyped'
<1>1. ReportsTyped'
  BY ReceiveTypes DEF Report, WellTyped
<1> QED  BY <1>1 DEF Report, WellTyped, ModalTyped, CallsTyped, QueueTyped, StageTyped,
                     modal, calls, lock

LEMMA DisconnectTypes ==
  ASSUME WellTyped, Disconnect
  PROVE  WellTyped'
  BY DEF Disconnect, ClearReports, WellTyped, ReportsTyped, ModalTyped, CallsTyped,
         QueueTyped, StageTyped, modal, calls, lock

LEMMA CancelTypes ==
  ASSUME WellTyped, NEW n \in 1..MaxRequests, Cancel(n)
  PROVE  WellTyped'
<1>1. n \in DOMAIN queue /\ UNCHANGED <<steady, effect, snapshot>>
  BY DEF Cancel
<1>2. CASE n = 1 /\ stage # "free"
  <2>1. Release /\ KeepRetryable(boostPage) /\ fixture' \in InFlight
    BY <1>2 DEF Cancel, Raise
  <2>2. queue # <<>>
    BY <1>2 DEF WellTyped, StageTyped
  <2>3. CallsTyped' /\ QueueTyped' /\ StageTyped'
    BY <2>1, <2>2, ReleaseTypes
  <2>4. assumed' \in BOOLEAN /\ boostPage' \in {"none", "on", "off"} /\ fixture' \in Look
    BY <2>1, KeepRetryableTypes, InFlightFacts DEF WellTyped, ReportsTyped
  <2> QED  BY <1>1, <2>3, <2>4 DEF WellTyped, ReportsTyped, ModalTyped
<1>3. CASE ~(n = 1 /\ stage # "free")
  <2>1. /\ queue' = Without(n) /\ request' = [request EXCEPT ![queue[n]] = Anyone]
        /\ pending' = IF pending = queue[n] THEN 0 ELSE pending
        /\ UNCHANGED <<issued, stage, plan, failed, closing, assumed, boostPage, fixture>>
    BY <1>3 DEF Cancel
  <2>2. CallsTyped' /\ QueueTyped' /\ StageTyped'
    BY <1>1, <1>3, <2>1, RemoveTypes
  <2> QED  BY <1>1, <2>1, <2>2 DEF WellTyped, ReportsTyped, ModalTyped
<1> QED  BY <1>2, <1>3

LEMMA RestartTypes ==
  ASSUME WellTyped, Restart
  PROVE  WellTyped'
<1>1. assumed' = FALSE /\ closing' = FALSE
  BY DEF Restart
<1>2. assumed' \in BOOLEAN /\ closing' \in BOOLEAN
  BY <1>1, Zenon
<1> QED  BY <1>2 DEF Restart, ClearReports, WellTyped, ReportsTyped, ModalTyped, CallsTyped,
                     QueueTyped, StageTyped, calls, lock

LEMMA InitTypes == Init => WellTyped
<1> SUFFICES ASSUME Init PROVE WellTyped
  OBVIOUS
<1>1. fixture \in Look /\ ReportsTyped
  BY DEF Init, Look, Programs, Steady, ReportsTyped
<1>2. ModalTyped
  <2>1. assumed \in BOOLEAN
    BY Zenon DEF Init
  <2> QED  BY <2>1 DEF Init, ModalTyped
<1>3. CallsTyped
  BY DEF Init, CallsTyped, Requests
<1>4. QueueTyped
  BY DEF Init, QueueTyped
<1>5. StageTyped
  <2>1. failed \in BOOLEAN /\ closing \in BOOLEAN
    BY Zenon DEF Init
  <2> QED  BY <2>1 DEF Init, StageTyped, Stages
<1> QED  BY <1>1, <1>2, <1>3, <1>4, <1>5 DEF WellTyped

LEMMA ProgressTypes ==
  ASSUME WellTyped, Progress
  PROVE  WellTyped'
  BY BeginTypes, BeginNothingTypes, EnterBoostTypes, LeaveBoostTypes, SendTypes,
     ConfirmTypes, GiveWayTypes, SendFailsTypes, UnconfirmedTypes DEF Progress

LEMMA StepTypes == WellTyped /\ [Next]_vars => WellTyped'
<1> SUFFICES ASSUME WellTyped, [Next]_vars PROVE WellTyped'
  OBVIOUS
<1>1. CASE UNCHANGED vars
  BY <1>1 DEF vars, WellTyped, ReportsTyped, ModalTyped, CallsTyped, QueueTyped,
              StageTyped, reports, modal, calls, lock
<1> QED  BY <1>1, CallTypes, ProgressTypes, ReportTypes, DisconnectTypes, RestartTypes,
            CancelTypes DEF Next

(* Types: for any programs, levels, kinds and number of calls, what the    *)
(* owner restores is a complete look and the queue holds only calls that   *)
(* were made (device.py:1829-1970, 2198-2249).                             *)
THEOREM TypeCorrect == Spec => []TypeOK
<1>1. WellTyped => TypeOK
  <2> SUFFICES ASSUME WellTyped PROVE TypeOK
    OBVIOUS
  <2>1. \A n \in DOMAIN queue : queue[n] \in 1..issued
    BY DEF WellTyped, QueueTyped, CallsTyped
  <2> QED  BY <2>1 DEF WellTyped, ReportsTyped, ModalTyped, CallsTyped, StageTyped,
                       Requests, TypeOK
<1> QED  BY InitTypes, StepTypes, <1>1, PTL DEF Spec

-------------------------------------------------------------------------------
(* The pending request.                                                    *)

Live(id) == request[id].kind = "slide" /\ ~request[id].superseded
OneLive  == \A id \in 1..MaxRequests : Live(id) <=> id = pending

LEMMA AnyoneDead == Anyone.kind # "slide" /\ ~Anyone.superseded
  BY DEF Anyone

(* A new call is live when it is a slider call; every other one is obsolete.*)
LEMMA SupersedeLive ==
  ASSUME WellTyped, OneLive, NEW r \in Request, Enqueue(Supersede(request), r), ~r.superseded,
         pending' = IF r.kind = "slide" THEN issued' ELSE 0
  PROVE  OneLive'
<1>1. /\ request \in [1..MaxRequests -> Requests] /\ issued \in Nat /\ pending \in 0..issued
      /\ issued' = issued + 1 /\ issued' \in 1..MaxRequests
      /\ request' = [Supersede(request) EXCEPT ![issued'] = r]
  BY DEF WellTyped, CallsTyped, Enqueue
<1>2. Supersede(request) \in [1..MaxRequests -> Requests]
  BY SupersedeFacts
<1>3. request'[issued'] = r
  BY <1>1, <1>2
<1>4. ASSUME NEW id \in 1..MaxRequests, id # issued' PROVE ~Live(id)'
  <2>1. request'[id] = Supersede(request)[id]
    BY <1>1, <1>2, <1>4
  <2>2. CASE pending = 0
    <3>1. request'[id] = request[id]
      BY <2>1, <2>2 DEF Supersede
    <3> QED  BY <1>1, <2>2, <3>1 DEF OneLive, Live
  <2>3. CASE pending # 0 /\ id # pending
    <3>1. request'[id] = request[id]
      BY <1>1, <2>1, <2>3 DEF Supersede
    <3> QED  BY <2>3, <3>1 DEF OneLive, Live
  <2>4. CASE pending # 0 /\ id = pending
    <3>1. request[pending] \in Request
      BY <2>4 DEF WellTyped, CallsTyped
    <3>2. request'[id] = [request[pending] EXCEPT !.superseded = TRUE]
      BY <1>1, <2>1, <2>4 DEF Supersede
    <3>3. request'[id].superseded = TRUE
      BY <3>1, <3>2 DEF Request
    <3> QED  BY <3>3 DEF Live
  <2> QED  BY <2>2, <2>3, <2>4
<1>5. Live(issued)' <=> r.kind = "slide"
  BY <1>3 DEF Live
<1> QED  BY <1>1, <1>4, <1>5 DEF OneLive, Live

(* A call that is over is live no more, and pending no more.               *)
LEMMA OverLive ==
  ASSUME WellTyped, OneLive, NEW h \in 1..MaxRequests,
         request' = [request EXCEPT ![h] = Anyone],
         pending' = IF pending = h THEN 0 ELSE pending
  PROVE  OneLive'
<1> SUFFICES ASSUME NEW id \in 1..MaxRequests PROVE Live(id)' <=> id = pending'
  BY DEF OneLive
<1>1. request \in [1..MaxRequests -> Requests]
  BY DEF WellTyped, CallsTyped
<1>2. CASE id = h
  <2>1. request'[id] = Anyone
    BY <1>1, <1>2
  <2>2. ~Live(id)'
    BY <2>1, AnyoneDead DEF Live
  <2> QED  BY <1>2, <2>2
<1>3. CASE id # h
  <2>1. request'[id] = request[id]
    BY <1>1, <1>3
  <2>2. Live(id)' <=> Live(id)
    BY <2>1 DEF Live
  <2> QED  BY <1>3, <2>2 DEF OneLive
<1> QED  BY <1>2, <1>3

LEMMA ReleaseLive ==
  ASSUME WellTyped, OneLive, queue # <<>>, Release
  PROVE  OneLive'
  BY OwnerFacts, OverLive DEF Release

LEMMA SameLive ==
  ASSUME OneLive, UNCHANGED <<request, pending>>
  PROVE  OneLive'
  BY DEF OneLive, Live

LEMMA CallLive ==
  ASSUME WellTyped, OneLive, Call
  PROVE  OneLive'
<1>1. ASSUME NEW program \in Colors \cup {Keep}, NEW level \in Levels \cup {Keep},
             Slide(program, level)
      PROVE  OneLive'
  <2> DEFINE r == [kind |-> "slide", program |-> Merged("program", program),
                   level |-> Merged("level", level), fallback |-> Visible.level,
                   superseded |-> FALSE]
  <2>1. Merged("program", program) \in Programs \cup {Keep}
        /\ Merged("level", level) \in Levels \cup {Keep}
    BY RequestFacts DEF Merged, WellTyped, CallsTyped, Programs, Steady
  <2>2. "slide" \in Kinds /\ Visible.level \in Levels
    BY <1>1, VisibleFacts DEF Slide, WellTyped
  <2>3. r \in Request
    BY <2>1, <2>2 DEF Request
  <2>4. /\ Enqueue(Supersede(request), r) /\ ~r.superseded
        /\ pending' = IF r.kind = "slide" THEN issued' ELSE 0
    BY <1>1 DEF Slide
  <2> QED  BY <2>3, <2>4, SupersedeLive
<1>2. ASSUME NEW kind, kind # "slide", NEW program \in Programs \cup {Keep},
             NEW level \in Levels \cup {Keep}, NEW on, Discrete(kind, program, level, on)
      PROVE  OneLive'
  <2> DEFINE r == [kind |-> kind, program |-> program, level |-> level,
                   fallback |-> Visible.level, superseded |-> FALSE]
  <2>1. kind \in Kinds /\ Visible.level \in Levels
    BY <1>2, VisibleFacts DEF Discrete, WellTyped
  <2>2. r \in Request
    BY <2>1 DEF Request
  <2>3. /\ Enqueue(Supersede(request), r) /\ ~r.superseded
        /\ pending' = IF r.kind = "slide" THEN issued' ELSE 0
    BY <1>2 DEF Discrete
  <2> QED  BY <2>2, <2>3, SupersedeLive
<1>3. ASSUME NEW kind, kind # "slide", Plain(kind)
      PROVE  OneLive'
  <2>1. /\ request \in [1..MaxRequests -> Requests] /\ issued \in Nat /\ pending \in 0..issued
        /\ issued' = issued + 1 /\ issued' \in 1..MaxRequests /\ pending' = pending
        /\ request' = [request EXCEPT ![issued'] = [Anyone EXCEPT !.kind = kind]]
    BY <1>3 DEF WellTyped, CallsTyped, Plain, Enqueue
  <2> SUFFICES ASSUME NEW id \in 1..MaxRequests PROVE Live(id)' <=> id = pending'
    BY DEF OneLive
  <2>2. CASE id = issued'
    <3>1. request'[id].kind = kind
      BY <2>1, <2>2 DEF Anyone
    <3>2. ~Live(id)'
      BY <1>3, <3>1 DEF Live
    <3> QED  BY <2>1, <2>2, <3>2
  <2>3. CASE id # issued'
    <3>1. request'[id] = request[id]
      BY <2>1, <2>3
    <3>2. Live(id)' <=> Live(id)
      BY <3>1 DEF Live
    <3> QED  BY <2>1, <3>2 DEF OneLive
  <2> QED  BY <2>2, <2>3
<1>4. ASSUME NEW e \in Effects, NEW level \in Levels \cup {Keep}, SelectEffect(e, level)
      PROVE  OneLive'
  <2>1. e \in Programs \cup {Keep}
    BY DEF Programs
  <2> QED  BY <1>2, <1>4, <2>1 DEF SelectEffect
<1>5. ASSUME NEW level \in Levels \cup {Keep}, EffectOff(level)
      PROVE  OneLive'
  BY <1>2, <1>5 DEF EffectOff
<1>6. TurnOn \/ TurnOff => OneLive'
  BY <1>2 DEF TurnOn, TurnOff
<1>7. BoostOn \/ BoostOff \/ Stop => OneLive'
  BY <1>3 DEF BoostOn, BoostOff, Stop
<1> QED  BY <1>1, <1>4, <1>5, <1>6, <1>7 DEF Call

LEMMA BeginLive ==
  ASSUME WellTyped, OneLive, Begin
  PROVE  OneLive'
<1> DEFINE r == [Owner EXCEPT !.fallback = IF Visible # NoLook THEN Visible.level ELSE @]
<1>1. /\ queue # <<>> /\ pending' = pending
      /\ request' = [request EXCEPT ![Head(queue)] = r]
  BY DEF Begin
<1>2. Head(queue) \in 1..MaxRequests /\ Owner \in Request
  BY <1>1, OwnerFacts
<1>3. r.kind = Owner.kind /\ r.superseded = Owner.superseded
  BY <1>2 DEF Request
<1> HIDE DEF r
<1> SUFFICES ASSUME NEW id \in 1..MaxRequests PROVE Live(id)' <=> id = pending'
  BY DEF OneLive
<1>4. request'[id] = IF id = Head(queue) THEN r ELSE request[id]
  BY <1>1, <1>2 DEF WellTyped, CallsTyped
<1>5. Live(id)' <=> Live(id)
  BY <1>3, <1>4 DEF Live, Owner
<1> QED  BY <1>1, <1>5 DEF OneLive

LEMMA StepLive ==
  ASSUME WellTyped, OneLive, [Next]_vars
  PROVE  OneLive'
<1>1. CASE Call
  BY <1>1, CallLive
<1>2. CASE Begin
  BY <1>2, BeginLive
<1>3. ASSUME stage # "free" => queue # <<>>,
             \/ queue # <<>> /\ Release
             \/ stage # "free" /\ Release
             \/ UNCHANGED <<request, pending>>
      PROVE  OneLive'
  BY <1>3, ReleaseLive, SameLive
<1>4. stage # "free" => queue # <<>>
  BY DEF WellTyped, StageTyped
<1>5. CASE BeginNothing
  BY <1>3, <1>4, <1>5 DEF BeginNothing, Raise
<1>6. CASE EnterBoost \/ LeaveBoost \/ Send \/ Confirm \/ GiveWay
  BY <1>3, <1>4, <1>6 DEF EnterBoost, LeaveBoost, Send, Confirm, GiveWay, GoTo, Raise, calls
<1>7. CASE SendFails \/ Unconfirmed
  BY <1>3, <1>4, <1>7 DEF SendFails, Unconfirmed, Fails, GoTo, Raise, calls
<1>8. ASSUME NEW n \in 1..MaxRequests, Cancel(n) PROVE OneLive'
  <2>1. CASE n = 1 /\ stage # "free"
    BY <1>3, <1>4, <1>8, <2>1 DEF Cancel, Raise
  <2>2. CASE ~(n = 1 /\ stage # "free")
    <3>1. queue[n] \in 1..MaxRequests
      BY <1>8 DEF Cancel, WellTyped, QueueTyped, CallsTyped
    <3> QED  BY <1>8, <2>2, <3>1, OverLive DEF Cancel
  <2> QED  BY <2>1, <2>2
<1>9. CASE Report \/ Disconnect \/ Restart \/ UNCHANGED vars
  BY <1>9, SameLive DEF Report, Disconnect, Restart, calls, vars
<1> QED  BY <1>1, <1>2, <1>5, <1>6, <1>7, <1>8, <1>9 DEF Next, Progress

(* Merging: for any number of slider calls, the pending request is the one *)
(* that is still wanted (device.py:609-618, 2239-2249).                    *)
THEOREM PendingIsLive == Spec => []PendingIsTheLiveSlider
<1>1. Init => WellTyped /\ OneLive
  BY InitTypes, AnyoneDead DEF Init, OneLive, Live
<1>2. WellTyped /\ OneLive /\ [Next]_vars => WellTyped' /\ OneLive'
  BY StepTypes, StepLive
<1>3. WellTyped /\ OneLive => PendingIsTheLiveSlider
  <2> SUFFICES ASSUME WellTyped, OneLive PROVE PendingIsTheLiveSlider
    OBVIOUS
  <2>1. pending # 0 => pending \in 1..MaxRequests
    BY DEF WellTyped, CallsTyped
  <2> QED  BY <2>1 DEF OneLive, Live, PendingIsTheLiveSlider
<1> QED  BY <1>1, <1>2, <1>3, PTL DEF Spec

-------------------------------------------------------------------------------
(* The Boost switch.                                                       *)

LEMMA SwitchStep ==
  ASSUME SwitchShowsSession, WellTyped, [Next]_vars
  PROVE  SwitchShowsSession'
<1>1. ASSUME UNCHANGED <<boostPage, assumed>> PROVE SwitchShowsSession'
  BY <1>1 DEF SwitchShowsSession
<1>2. ASSUME NEW look, Receive(look), assumed' = assumed PROVE SwitchShowsSession'
  <2>1. boostPage' = IF boostPage = "none" THEN Page(assumed) ELSE boostPage
    BY <1>2 DEF Receive
  <2>2. CASE boostPage = "none" /\ assumed
    BY <1>2, <2>1, <2>2 DEF Page, SwitchShowsSession
  <2>3. CASE boostPage = "none" /\ ~assumed
    BY <1>2, <2>1, <2>3 DEF Page, SwitchShowsSession
  <2>4. CASE boostPage # "none"
    BY <1>2, <2>1, <2>4 DEF SwitchShowsSession
  <2> QED  BY <2>2, <2>3, <2>4
<1>3. ASSUME NEW page \in {boostPage, "none"}, KeepRetryable(page) PROVE SwitchShowsSession'
  <2>1. \/ assumed' = TRUE /\ boostPage' \in {"on", "none"}
        \/ assumed' = assumed /\ boostPage' \in {boostPage, "none"}
    BY <1>3 DEF KeepRetryable
  <2>2. CASE assumed' = TRUE /\ boostPage' \in {"on", "none"}
    BY <2>2 DEF SwitchShowsSession
  <2>3. CASE assumed' = assumed /\ boostPage' \in {boostPage, "none"}
    BY <2>3 DEF SwitchShowsSession
  <2> QED  BY <2>1, <2>2, <2>3
<1>4. CASE Call
  BY <1>1, <1>4 DEF Call, Slide, TurnOn, TurnOff, SelectEffect, EffectOff, BoostOn, BoostOff,
                    Stop, Discrete, Plain, Enqueue, modal, reports
<1>5. CASE EnterBoost
  BY <1>5 DEF EnterBoost, SwitchShowsSession
<1>6. CASE LeaveBoost
  BY <1>6 DEF LeaveBoost, SwitchShowsSession
<1>7. CASE Begin \/ BeginNothing \/ Send \/ GiveWay
  BY <1>1, <1>7 DEF Begin, BeginNothing, Send, GiveWay, modal, reports
<1>8. CASE Confirm
  BY <1>2, <1>8 DEF Confirm
<1>9. CASE Report
  BY <1>2, <1>9 DEF Report, modal
<1>10. CASE SendFails \/ Unconfirmed
  BY <1>3, <1>10 DEF SendFails, Unconfirmed
<1>11. ASSUME NEW n \in 1..MaxRequests, Cancel(n) PROVE SwitchShowsSession'
  BY <1>1, <1>3, <1>11 DEF Cancel
<1>12. CASE Disconnect \/ Restart
  BY <1>12 DEF Disconnect, Restart, ClearReports, SwitchShowsSession
<1>13. CASE UNCHANGED vars
  BY <1>1, <1>13 DEF vars, modal, reports
<1> QED  BY <1>4, <1>5, <1>6, <1>7, <1>8, <1>9, <1>10, <1>11, <1>12, <1>13
         DEF Next, Progress

(* The switch and the assumed session agree whenever there is a page, for  *)
(* any number of calls, failures and reconnects (device.py:2018-2024,      *)
(* 3205-3215, 3296-3303).                                                  *)
THEOREM SwitchIsTrue == Spec => []SwitchShowsSession
<1>1. Init => SwitchShowsSession
  BY DEF Init, SwitchShowsSession
<1> QED  BY <1>1, InitTypes, StepTypes, SwitchStep, PTL DEF Spec

-------------------------------------------------------------------------------
(* The snapshot.                                                           *)

(* What the owner is confirming: the look its restore was planned from, or *)
(* the program it was called with.                                         *)
PlanKept ==
  /\ stage = "enter" => Owner.kind = "boostOn"
  /\ stage \in {"restoring", "checkingRestore"} =>
       snapshot # NoLook /\ plan.expect.program = {snapshot.program}
  /\ stage \in {"applying", "checking"} /\ Owner.kind = "slide" /\ snapshot # NoLook =>
       plan.expect.program = {Owner.program}

LEMMA SamePlan ==
  ASSUME PlanKept, UNCHANGED <<stage, plan, snapshot>>,
         stage # "free" => Owner'.kind = Owner.kind /\ Owner'.program = Owner.program
  PROVE  PlanKept'
  BY DEF PlanKept

LEMMA ReleasePlan ==
  ASSUME Release
  PROVE  PlanKept'
  BY DEF Release, PlanKept

LEMMA EnqueuePlan ==
  ASSUME WellTyped, PlanKept, NEW requests \in {request, Supersede(request)}, NEW r,
         Enqueue(requests, r)
  PROVE  PlanKept'
<1>1. /\ UNCHANGED <<stage, plan, snapshot>> /\ queue' = Append(queue, issued')
      /\ request' = [requests EXCEPT ![issued'] = r] /\ issued' = issued + 1
  BY DEF Enqueue, modal
<1>2. ASSUME stage # "free" PROVE Owner'.kind = Owner.kind /\ Owner'.program = Owner.program
  <2>1. /\ queue \in Seq(1..issued) /\ queue # <<>> /\ Head(queue) = queue[1]
        /\ Head(queue) \in 1..issued /\ Head(queue) \in 1..MaxRequests /\ issued \in Nat
    BY <1>2, OwnerFacts DEF WellTyped, StageTyped
  <2>2. Head(queue') = Head(queue)
    BY <1>1, <2>1
  <2>3. request \in [1..MaxRequests -> Requests]
        /\ Supersede(request) \in [1..MaxRequests -> Requests]
    BY SupersedeFacts DEF WellTyped, CallsTyped
  <2>4. request'[Head(queue)] = requests[Head(queue)]
    BY <1>1, <2>1, <2>3
  <2>5. /\ Supersede(request)[Head(queue)].kind = Owner.kind
        /\ Supersede(request)[Head(queue)].program = Owner.program
    <3>1. CASE pending = Head(queue)
      <4>1. Owner \in Request /\ pending # 0
        BY <2>1, <3>1, OwnerFacts
      <4>2. Supersede(request)[Head(queue)] = [Owner EXCEPT !.superseded = TRUE]
        BY <2>1, <2>3, <3>1, <4>1 DEF Supersede, Owner
      <4> QED  BY <4>1, <4>2 DEF Request
    <3>2. CASE pending # Head(queue)
      BY <2>1, <2>3, <3>2 DEF Supersede, Owner
    <3> QED  BY <3>1, <3>2
  <2>6. Owner' = requests[Head(queue)]
    BY <2>2, <2>4 DEF Owner
  <2> QED  BY <2>5, <2>6 DEF Owner
<1> QED  BY <1>1, <1>2, SamePlan

LEMMA SlideShows ==
  ASSUME NEW r \in Request, r.kind = "slide", r.program # Keep
  PROVE  ApplyPlan(r).expect.program = {r.program}
<1>1. ApplyPlan(r) = SlidePlan(r)
  BY DEF ApplyPlan
<1> QED  BY <1>1 DEF SlidePlan

LEMMA BeginPlan ==
  ASSUME WellTyped, Begin
  PROVE  PlanKept'
<1> DEFINE r == [Owner EXCEPT !.fallback = IF Visible # NoLook THEN Visible.level ELSE @]
<1>1. /\ queue # <<>> /\ queue' = queue /\ snapshot' = snapshot
      /\ request' = [request EXCEPT ![Head(queue)] = r]
      /\ \/ r.kind = "boostOn" /\ stage' = "enter"
         \/ stage' = "exit"
         \/ HasApply(r) /\ ~NeedsExit(r) /\ stage' = "applying"
  BY DEF Begin, modal
<1>2. Head(queue) \in 1..MaxRequests
  BY <1>1, OwnerFacts
<1> HIDE DEF r
<1>3. Owner' = r
  BY <1>1, <1>2 DEF Owner, WellTyped, CallsTyped
<1>4. ~NeedsExit(r) /\ r.kind = "slide" => snapshot = NoLook
  BY DEF NeedsExit, BoostSession
<1> QED  BY <1>1, <1>3, <1>4 DEF PlanKept

LEMMA LeaveBoostPlan ==
  ASSUME WellTyped, LeaveBoost
  PROVE  PlanKept'
<1>1. queue # <<>>
  BY DEF LeaveBoost, WellTyped, StageTyped
<1>2. Owner \in Request
  BY <1>1, OwnerFacts
<1>3. CASE Release
  BY <1>3, ReleasePlan
<1>4. CASE Restores(Owner) /\ GoTo("restoring", RestorePlan(Owner))
  <2>1. snapshot # NoLook /\ snapshot' = snapshot
    BY <1>4 DEF LeaveBoost, Restores
  <2>2. plan' = RestorePlan(Owner) /\ stage' = "restoring"
    BY <1>4 DEF GoTo
  <2>3. RestorePlan(Owner).expect.program = {snapshot.program}
    BY DEF RestorePlan, RestoreLook, Exactly
  <2> QED  BY <2>1, <2>2, <2>3 DEF PlanKept
<1>5. CASE ~Restores(Owner) /\ GoTo("applying", ApplyPlan(Owner))
  <2>1. plan' = ApplyPlan(Owner) /\ stage' = "applying" /\ Owner' = Owner
    BY <1>5 DEF GoTo, Owner, calls
  <2>2. ASSUME Owner.kind = "slide", snapshot' # NoLook
        PROVE  Owner.program # Keep
    <3>1. snapshot # NoLook
      BY <2>2 DEF LeaveBoost
    <3> QED  BY <1>5, <2>2, <3>1 DEF Restores
  <2> QED  BY <1>2, <2>1, <2>2, SlideShows DEF PlanKept
<1> QED  BY <1>3, <1>4, <1>5 DEF LeaveBoost

LEMMA OffPlanKept ==
  ASSUME Owner.kind = "off", GoTo("applying", OffPlan)
  PROVE  PlanKept'
<1>1. stage' = "applying" /\ Owner' = Owner
  BY DEF GoTo, Owner, calls
<1> QED  BY <1>1 DEF PlanKept

LEMMA FailsPlan ==
  ASSUME Fails
  PROVE  PlanKept'
  BY OffPlanKept, ReleasePlan DEF Fails, Raise

LEMMA WithoutHead ==
  ASSUME WellTyped, NEW n \in DOMAIN queue, n # 1, queue' = Without(n),
         request' = [request EXCEPT ![queue[n]] = Anyone]
  PROVE  Owner' = Owner
<1>1. queue \in Seq(1..issued) /\ n \in 2..Len(queue) /\ Len(queue) \in Nat
  BY DEF WellTyped, QueueTyped, CallsTyped
<1>2. /\ queue' \in Seq(1..issued)
      /\ DOMAIN queue' = 1..Len(queue) - 1
      /\ \A m \in DOMAIN queue' : m < n => queue'[m] = queue[m]
  BY <1>1, WithoutFacts
<1>3. 1 \in DOMAIN queue' /\ 1 < n /\ 1 \in DOMAIN queue
  BY <1>1, <1>2
<1>4. Head(queue') = queue'[1] /\ Head(queue) = queue[1] /\ queue'[1] = queue[1]
  BY <1>1, <1>2, <1>3
<1>5. queue[n] # queue[1]
  BY <1>3 DEF WellTyped, QueueTyped
<1>6. queue[1] \in 1..MaxRequests /\ queue[n] \in 1..MaxRequests
  BY <1>1, <1>3 DEF WellTyped, CallsTyped
<1> QED  BY <1>4, <1>5, <1>6 DEF Owner, WellTyped, CallsTyped

LEMMA StepPlan ==
  ASSUME WellTyped, PlanKept, [Next]_vars
  PROVE  PlanKept'
<1>1. CASE Call
  BY <1>1, EnqueuePlan DEF Call, Slide, TurnOn, TurnOff, SelectEffect, EffectOff, BoostOn,
                           BoostOff, Stop, Discrete, Plain
<1>2. CASE Begin \/ LeaveBoost
  BY <1>2, BeginPlan, LeaveBoostPlan
<1>3. CASE BeginNothing \/ EnterBoost \/ GiveWay
  BY <1>3, ReleasePlan DEF BeginNothing, EnterBoost, GiveWay, Raise
<1>4. CASE Send
  <2>1. CASE Release
    BY <2>1, ReleasePlan
  <2>2. CASE /\ GoTo(IF stage = "restoring" THEN "checkingRestore" ELSE "checking", plan)
             /\ stage \in {"restoring", "applying"}
    <3>1. Owner' = Owner /\ plan' = plan /\ snapshot' = snapshot
      BY <1>4, <2>2 DEF GoTo, Owner, calls, Send, modal
    <3>2. \/ stage = "restoring" /\ stage' = "checkingRestore"
          \/ stage = "applying" /\ stage' = "checking"
      BY <2>2 DEF GoTo
    <3> QED  BY <3>1, <3>2 DEF PlanKept
  <2> QED  BY <1>4, <2>1, <2>2 DEF Send
<1>5. CASE Confirm
  BY <1>5, ReleasePlan, OffPlanKept DEF Confirm, Raise
<1>6. CASE SendFails \/ Unconfirmed
  BY <1>6, FailsPlan DEF SendFails, Unconfirmed
<1>7. ASSUME NEW n \in 1..MaxRequests, Cancel(n) PROVE PlanKept'
  <2>1. CASE n = 1 /\ stage # "free"
    BY <1>7, <2>1, ReleasePlan DEF Cancel, Raise
  <2>2. CASE n = 1 /\ stage = "free"
    BY <1>7, <2>2 DEF Cancel, PlanKept
  <2>3. CASE n # 1
    <3>1. /\ n \in DOMAIN queue /\ queue' = Without(n)
          /\ request' = [request EXCEPT ![queue[n]] = Anyone]
          /\ UNCHANGED <<stage, plan, snapshot>>
      BY <1>7, <2>3 DEF Cancel
    <3> QED  BY <2>3, <3>1, WithoutHead, SamePlan
  <2> QED  BY <2>1, <2>2, <2>3
<1>8. CASE Report \/ Disconnect \/ UNCHANGED vars
  BY <1>8, SamePlan DEF Report, Disconnect, Owner, vars, modal, calls, lock
<1>9. CASE Restart
  <2>1. stage = "free" /\ stage' = "free"
    BY <1>9 DEF Restart, lock, WellTyped, StageTyped
  <2> QED  BY <2>1 DEF PlanKept
<1> QED  BY <1>1, <1>2, <1>3, <1>4, <1>5, <1>6, <1>7, <1>8, <1>9 DEF Next, Progress

LEMMA StepDischarges ==
  ASSUME WellTyped, PlanKept, [Next]_vars, snapshot # NoLook, snapshot' = NoLook
  PROVE  \/ queue # <<>> /\ fixture'.program \in {snapshot.program, Owner.program}
         \/ queue # <<>> /\ Owner.kind \in {"stop", "boostOn", "effect"}
         \/ closing
<1>1. stage # "free" => queue # <<>>
  BY DEF WellTyped, StageTyped
<1>2. CASE EnterBoost
  BY <1>1, <1>2 DEF EnterBoost, PlanKept
<1>3. CASE LeaveBoost
  BY <1>1, <1>3 DEF LeaveBoost
<1>4. CASE Confirm
  <2>1. queue # <<>> /\ fixture'.program \in plan.expect.program
    BY <1>1, <1>4 DEF Confirm, Fits
  <2>2. CASE stage = "checkingRestore"
    BY <2>1, <2>2 DEF PlanKept
  <2>3. CASE stage = "checking" /\ Owner.kind = "slide"
    BY <2>1, <2>3 DEF PlanKept
  <2> QED  BY <1>4, <2>2, <2>3 DEF Confirm
<1>5. CASE SendFails \/ Unconfirmed
  BY <1>1, <1>5 DEF SendFails, Unconfirmed, Fails
<1>6. CASE Restart
  BY <1>6 DEF Restart
<1>7. CASE \/ Begin \/ BeginNothing \/ Send \/ GiveWay \/ Report \/ Disconnect
           \/ UNCHANGED vars \/ \E n \in 1..MaxRequests : Cancel(n)
  BY <1>7 DEF Begin, BeginNothing, Send, GiveWay, Report, Disconnect, Cancel, vars, modal
<1>8. CASE Call
  BY <1>8 DEF Call, Slide, TurnOn, TurnOff, SelectEffect, EffectOff, BoostOn, BoostOff, Stop,
              Discrete, Plain, Enqueue, modal
<1> QED  BY <1>2, <1>3, <1>4, <1>5, <1>6, <1>7, <1>8 DEF Next, Progress

(* The output Boost hides is given up only when it, or a newly requested   *)
(* look, is confirmed, by the calls that abandon it, or at the end of the  *)
(* runtime, whatever fails in between (device.py:1966-2026, 2287-2294).    *)
THEOREM SnapshotKept == Spec => SnapshotDischarged
<1>1. Init => WellTyped /\ PlanKept
  BY InitTypes DEF Init, PlanKept
<1>2. WellTyped /\ PlanKept /\ [Next]_vars => WellTyped' /\ PlanKept'
  BY StepTypes, StepPlan
<1>3. WellTyped /\ PlanKept /\ [Next]_vars =>
        [snapshot # NoLook /\ snapshot' = NoLook =>
           \/ queue # <<>> /\ fixture'.program \in {snapshot.program, Owner.program}
           \/ queue # <<>> /\ Owner.kind \in {"stop", "boostOn", "effect"}
           \/ closing]_vars
  BY StepDischarges
<1> QED  BY <1>1, <1>2, <1>3, PTL DEF Spec, SnapshotDischarged

-------------------------------------------------------------------------------
(* What the calls add up to.                                               *)

Fields == {"program", "level", "on"}

(* The calls still in the queue that decide field f, and what they make it.*)
Sets(r, f) ==
  \/ r.kind \in {"effect", "effectOff"}
  \/ r.kind \in {"on", "off"} /\ f = "on"
  \/ r.kind = "slide" /\ ~r.superseded /\ (f = "on" \/ r[f] # Keep)
ValueOf(r, f) ==
  IF f = "on" THEN IF r.kind = "off" THEN {FALSE} ELSE {TRUE}
  ELSE IF f = "program" THEN IF r.kind = "effectOff" THEN Steady ELSE {r.program}
  ELSE IF r.level = Keep THEN Levels ELSE {r.level}
Setters(f) == {id \in 1..MaxRequests : Sets(request[id], f)}

Desires == [program : SUBSET Programs, level : SUBSET Levels, on : SUBSET BOOLEAN]

(* The queue is in the order of the calls and holds every one that decides *)
(* a field; the last of them is what is desired of it.  A superseded       *)
(* slider call is followed by the call that took over, unless that one     *)
(* failed and left everything open.                                        *)
InOrder == \A m, n \in DOMAIN queue : m < n => queue[m] < queue[n]
Queued  == \A f \in Fields : \A id \in Setters(f) : \E n \in DOMAIN queue : queue[n] = id
Wishes  ==
  \A f \in Fields : \A id \in Setters(f) :
    (\A other \in Setters(f) : other <= id) => ValueOf(request[id], f) \subseteq desired[f]
PendingWish ==
  pending # 0 => \A f \in {"program", "level"} :
    request[pending][f] # Keep => request[pending][f] \in desired[f]
Overtaken ==
  \A n \in DOMAIN queue :
    request[queue[n]].kind = "slide" /\ request[queue[n]].superseded =>
      desired = Anything \/ \E id \in Setters("on") : queue[n] < id
Complete(r) == /\ r.kind = "effect" => r.program \in Programs
               /\ r.kind = "slide" => /\ r.fallback \in Levels
                                      /\ r.program # Keep \/ r.level # Keep
Chosen == \A id \in 1..MaxRequests : Complete(request[id])
Book == desired \in Desires /\ InOrder /\ Queued /\ Wishes /\ PendingWish /\ Overtaken /\ Chosen

LEMMA LookFields ==
  ASSUME NEW look \in Look, NEW f \in Fields
  PROVE  look[f] \in Anything[f]
  BY DEF Look, Anything, Fields

LEMMA PutFields ==
  ASSUME NEW look \in Look, NEW w \in Writes, NEW f \in Fields
  PROVE  Put(look, w)[f] = IF w[f] = Keep THEN look[f] ELSE w[f]
  BY DEF Look, Writes, Put, Fields

LEMMA FitsFields ==
  ASSUME NEW look, NEW d, Fits(look, d), NEW f \in Fields
  PROVE  look[f] \in d[f]
  BY DEF Fits, Fields

LEMMA AnythingFacts ==
  /\ Anything \in Desires
  /\ \A d \in Desires, f \in Fields : d[f] \subseteq Anything[f]
  BY DEF Anything, Desires, Fields

LEMMA ValueTypes ==
  ASSUME NEW r \in Request, NEW f \in Fields, Sets(r, f),
         r.kind = "effect" => r.program \in Programs
  PROVE  ValueOf(r, f) \subseteq Anything[f]
<1>1. CASE f = "on"
  BY <1>1 DEF ValueOf, Anything
<1>2. CASE f = "program"
  BY <1>2 DEF Request, Sets, ValueOf, Anything, Programs
<1>3. CASE f = "level"
  BY <1>3 DEF Request, ValueOf, Anything
<1> QED  BY <1>1, <1>2, <1>3 DEF Fields

LEMMA AnyoneSets == \A f \in Fields : ~Sets(Anyone, f)
  BY DEF Anyone, Sets

LEMMA OwnerSets ==
  ASSUME WellTyped, queue # <<>>, NEW f \in Fields
  PROVE  Sets(Owner, f) <=> Head(queue) \in Setters(f)
  BY OwnerFacts DEF Owner, Setters

-------------------------------------------------------------------------------
(* A call leaves the queue.                                                *)

Over(k) ==
  /\ k \in DOMAIN queue
  /\ queue' = Without(k)
  /\ request' = [request EXCEPT ![queue[k]] = Anyone]
  /\ pending' = IF pending = queue[k] THEN 0 ELSE pending

LEMMA ReleaseOver ==
  ASSUME WellTyped, queue # <<>>, Release
  PROVE  Over(1)
<1>1. queue \in Seq(1..issued) /\ Head(queue) = queue[1] /\ 1 \in DOMAIN queue
  BY OwnerFacts
<1>2. Tail(queue) = Without(1)
  <2>1. /\ Tail(queue) \in Seq(1..issued) /\ Len(Tail(queue)) = Len(queue) - 1
        /\ \A i \in 1..Len(Tail(queue)) : Tail(queue)[i] = queue[i + 1]
    BY <1>1, HeadTailProperties
  <2>2. Without(1) \in Seq(1..issued) /\ DOMAIN Without(1) = 1..Len(queue) - 1
    BY <1>1, WithoutFacts
  <2>3. Len(Without(1)) = Len(queue) - 1
    BY <1>1, <2>2
  <2>4. \A i \in 1..Len(queue) - 1 : Without(1)[i] = queue[i + 1]
    BY <1>1 DEF Without
  <2> QED  BY <2>1, <2>2, <2>3, <2>4, SeqEqual
<1> QED  BY <1>1, <1>2 DEF Release, Over

LEMMA OverFacts ==
  ASSUME WellTyped, NEW k, Over(k)
  PROVE  /\ k \in DOMAIN queue /\ queue[k] \in 1..MaxRequests /\ queue[k] \in 1..issued
         /\ \A id \in 1..MaxRequests :
              request'[id] = IF id = queue[k] THEN Anyone ELSE request[id]
         /\ \A f \in Fields : Setters(f)' = Setters(f) \ {queue[k]}
         /\ \A n \in DOMAIN queue' : \E m \in DOMAIN queue :
              m # k /\ (m = n \/ m = n + 1) /\ (m = n <=> n < k) /\ queue'[n] = queue[m]
         /\ \A m \in DOMAIN queue : m # k => \E n \in DOMAIN queue' : queue'[n] = queue[m]
<1>1. /\ queue \in Seq(1..issued) /\ issued \in 0..MaxRequests /\ k \in DOMAIN queue
      /\ request \in [1..MaxRequests -> Requests] /\ Len(queue) \in Nat
  BY DEF WellTyped, QueueTyped, CallsTyped, Over
<1>2. queue[k] \in 1..MaxRequests /\ queue[k] \in 1..issued /\ k \in 1..Len(queue)
  BY <1>1
<1>3. \A id \in 1..MaxRequests : request'[id] = IF id = queue[k] THEN Anyone ELSE request[id]
  BY <1>1, <1>2 DEF Over
<1>4. \A f \in Fields : Setters(f)' = Setters(f) \ {queue[k]}
  BY <1>2, <1>3, AnyoneSets DEF Setters
<1>5. /\ DOMAIN queue' = 1..Len(queue) - 1
      /\ \A n \in DOMAIN queue' :
           /\ n < k => n \in DOMAIN queue /\ queue'[n] = queue[n]
           /\ ~(n < k) => n + 1 \in DOMAIN queue /\ n + 1 # k /\ queue'[n] = queue[n + 1]
  BY <1>1, WithoutFacts DEF Over
<1>6. \A n \in DOMAIN queue' : \E m \in DOMAIN queue :
        m # k /\ (m = n \/ m = n + 1) /\ (m = n <=> n < k) /\ queue'[n] = queue[m]
  <2> SUFFICES ASSUME NEW n \in DOMAIN queue'
               PROVE  \E m \in DOMAIN queue : m # k /\ (m = n \/ m = n + 1)
                                              /\ (m = n <=> n < k) /\ queue'[n] = queue[m]
    OBVIOUS
  <2>1. n \in Int /\ k \in Int
    BY <1>2, <1>5
  <2>2. CASE n < k
    BY <1>5, <2>1, <2>2
  <2>3. CASE ~(n < k)
    BY <1>5, <2>1, <2>3
  <2> QED  BY <2>2, <2>3
<1>7. \A m \in DOMAIN queue : m # k => \E n \in DOMAIN queue' : queue'[n] = queue[m]
  <2> SUFFICES ASSUME NEW m \in DOMAIN queue, m # k
               PROVE  \E n \in DOMAIN queue' : queue'[n] = queue[m]
    OBVIOUS
  <2>1. m \in 1..Len(queue)
    BY <1>1
  <2>2. CASE m < k
    <3>1. m \in DOMAIN queue'
      BY <1>1, <1>2, <1>5, <2>1, <2>2
    <3> QED  BY <1>5, <2>2, <3>1
  <2>3. CASE ~(m < k)
    <3>1. m - 1 \in DOMAIN queue' /\ ~(m - 1 < k) /\ (m - 1) + 1 = m
      BY <1>1, <1>2, <1>5, <2>1, <2>3
    <3> QED  BY <1>5, <3>1
  <2> QED  BY <2>2, <2>3
<1> QED  BY <1>1, <1>2, <1>3, <1>4, <1>6, <1>7

LEMMA SetterFacts ==
  ASSUME WellTyped, Book, NEW f \in Fields, NEW id \in Setters(f)
  PROVE  /\ id \in 1..MaxRequests /\ Sets(request[id], f) /\ request[id] \in Request
         /\ ValueOf(request[id], f) \subseteq Anything[f]
<1>1. id \in 1..MaxRequests /\ Sets(request[id], f)
  BY DEF Setters
<1>2. request[id] \in Requests /\ request[id] # Anyone
  BY <1>1, AnyoneSets DEF WellTyped, CallsTyped
<1>3. request[id] \in Request
  BY <1>2 DEF Requests
<1> QED  BY <1>1, <1>3, ValueTypes DEF Book, Chosen, Complete

LEMMA OverBook ==
  ASSUME WellTyped, Book, NEW k, Over(k),
         \/ desired' = Anything
         \/ desired' = desired /\ (k = 1 \/ \A f \in Fields : queue[k] \notin Setters(f))
  PROVE  Book'
<1>1. /\ k \in DOMAIN queue /\ queue[k] \in 1..MaxRequests
      /\ \A id \in 1..MaxRequests :
           request'[id] = IF id = queue[k] THEN Anyone ELSE request[id]
      /\ \A f \in Fields : Setters(f)' = Setters(f) \ {queue[k]}
      /\ \A n \in DOMAIN queue' : \E m \in DOMAIN queue :
           m # k /\ (m = n \/ m = n + 1) /\ (m = n <=> n < k) /\ queue'[n] = queue[m]
      /\ \A m \in DOMAIN queue : m # k => \E n \in DOMAIN queue' : queue'[n] = queue[m]
  BY OverFacts
<1>2. queue \in Seq(1..issued) /\ issued \in 0..MaxRequests /\ DOMAIN queue \subseteq Nat \ {0}
  BY DEF WellTyped, QueueTyped, CallsTyped
<1>3. desired' \in Desires
  BY AnythingFacts DEF Book
<1>4. InOrder'
  <2> SUFFICES ASSUME NEW m \in DOMAIN queue', NEW n \in DOMAIN queue', m < n
               PROVE  queue'[m] < queue'[n]
    BY DEF InOrder
  <2>1. PICK a \in DOMAIN queue : (a = m \/ a = m + 1) /\ (a = m <=> m < k) /\ queue'[m] = queue[a]
    BY <1>1
  <2>2. PICK b \in DOMAIN queue : (b = n \/ b = n + 1) /\ (b = n <=> n < k) /\ queue'[n] = queue[b]
    BY <1>1
  <2>3. DOMAIN queue' \subseteq Nat \ {0}
    BY <1>2, WithoutFacts, <1>1 DEF Over
  <2>4. m \in Int /\ n \in Int /\ k \in Int
    BY <1>1, <1>2, <2>3
  <2>5. a < b
    BY <2>1, <2>2, <2>4
  <2> QED  BY <2>1, <2>2, <2>5 DEF Book, InOrder
<1>5. Queued'
  <2> SUFFICES ASSUME NEW f \in Fields, NEW id \in Setters(f)'
               PROVE  \E n \in DOMAIN queue' : queue'[n] = id
    BY DEF Queued
  <2>1. id \in Setters(f) /\ id # queue[k]
    BY <1>1
  <2>2. PICK m \in DOMAIN queue : queue[m] = id
    BY <2>1 DEF Book, Queued
  <2> QED  BY <1>1, <2>1, <2>2
<1>6. Chosen'
  BY <1>1 DEF Book, Chosen, Complete, Anyone
<1>7. \A f \in Fields : \A id \in Setters(f)' :
        id \in Setters(f) /\ id # queue[k] /\ request'[id] = request[id]
  <2>1. \A f \in Fields : \A id \in Setters(f)' : id \in Setters(f) /\ id # queue[k]
    BY <1>1
  <2>2. \A f \in Fields : \A id \in Setters(f) : id \in 1..MaxRequests
    BY DEF Setters
  <2> QED  BY <1>1, <2>1, <2>2
<1>8. Wishes'
  <2> SUFFICES ASSUME NEW f \in Fields, NEW id \in Setters(f)',
                      \A other \in Setters(f)' : other <= id
               PROVE  ValueOf(request'[id], f) \subseteq desired'[f]
    BY DEF Wishes
  <2>1. CASE desired' = Anything
    BY <1>7, <2>1, SetterFacts
  <2>2. CASE desired' = desired /\ (k = 1 \/ queue[k] \notin Setters(f))
    <3>1. \A other \in Setters(f) : other <= id
      <4> SUFFICES ASSUME NEW other \in Setters(f), other = queue[k], k = 1 PROVE other <= id
        BY <1>1, <2>2
      <4>1. PICK m \in DOMAIN queue : queue[m] = id
        BY <1>7 DEF Book, Queued
      <4>2. 1 < m
        BY <1>2, <1>7, <4>1
      <4>3. queue[1] < queue[m] /\ queue[1] \in 1..issued /\ queue[m] \in 1..issued
        BY <1>1, <1>2, <4>2 DEF Book, InOrder
      <4> QED  BY <1>2, <4>1, <4>3
    <3> QED  BY <1>7, <2>2, <3>1 DEF Book, Wishes
  <2> QED  BY <2>1, <2>2
<1>9. PendingWish'
  <2> SUFFICES ASSUME pending' # 0, NEW f \in {"program", "level"}, request'[pending'][f] # Keep
               PROVE  request'[pending'][f] \in desired'[f]
    BY DEF PendingWish
  <2>1. pending' = pending /\ pending # 0 /\ pending # queue[k]
    BY DEF Over
  <2>2. pending \in 1..MaxRequests /\ request[pending] \in Request
    BY <1>2, <2>1 DEF WellTyped, CallsTyped
  <2>3. request'[pending] = request[pending]
    BY <1>1, <2>1, <2>2
  <2>4. request[pending][f] \in desired[f] /\ f \in Fields
    BY <2>1, <2>3 DEF Book, PendingWish, Fields
  <2> QED  BY <2>1, <2>3, <2>4, AnythingFacts DEF Book
<1>10. Overtaken'
  <2> SUFFICES ASSUME NEW n \in DOMAIN queue', request'[queue'[n]].kind = "slide",
                      request'[queue'[n]].superseded, desired' # Anything
               PROVE  \E id \in Setters("on")' : queue'[n] < id
    BY DEF Overtaken
  <2>1. PICK m \in DOMAIN queue : m # k /\ queue'[n] = queue[m]
    BY <1>1
  <2>2. queue[m] \in 1..MaxRequests /\ queue[m] # queue[k]
    BY <1>1, <1>2, <2>1 DEF WellTyped, QueueTyped
  <2>3. request'[queue'[n]] = request[queue[m]]
    BY <1>1, <2>1, <2>2
  <2>4. PICK id \in Setters("on") : queue[m] < id
    BY <2>1, <2>3 DEF Book, Overtaken
  <2>5. id # queue[k]
    <3> SUFFICES ASSUME id = queue[k], k = 1 PROVE FALSE
      BY <2>4 DEF Fields
    <3>1. 1 < m
      BY <1>2, <2>1
    <3>2. queue[1] < queue[m] /\ queue[1] \in Int /\ queue[m] \in Int
      BY <1>1, <1>2, <2>1, <3>1 DEF Book, InOrder
    <3> QED  BY <2>4, <3>2
  <2> QED  BY <1>1, <2>1, <2>4, <2>5 DEF Fields
<1> QED  BY <1>3, <1>4, <1>5, <1>6, <1>8, <1>9, <1>10 DEF Book

LEMMA SameBook ==
  ASSUME Book, UNCHANGED <<request, queue, pending, desired>>
  PROVE  Book' /\ \A f \in Fields : Setters(f)' = Setters(f)
<1>1. \A f : Setters(f)' = Setters(f)
  BY DEF Setters
<1> QED  BY <1>1 DEF Book, InOrder, Queued, Wishes, PendingWish, Overtaken, Chosen

-------------------------------------------------------------------------------
(* A call takes the lock.                                                  *)

LEMMA BeginBook ==
  ASSUME WellTyped, Book, Begin
  PROVE  /\ Book' /\ \A f \in Fields : Setters(f)' = Setters(f) /\ desired[f] \subseteq desired'[f]
         /\ \A f \in Fields : /\ Sets(Owner, f)' <=> Sets(Owner, f)
                              /\ ValueOf(Owner, f)' = ValueOf(Owner, f)
<1> DEFINE r == [Owner EXCEPT !.fallback = IF Visible # NoLook THEN Visible.level ELSE @]
<1>1. /\ queue # <<>> /\ queue' = queue /\ pending' = pending
      /\ request' = [request EXCEPT ![Head(queue)] = r]
      /\ desired' = [desired EXCEPT !.level = Levels] \/ desired' = desired
  BY DEF Begin
<1>2. Head(queue) \in 1..MaxRequests /\ Owner \in Request
  BY <1>1, OwnerFacts
<1>3. /\ r.kind = Owner.kind /\ r.superseded = Owner.superseded /\ r.program = Owner.program
      /\ r.level = Owner.level
  BY <1>2 DEF Request
<1> HIDE DEF r
<1>4. \A id \in 1..MaxRequests :
        /\ request'[id].kind = request[id].kind /\ request'[id].program = request[id].program
        /\ request'[id].superseded = request[id].superseded
        /\ request'[id].level = request[id].level
  <2> SUFFICES ASSUME NEW id \in 1..MaxRequests
               PROVE  /\ request'[id].kind = request[id].kind
                      /\ request'[id].program = request[id].program
                      /\ request'[id].superseded = request[id].superseded
                      /\ request'[id].level = request[id].level
    OBVIOUS
  <2>1. request'[id] = IF id = Head(queue) THEN r ELSE request[id]
    BY <1>1, <1>2 DEF WellTyped, CallsTyped
  <2> QED  BY <1>3, <2>1 DEF Owner
<1>5. \A id \in 1..MaxRequests, f \in Fields :
        /\ Sets(request'[id], f) <=> Sets(request[id], f)
        /\ ValueOf(request'[id], f) = ValueOf(request[id], f)
  BY <1>4 DEF Sets, ValueOf, Fields
<1>6. \A f \in Fields : Setters(f)' = Setters(f)
  BY <1>5 DEF Setters
<1>7. desired' \in Desires /\ \A f \in Fields : desired[f] \subseteq desired'[f]
  BY <1>1 DEF Book, Desires, Fields
<1>8. desired = Anything => desired' = Anything
  BY <1>1 DEF Anything
<1>9. \A f \in Fields : /\ Sets(Owner, f)' <=> Sets(Owner, f)
                        /\ ValueOf(Owner, f)' = ValueOf(Owner, f)
  BY <1>1, <1>2, <1>5 DEF Owner
<1>10. \A n \in DOMAIN queue : queue[n] \in 1..MaxRequests
  BY DEF WellTyped, QueueTyped, CallsTyped
<1>11. InOrder' /\ Queued'
  BY <1>1, <1>6 DEF Book, InOrder, Queued
<1>12. Wishes'
  <2> SUFFICES ASSUME NEW f \in Fields, NEW id \in Setters(f)',
                      \A other \in Setters(f)' : other <= id
               PROVE  ValueOf(request'[id], f) \subseteq desired'[f]
    BY DEF Wishes
  <2>1. id \in Setters(f) /\ id \in 1..MaxRequests
    BY <1>6 DEF Setters
  <2>2. ValueOf(request[id], f) \subseteq desired[f]
    BY <1>6, <2>1 DEF Book, Wishes
  <2> QED  BY <1>5, <1>7, <2>1, <2>2
<1>13. PendingWish'
  <2> SUFFICES ASSUME pending # 0, NEW f \in {"program", "level"}, request'[pending][f] # Keep
               PROVE  request'[pending][f] \in desired'[f]
    BY <1>1 DEF PendingWish
  <2>1. pending \in 1..MaxRequests
    BY DEF WellTyped, CallsTyped
  <2>2. request'[pending][f] = request[pending][f]
    BY <1>4, <2>1
  <2> QED  BY <1>7, <2>2 DEF Book, PendingWish, Fields
<1>14. Overtaken'
  BY <1>1, <1>4, <1>6, <1>8, <1>10 DEF Book, Overtaken, Fields
<1>15. Chosen'
  <2> SUFFICES ASSUME NEW id \in 1..MaxRequests PROVE Complete(request'[id])
    BY DEF Chosen
  <2>1. Complete(request[id])
    BY DEF Book, Chosen
  <2>2. id # Head(queue) => request'[id] = request[id]
    BY <1>1, <1>2 DEF WellTyped, CallsTyped
  <2>3. Owner.kind = "slide" => r.fallback \in Levels
    <3>1. Visible # NoLook => Visible.level \in Levels
      BY VisibleFacts DEF WellTyped
    <3>2. Complete(Owner)
      BY <1>2 DEF Book, Chosen, Owner
    <3>3. r.fallback = IF Visible # NoLook THEN Visible.level ELSE Owner.fallback
      BY <1>2 DEF r, Request
    <3> QED  BY <3>1, <3>2, <3>3 DEF Complete
  <2>4. request'[Head(queue)] = r
    BY <1>1, <1>2 DEF WellTyped, CallsTyped
  <2>5. CASE id = Head(queue)
    BY <1>3, <2>1, <2>3, <2>4, <2>5 DEF Complete, Owner
  <2> QED  BY <2>1, <2>2, <2>5
<1> QED  BY <1>6, <1>7, <1>9, <1>11, <1>12, <1>13, <1>14, <1>15 DEF Book

-------------------------------------------------------------------------------
(* A call joins the queue.                                                 *)

LEMMA EnqueueFacts ==
  ASSUME WellTyped, OneLive, Book, NEW requests, NEW r \in Request, Enqueue(requests, r),
         \/ requests = request
         \/ requests = Supersede(request)
  PROVE  /\ issued' = issued + 1 /\ issued' \in 1..MaxRequests /\ request'[issued'] = r
         /\ Len(queue) \in Nat /\ DOMAIN queue = 1..Len(queue)
         /\ DOMAIN queue' = 1..Len(queue) + 1 /\ queue'[Len(queue) + 1] = issued'
         /\ \A n \in DOMAIN queue : queue'[n] = queue[n] /\ queue[n] \in 1..issued
         /\ \A id \in 1..MaxRequests : id # issued' =>
              /\ request'[id].kind = request[id].kind /\ request'[id].level = request[id].level
              /\ request'[id].program = request[id].program
              /\ request'[id].fallback = request[id].fallback
              /\ IF requests = request \/ id # pending
                 THEN request'[id].superseded = request[id].superseded
                 ELSE request[id].kind = "slide" /\ request'[id].superseded
         /\ queue # <<>> => Head(queue') = Head(queue) /\ Head(queue) # issued'
<1>1. /\ issued' = issued + 1 /\ issued' \in 1..MaxRequests /\ issued \in Nat
      /\ request' = [requests EXCEPT ![issued'] = r] /\ queue' = Append(queue, issued')
      /\ queue \in Seq(1..issued) /\ request \in [1..MaxRequests -> Requests]
      /\ pending \in 0..issued
  BY DEF Enqueue, WellTyped, CallsTyped, QueueTyped
<1>2. requests \in [1..MaxRequests -> Requests]
  BY <1>1, SupersedeFacts
<1>3. request'[issued'] = r
  BY <1>1, <1>2
<1>4. ASSUME NEW id \in 1..MaxRequests, id # issued'
      PROVE  /\ request'[id].kind = request[id].kind /\ request'[id].level = request[id].level
             /\ request'[id].program = request[id].program
             /\ request'[id].fallback = request[id].fallback
             /\ IF requests = request \/ id # pending
                THEN request'[id].superseded = request[id].superseded
                ELSE request[id].kind = "slide" /\ request'[id].superseded
  <2>1. request'[id] = requests[id]
    BY <1>1, <1>2, <1>4
  <2>2. CASE requests = request
    BY <2>1, <2>2
  <2>3. CASE requests # request /\ id # pending
    <3>1. requests[id] = request[id]
      BY <1>1, <2>3 DEF Supersede
    <3> QED  BY <2>1, <2>3, <3>1
  <2>4. CASE requests # request /\ id = pending
    <3>1. request[pending] \in Request /\ Live(pending)
      BY <1>1, <1>4, <2>4 DEF WellTyped, CallsTyped, OneLive
    <3>2. requests[id] = [request[pending] EXCEPT !.superseded = TRUE]
      BY <1>1, <1>4, <2>4 DEF Supersede
    <3>3. /\ requests[id].kind = request[id].kind /\ requests[id].level = request[id].level
          /\ requests[id].program = request[id].program /\ requests[id].superseded = TRUE
          /\ requests[id].fallback = request[id].fallback
      BY <2>4, <3>1, <3>2 DEF Request
    <3> QED  BY <2>1, <2>4, <3>1, <3>3 DEF Live
  <2> QED  BY <2>2, <2>3, <2>4
<1>5. /\ Len(queue) \in Nat /\ DOMAIN queue = 1..Len(queue)
      /\ DOMAIN queue' = 1..Len(queue) + 1 /\ queue'[Len(queue) + 1] = issued'
      /\ \A n \in DOMAIN queue : queue'[n] = queue[n] /\ queue[n] \in 1..issued
  BY <1>1
<1>6. ASSUME queue # <<>> PROVE Head(queue') = Head(queue) /\ Head(queue) # issued'
  BY <1>1, <1>6
<1> QED  BY <1>1, <1>3, <1>4, <1>5, <1>6

(* The fields the new call sets are as it wants them; every other one is   *)
(* open, or what it was and not set by the call that is superseded.        *)
LEMMA EnqueueBook ==
  ASSUME WellTyped, OneLive, Book, NEW requests, NEW r \in Request, Enqueue(requests, r),
         \/ requests = request /\ desired' = desired
         \/ requests = Supersede(request) /\ Sets(r, "on"),
         desired' \in Desires, ~r.superseded, Complete(r),
         \A f \in Fields : Sets(r, f) => ValueOf(r, f) \subseteq desired'[f],
         \A f \in Fields : ~Sets(r, f) =>
           \/ desired'[f] = Anything[f]
           \/ /\ desired'[f] = desired[f]
              /\ requests = request \/ pending \notin Setters(f),
         \/ pending' = 0
         \/ pending' = pending /\ requests = request
         \/ pending' = issued' /\ r.kind = "slide"
  PROVE  /\ Book'
         /\ \A f \in Fields : Setters(f)' = {} =>
              \/ desired'[f] = Anything[f]
              \/ Setters(f) = {} /\ desired'[f] = desired[f]
         /\ Setters("on") # {} => Setters("on")' # {}
         /\ queue # <<>> =>
              /\ Owner'.kind = Owner.kind
              /\ \A f \in Fields : /\ Sets(Owner, f)' => Sets(Owner, f)
                                   /\ ValueOf(Owner, f)' = ValueOf(Owner, f)
<1>1. /\ issued' = issued + 1 /\ issued' \in 1..MaxRequests /\ request'[issued'] = r
      /\ Len(queue) \in Nat /\ DOMAIN queue = 1..Len(queue)
      /\ DOMAIN queue' = 1..Len(queue) + 1 /\ queue'[Len(queue) + 1] = issued'
      /\ \A n \in DOMAIN queue : queue'[n] = queue[n] /\ queue[n] \in 1..issued
  BY EnqueueFacts
<1>2. \A id \in 1..MaxRequests : id # issued' =>
        /\ request'[id].kind = request[id].kind /\ request'[id].level = request[id].level
        /\ request'[id].program = request[id].program
        /\ request'[id].fallback = request[id].fallback
        /\ IF requests = request \/ id # pending
           THEN request'[id].superseded = request[id].superseded
           ELSE request[id].kind = "slide" /\ request'[id].superseded
  BY EnqueueFacts
<1>3. issued \in Nat /\ pending \in 0..issued /\ issued \in 0..MaxRequests
  BY DEF WellTyped, CallsTyped
<1>4. ASSUME NEW f \in Fields, NEW id \in Setters(f)
      PROVE  id \in 1..issued /\ id \in 1..MaxRequests /\ id # issued'
  <2>1. PICK n \in DOMAIN queue : queue[n] = id
    BY DEF Book, Queued
  <2> QED  BY <1>1, <1>3, <2>1 DEF Setters
<1>5. ASSUME NEW f \in Fields, NEW id \in 1..MaxRequests, id # issued'
      PROVE  /\ ValueOf(request'[id], f) = ValueOf(request[id], f)
             /\ Sets(request'[id], f) <=>
                  Sets(request[id], f) /\ (requests = request \/ id # pending)
  <2>1. ValueOf(request'[id], f) = ValueOf(request[id], f)
    BY <1>2, <1>5 DEF ValueOf
  <2>2. /\ request'[id].kind = request[id].kind
        /\ f # "on" => request'[id][f] = request[id][f]
    BY <1>2, <1>5 DEF Fields
  <2>3. CASE requests = request \/ id # pending
    <3>1. request'[id].superseded = request[id].superseded
      BY <1>2, <1>5, <2>3
    <3> QED  BY <2>1, <2>2, <2>3, <3>1 DEF Sets
  <2>4. CASE ~(requests = request \/ id # pending)
    <3>1. request[id].kind = "slide" /\ request'[id].superseded
      BY <1>2, <1>5, <2>4
    <3> QED  BY <2>1, <2>2, <2>4, <3>1 DEF Sets
  <2> QED  BY <2>3, <2>4
<1>6. ASSUME NEW f \in Fields, NEW id
      PROVE  id \in Setters(f)' <=>
               \/ id = issued' /\ Sets(r, f)
               \/ id \in Setters(f) /\ (requests = request \/ id # pending)
  <2>1. CASE id = issued'
    <3>1. id \in Setters(f)' <=> Sets(r, f)
      BY <1>1, <2>1 DEF Setters
    <3>2. id \notin Setters(f)
      BY <1>4, <2>1
    <3> QED  BY <2>1, <3>1, <3>2
  <2>2. CASE id # issued'
    <3>1. id \in Setters(f)' <=> id \in 1..MaxRequests /\ Sets(request'[id], f)
      BY DEF Setters
    <3>2. id \in Setters(f) <=> id \in 1..MaxRequests /\ Sets(request[id], f)
      BY DEF Setters
    <3> QED  BY <1>5, <2>2, <3>1, <3>2
  <2> QED  BY <2>1, <2>2
<1>7. InOrder'
  <2> SUFFICES ASSUME NEW m \in DOMAIN queue', NEW n \in DOMAIN queue', m < n
               PROVE  queue'[m] < queue'[n]
    BY DEF InOrder
  <2>1. m \in DOMAIN queue
    BY <1>1
  <2>2. CASE n \in DOMAIN queue
    BY <1>1, <2>1, <2>2 DEF Book, InOrder
  <2>3. CASE n = Len(queue) + 1
    BY <1>1, <1>3, <2>1, <2>3
  <2> QED  BY <1>1, <2>2, <2>3
<1>8. Queued'
  <2> SUFFICES ASSUME NEW f \in Fields, NEW id \in Setters(f)'
               PROVE  \E n \in DOMAIN queue' : queue'[n] = id
    BY DEF Queued
  <2>1. CASE id = issued'
    BY <1>1, <2>1
  <2>2. CASE id \in Setters(f)
    <3>1. PICK n \in DOMAIN queue : queue[n] = id
      BY <2>2 DEF Book, Queued
    <3> QED  BY <1>1, <3>1
  <2> QED  BY <1>6, <2>1, <2>2
<1>9. Wishes'
  <2> SUFFICES ASSUME NEW f \in Fields, NEW id \in Setters(f)',
                      \A other \in Setters(f)' : other <= id
               PROVE  ValueOf(request'[id], f) \subseteq desired'[f]
    BY DEF Wishes
  <2>1. CASE id = issued'
    BY <1>1, <1>6, <1>4, <2>1
  <2>2. CASE id # issued'
    <3>1. id \in Setters(f) /\ id \in 1..issued
      BY <1>4, <1>6, <2>2
    <3>2. ValueOf(request'[id], f) = ValueOf(request[id], f)
      BY <1>4, <1>5, <2>2, <3>1
    <3>3. ~Sets(r, f)
      <4> SUFFICES ASSUME Sets(r, f) PROVE FALSE
        OBVIOUS
      <4>1. issued' <= id
        BY <1>6
      <4> QED  BY <1>1, <1>3, <3>1, <4>1
    <3>4. CASE desired'[f] = Anything[f]
      BY <3>1, <3>2, <3>4, SetterFacts
    <3>5. CASE desired'[f] = desired[f] /\ (requests = request \/ pending \notin Setters(f))
      <4>1. \A other \in Setters(f) : other <= id
        BY <1>6, <3>5
      <4> QED  BY <3>1, <3>2, <3>5, <4>1 DEF Book, Wishes
    <3> QED  BY <3>3, <3>4, <3>5
  <2> QED  BY <2>1, <2>2
<1>10. PendingWish'
  <2> SUFFICES ASSUME pending' # 0, NEW f \in {"program", "level"}, request'[pending'][f] # Keep
               PROVE  request'[pending'][f] \in desired'[f]
    BY DEF PendingWish
  <2>1. CASE pending' = pending /\ requests = request
    <3>1. pending \in 1..MaxRequests /\ pending # issued'
      BY <1>1, <1>3, <2>1
    <3>2. request'[pending][f] = request[pending][f]
      BY <1>2, <3>1
    <3>3. desired'[f] = desired[f]
      <4>1. CASE requests = request /\ desired' = desired
        BY <4>1
      <4>2. CASE requests = Supersede(request) /\ requests = request /\ pending # 0
        <5>1. request[pending] \in Request /\ Live(pending)
          BY <3>1, <4>2 DEF WellTyped, CallsTyped, OneLive
        <5>2. Supersede(request)[pending] = [request[pending] EXCEPT !.superseded = TRUE]
          BY <3>1, <4>2 DEF Supersede, WellTyped, CallsTyped
        <5>3. Supersede(request)[pending].superseded = TRUE
          BY <5>1, <5>2 DEF Request
        <5> QED  BY <4>2, <5>1, <5>3 DEF Live
      <4> QED  BY <2>1, <4>1, <4>2
    <3> QED  BY <2>1, <3>2, <3>3 DEF Book, PendingWish
  <2>2. CASE pending' = issued' /\ r.kind = "slide"
    <3>1. r[f] # Keep
      BY <1>1, <2>2
    <3>2. Sets(r, f) /\ f \in Fields
      BY <2>2, <3>1 DEF Sets, Fields
    <3>3. ValueOf(r, f) = {r[f]}
      BY <2>2, <3>1 DEF ValueOf
    <3> QED  BY <1>1, <2>2, <3>2, <3>3
  <2> QED  BY <2>1, <2>2
<1>11. Overtaken'
  <2> SUFFICES ASSUME NEW n \in DOMAIN queue', request'[queue'[n]].kind = "slide",
                      request'[queue'[n]].superseded, desired' # Anything
               PROVE  \E id \in Setters("on")' : queue'[n] < id
    BY DEF Overtaken
  <2>1. n \in DOMAIN queue /\ queue'[n] = queue[n] /\ queue[n] \in 1..issued
    BY <1>1
  <2>2. CASE requests = Supersede(request) /\ Sets(r, "on")
    <3>1. issued' \in Setters("on")'
      BY <1>6, <2>2 DEF Fields
    <3> QED  BY <1>1, <1>3, <2>1, <3>1
  <2>3. CASE requests = request /\ desired' = desired
    <3>1. queue[n] \in 1..MaxRequests /\ queue[n] # issued'
      BY <1>1, <1>3, <2>1
    <3>2. request[queue[n]].kind = "slide" /\ request[queue[n]].superseded
      BY <1>2, <2>1, <2>3, <3>1
    <3>3. PICK id \in Setters("on") : queue[n] < id
      BY <2>1, <2>3, <3>2 DEF Book, Overtaken
    <3> QED  BY <1>6, <2>1, <2>3, <3>3 DEF Fields
  <2> QED  BY <2>2, <2>3
<1>12. Chosen'
  <2> SUFFICES ASSUME NEW id \in 1..MaxRequests PROVE Complete(request'[id])
    BY DEF Chosen
  <2>1. CASE id = issued'
    BY <1>1, <2>1
  <2>2. CASE id # issued'
    BY <1>2, <2>2 DEF Book, Chosen, Complete
  <2> QED  BY <2>1, <2>2
<1>13. ASSUME NEW f \in Fields, Setters(f)' = {}
       PROVE  \/ desired'[f] = Anything[f]
              \/ Setters(f) = {} /\ desired'[f] = desired[f]
  <2>1. ~Sets(r, f)
    BY <1>6, <1>13
  <2>2. CASE desired'[f] = desired[f] /\ (requests = request \/ pending \notin Setters(f))
    <3>1. Setters(f) = {}
      BY <1>6, <1>13, <2>2
    <3> QED  BY <2>2, <3>1
  <2> QED  BY <2>1, <2>2
<1>14. ASSUME Setters("on") # {} PROVE Setters("on")' # {}
  <2>1. CASE requests = request
    BY <1>6, <1>14, <2>1 DEF Fields
  <2>2. CASE Sets(r, "on")
    BY <1>6, <2>2 DEF Fields
  <2> QED  BY <2>1, <2>2
<1>15. ASSUME queue # <<>>
       PROVE  /\ Owner'.kind = Owner.kind
              /\ \A f \in Fields : /\ Sets(Owner, f)' => Sets(Owner, f)
                                   /\ ValueOf(Owner, f)' = ValueOf(Owner, f)
  <2>1. Head(queue') = Head(queue) /\ Head(queue) # issued'
    BY <1>15, EnqueueFacts
  <2>2. Head(queue) \in 1..MaxRequests
    BY <1>15, OwnerFacts
  <2>3. Owner' = request'[Head(queue)]
    BY <2>1 DEF Owner
  <2> QED  BY <1>2, <1>5, <2>1, <2>2, <2>3 DEF Owner
<1> QED  BY <1>7, <1>8, <1>9, <1>10, <1>11, <1>12, <1>13, <1>14, <1>15 DEF Book

-------------------------------------------------------------------------------
(* What nobody in the queue sets.                                          *)

Restoring == stage \in {"restoring", "checkingRestore"}
Applying  == stage \in {"applying", "checking"}

(* Boost covers the desired output, or the owner or a later call of the    *)
(* queue is about to bring it back.                                        *)
Hidden == assumed \/ Restoring \/ (snapshot # NoLook /\ Setters("on") # {})

(* A field that no call in the queue sets has the desired value, unless    *)
(* Boost covers it; so have the snapshot and what the owner is writing.    *)
Settled(f) ==
  /\ ~Hidden => fixture[f] \in desired[f] /\ (Visible # NoLook => Visible[f] \in desired[f])
  /\ snapshot # NoLook => snapshot[f] \in desired[f]
  /\ assumed /\ snapshot = NoLook => desired[f] = Anything[f]
  /\ stage \in {"restoring", "applying"} => plan.write[f] \in desired[f] \cup {Keep}
  /\ Restoring \/ (Applying /\ snapshot # NoLook /\ ~failed) =>
       plan.expect[f] \subseteq desired[f]
AllSettled == \A f \in Fields : Setters(f) = {} => Settled(f)

(* What the owner sets is confirmed as it wants it.                        *)
PlanFits ==
  Restoring \/ Applying =>
    \A f \in Fields : /\ plan.expect[f] \subseteq Anything[f]
                      /\ Sets(Owner, f) => plan.expect[f] \subseteq ValueOf(Owner, f)

(* Which calls reach which stage, and with which session.                  *)
Serves ==
  /\ failed => Applying /\ Owner.kind = "off"
  /\ Restoring \/ Applying => ~assumed \/ failed
  /\ Restoring => snapshot # NoLook /\ Owner.kind \in {"slide", "off", "boostOff", "stop"}
  /\ Applying => HasApply(Owner)
  /\ Applying /\ snapshot # NoLook /\ ~failed => Owner.kind = "slide"
  /\ stage = "exit" => /\ Owner.kind \in {"slide", "off", "boostOff", "stop"}
                       /\ Owner.kind \in {"slide", "off"} => assumed \/ snapshot # NoLook
  /\ stage = "enter" => Owner.kind = "boostOn"

NoBoost == "boostOn" \notin Kinds => ~assumed /\ snapshot = NoLook
Held == AllSettled /\ PlanFits /\ Serves /\ NoBoost

(* The calls a run may mix: with Boost, only the ones that close it.       *)
BoostAlone == "boostOn" \in Kinds => {"on", "effect", "effectOff"} \cap Kinds = {}

LEMMA WriteFields ==
  ASSUME NEW w \in Writes, NEW f \in Fields
  PROVE  w[f] \in Anything[f] \cup {Keep}
  BY DEF Writes, Anything, Fields

(* Once everything is open, everything is as desired.                      *)
LEMMA OpenSettled ==
  ASSUME WellTyped', PlanFits', NEW f \in Fields, desired'[f] = Anything[f]
  PROVE  Settled(f)'
<1>1. fixture' \in Look /\ snapshot' \in Look \cup {NoLook}
  BY DEF WellTyped, ModalTyped
<1>2. Visible' # NoLook => Visible' \in Look
  BY DEF WellTyped, ReportsTyped, Visible
<1>3. stage' \in {"restoring", "applying"} => plan'.write \in Writes
  BY DEF WellTyped, StageTyped
<1>4. /\ fixture'[f] \in Anything[f]
      /\ Visible' # NoLook => Visible'[f] \in Anything[f]
      /\ snapshot' # NoLook => snapshot'[f] \in Anything[f]
  BY <1>1, <1>2, LookFields
<1>5. stage' \in {"restoring", "applying"} => plan'.write[f] \in Anything[f] \cup {Keep}
  BY <1>3, WriteFields
<1>6. (Restoring \/ Applying)' => plan'.expect[f] \subseteq Anything[f]
  BY DEF PlanFits
<1> QED  BY <1>4, <1>5, <1>6 DEF Settled

LEMMA EnqueueHeld ==
  ASSUME WellTyped, WellTyped', Held,
         UNCHANGED <<fixture, reports, modal, stage, plan, failed>>,
         \A f \in Fields : Setters(f)' = {} =>
           \/ desired'[f] = Anything[f]
           \/ Setters(f) = {} /\ desired'[f] = desired[f],
         Setters("on") # {} => Setters("on")' # {},
         queue # <<>> =>
           /\ Owner'.kind = Owner.kind
           /\ \A f \in Fields : /\ Sets(Owner, f)' => Sets(Owner, f)
                                /\ ValueOf(Owner, f)' = ValueOf(Owner, f)
  PROVE  Held'
<1>1. Visible' = Visible /\ UNCHANGED <<assumed, snapshot>>
      /\ (Restoring' <=> Restoring) /\ (Applying' <=> Applying)
  BY DEF Visible, reports, modal, Restoring, Applying
<1>2. Restoring \/ Applying \/ failed \/ stage \in {"exit", "enter"} => queue # <<>>
  BY DEF WellTyped, StageTyped, Restoring, Applying, Held, Serves
<1>3. PlanFits'
  BY <1>1, <1>2 DEF Held, PlanFits
<1>4. Serves'
  BY <1>1, <1>2 DEF Held, Serves, HasApply
<1>5. AllSettled'
  <2> SUFFICES ASSUME NEW f \in Fields, Setters(f)' = {} PROVE Settled(f)'
    BY DEF AllSettled
  <2>1. CASE desired'[f] = Anything[f]
    BY <1>3, <2>1, OpenSettled
  <2>2. CASE Setters(f) = {} /\ desired'[f] = desired[f]
    <3>1. Settled(f)
      BY <2>2 DEF Held, AllSettled
    <3>2. Hidden => Hidden'
      BY <1>1 DEF Hidden
    <3> QED  BY <1>1, <2>2, <3>1, <3>2 DEF Settled
  <2> QED  BY <2>1, <2>2
<1> QED  BY <1>1, <1>3, <1>4, <1>5 DEF Held, NoBoost

LEMMA PendingSets ==
  ASSUME WellTyped, OneLive, NEW f \in {"program", "level"}
  PROVE  pending \in Setters(f) => pending # 0 /\ request[pending][f] # Keep
<1> SUFFICES ASSUME pending \in Setters(f) PROVE pending # 0 /\ request[pending][f] # Keep
  OBVIOUS
<1>1. pending \in 1..MaxRequests /\ Sets(request[pending], f)
  BY DEF Setters
<1>2. Live(pending)
  BY <1>1 DEF OneLive
<1> QED  BY <1>1, <1>2 DEF Live, Sets

LEMMA SlideStep ==
  ASSUME WellTyped, WellTyped', OneLive, Book, Held,
         NEW program \in Colors \cup {Keep}, NEW level \in Levels \cup {Keep},
         Slide(program, level)
  PROVE  Book' /\ Held'
<1> DEFINE r == [kind |-> "slide", program |-> Merged("program", program),
                 level |-> Merged("level", level), fallback |-> Visible.level,
                 superseded |-> FALSE]
<1>1. Merged("program", program) \in Programs \cup {Keep}
      /\ Merged("level", level) \in Levels \cup {Keep}
  BY RequestFacts DEF Merged, WellTyped, CallsTyped, Programs, Steady
<1>2. "slide" \in Kinds /\ Visible.level \in Levels
  BY VisibleFacts DEF Slide, WellTyped
<1>3. /\ r \in Request /\ r.kind = "slide" /\ ~r.superseded
      /\ r.program = Merged("program", program) /\ r.level = Merged("level", level)
      /\ Complete(r)
  BY <1>1, <1>2 DEF Request, Complete, Slide, Merged
<1>4. Enqueue(Supersede(request), r) /\ pending' = issued'
  BY DEF Slide
<1> HIDE DEF r
<1>5. /\ desired' \in Desires /\ desired'.on = {TRUE}
      /\ desired'.program = IF program # Keep THEN {program} ELSE desired.program
      /\ desired'.level = IF level # Keep THEN {level} ELSE desired.level
  <2>1. desired' = Wanted(0, [program |-> program, level |-> level, on |-> TRUE])
    BY DEF Slide
  <2>2. /\ desired'.on = {TRUE}
        /\ desired'.program = IF program # Keep THEN {program} ELSE desired.program
        /\ desired'.level = IF level # Keep THEN {level} ELSE desired.level
        /\ desired' = [program |-> desired'.program, level |-> desired'.level, on |-> desired'.on]
    BY <2>1, NamesAssumption DEF Wanted
  <2>3. /\ desired.program \subseteq Programs /\ desired.level \subseteq Levels
        /\ Colors \subseteq Programs
    BY DEF Book, Desires, Programs, Steady
  <2>4. /\ desired'.program \subseteq Programs /\ desired'.level \subseteq Levels
        /\ desired'.on \subseteq BOOLEAN
    BY <2>2, <2>3
  <2>5. desired' \in Desires
    BY <2>2, <2>4 DEF Desires
  <2> QED  BY <2>2, <2>5
<1>6. \A f \in {"program", "level"} : r[f] # Keep => r[f] \in desired'[f]
  BY <1>3, <1>5 DEF Merged, Book, PendingWish
<1>7. \A f \in {"program", "level"} : r[f] = Keep =>
        desired'[f] = desired[f] /\ pending \notin Setters(f)
  BY <1>3, <1>5, PendingSets DEF Merged
<1>8. \A f \in Fields : Sets(r, f) <=> f = "on" \/ r[f] # Keep
  BY <1>3 DEF Sets
<1>9. \A f \in Fields : Sets(r, f) => ValueOf(r, f) \subseteq desired'[f]
  <2>1. ValueOf(r, "on") = {TRUE}
    BY <1>3 DEF ValueOf
  <2>2. \A f \in {"program", "level"} : r[f] # Keep => ValueOf(r, f) = {r[f]}
    BY <1>3 DEF ValueOf
  <2> QED  BY <1>5, <1>6, <1>8, <2>1, <2>2 DEF Fields
<1>10. \A f \in Fields : ~Sets(r, f) => desired'[f] = desired[f] /\ pending \notin Setters(f)
  BY <1>7, <1>8 DEF Fields
<1>11. Sets(r, "on")
  BY <1>8 DEF Fields
<1>12. /\ Book'
       /\ \A f \in Fields : Setters(f)' = {} =>
            \/ desired'[f] = Anything[f]
            \/ Setters(f) = {} /\ desired'[f] = desired[f]
       /\ Setters("on") # {} => Setters("on")' # {}
       /\ queue # <<>> =>
            /\ Owner'.kind = Owner.kind
            /\ \A f \in Fields : /\ Sets(Owner, f)' => Sets(Owner, f)
                                 /\ ValueOf(Owner, f)' = ValueOf(Owner, f)
  BY <1>3, <1>4, <1>5, <1>9, <1>10, <1>11, EnqueueBook
<1> QED  BY <1>4, <1>12, EnqueueHeld DEF Enqueue

LEMMA PlainStep ==
  ASSUME WellTyped, WellTyped', OneLive, Book, Held, NEW kind, Plain(kind),
         kind \in {"boostOn", "boostOff", "stop"}
  PROVE  Book' /\ Held'
<1> DEFINE r == [Anyone EXCEPT !.kind = kind]
<1>1. r \in Request /\ r.kind = kind /\ ~r.superseded /\ Complete(r)
  BY DEF Plain, Anyone, Request, Complete
<1>2. Enqueue(request, r) /\ pending' = pending /\ desired' = desired
  BY DEF Plain
<1> HIDE DEF r
<1>3. \A f \in Fields : ~Sets(r, f)
  BY <1>1 DEF Sets
<1>4. /\ Book'
      /\ \A f \in Fields : Setters(f)' = {} =>
           \/ desired'[f] = Anything[f]
           \/ Setters(f) = {} /\ desired'[f] = desired[f]
      /\ Setters("on") # {} => Setters("on")' # {}
      /\ queue # <<>> =>
           /\ Owner'.kind = Owner.kind
           /\ \A f \in Fields : /\ Sets(Owner, f)' => Sets(Owner, f)
                                /\ ValueOf(Owner, f)' = ValueOf(Owner, f)
  <2>1. desired \in Desires
    BY DEF Book
  <2> QED  BY <1>1, <1>2, <1>3, <2>1, EnqueueBook
<1> QED  BY <1>2, <1>4, EnqueueHeld DEF Enqueue

LEMMA DiscreteStep ==
  ASSUME WellTyped, WellTyped', OneLive, Book, Held, NEW kind, NEW program \in Programs \cup {Keep},
         NEW level \in Levels \cup {Keep}, NEW on \in BOOLEAN, Discrete(kind, program, level, on),
         kind \in {"on", "off", "effect", "effectOff"},
         on = (kind # "off"),
         kind # "effect" => program = Keep,
         kind = "effect" => program \in Programs,
         kind \in {"on", "off"} => level = Keep
  PROVE  Book' /\ Held'
<1> DEFINE r == [kind |-> kind, program |-> program, level |-> level,
                 fallback |-> Visible.level, superseded |-> FALSE]
           w == Wanted(pending, [program |-> program, level |-> level, on |-> on])
<1>1. kind \in Kinds /\ Visible.level \in Levels
  BY VisibleFacts DEF Discrete, WellTyped
<1>2. /\ r \in Request /\ r.kind = kind /\ r.program = program /\ r.level = level
      /\ ~r.superseded /\ Complete(r)
  BY <1>1 DEF Request, Complete
<1>3. Enqueue(Supersede(request), r) /\ pending' = 0
  BY DEF Discrete
<1> HIDE DEF r
<1>4. /\ w \in Desires /\ w.on = {on}
      /\ program # Keep => w.program = {program}
      /\ level # Keep => w.level = {level}
      /\ program = Keep => w.program = IF pending # 0 /\ request[pending].program # Keep
                                       THEN Programs ELSE desired.program
      /\ level = Keep => w.level = IF pending # 0 /\ request[pending].level # Keep
                                   THEN Levels ELSE desired.level
  <2>1. /\ w.on = {on}
        /\ program # Keep => w.program = {program}
        /\ level # Keep => w.level = {level}
        /\ program = Keep => w.program = IF pending # 0 /\ request[pending].program # Keep
                                         THEN Programs ELSE desired.program
        /\ level = Keep => w.level = IF pending # 0 /\ request[pending].level # Keep
                                     THEN Levels ELSE desired.level
        /\ w = [program |-> w.program, level |-> w.level, on |-> w.on]
    BY NamesAssumption DEF Wanted
  <2>2. desired.program \subseteq Programs /\ desired.level \subseteq Levels
    BY DEF Book, Desires
  <2> HIDE DEF w
  <2> QED  BY <2>1, <2>2 DEF Desires
<1>5. desired' = CASE kind = "effect"    -> [w EXCEPT !.level = IF level = Keep THEN Levels ELSE @]
                   [] kind = "effectOff" -> [w EXCEPT !.program = Steady,
                                                      !.level = IF level = Keep THEN Levels ELSE @]
                   [] OTHER              -> w
  BY DEF Discrete
<1> HIDE DEF w
<1>6. /\ desired' \in Desires /\ desired'.on = {on}
      /\ kind \in {"effect", "effectOff"} =>
           desired'.level = IF level = Keep THEN Levels ELSE {level}
      /\ kind = "effect" => desired'.program = {program}
      /\ kind = "effectOff" => desired'.program = Steady
      /\ kind \in {"on", "off"} => desired' = w
  BY <1>4, <1>5, NamesAssumption DEF Desires, Programs
<1>7. \A f \in Fields : Sets(r, f) <=> f = "on" \/ kind \in {"effect", "effectOff"}
  BY <1>2 DEF Sets
<1>8. \A f \in Fields : Sets(r, f) => ValueOf(r, f) \subseteq desired'[f]
  <2>1. ValueOf(r, "on") = {on}
    BY <1>2 DEF ValueOf
  <2>2. kind \in {"effect", "effectOff"} => /\ ValueOf(r, "program") = desired'.program
                                            /\ ValueOf(r, "level") = desired'.level
    BY <1>2, <1>6 DEF ValueOf
  <2> QED  BY <1>6, <1>7, <2>1, <2>2 DEF Fields
<1>9. \A f \in Fields : ~Sets(r, f) =>
        \/ desired'[f] = Anything[f]
        \/ desired'[f] = desired[f] /\ pending \notin Setters(f)
  <2> SUFFICES ASSUME NEW f \in {"program", "level"}, kind \in {"on", "off"}
               PROVE  \/ desired'[f] = Anything[f]
                      \/ desired'[f] = desired[f] /\ pending \notin Setters(f)
    BY <1>7 DEF Fields
  <2>1. desired'[f] = IF pending # 0 /\ request[pending][f] # Keep THEN Anything[f] ELSE desired[f]
    BY <1>4, <1>6 DEF Anything
  <2> QED  BY <2>1, PendingSets
<1>10. /\ Book'
       /\ \A f \in Fields : Setters(f)' = {} =>
            \/ desired'[f] = Anything[f]
            \/ Setters(f) = {} /\ desired'[f] = desired[f]
       /\ Setters("on") # {} => Setters("on")' # {}
       /\ queue # <<>> =>
            /\ Owner'.kind = Owner.kind
            /\ \A f \in Fields : /\ Sets(Owner, f)' => Sets(Owner, f)
                                 /\ ValueOf(Owner, f)' = ValueOf(Owner, f)
  <2>1. Sets(r, "on")
    BY <1>7 DEF Fields
  <2> QED  BY <1>2, <1>3, <1>6, <1>8, <1>9, <2>1, EnqueueBook
<1> QED  BY <1>3, <1>10, EnqueueHeld DEF Enqueue

LEMMA CallStep ==
  ASSUME WellTyped, WellTyped', OneLive, Book, Held, Call
  PROVE  Book' /\ Held'
<1>1. ASSUME NEW e \in Effects, NEW level \in Levels \cup {Keep}, SelectEffect(e, level)
      PROVE  Book' /\ Held'
  <2>1. e \in Programs
    BY DEF Programs
  <2> QED  BY <1>1, <2>1, DiscreteStep DEF SelectEffect
<1>2. ASSUME NEW level \in Levels \cup {Keep}, EffectOff(level)
      PROVE  Book' /\ Held'
  BY <1>2, DiscreteStep DEF EffectOff
<1>3. CASE TurnOn \/ TurnOff
  BY <1>3, DiscreteStep DEF TurnOn, TurnOff
<1>4. CASE BoostOn \/ BoostOff \/ Stop
  BY <1>4, PlainStep DEF BoostOn, BoostOff, Stop
<1> QED  BY <1>1, <1>2, <1>3, <1>4, SlideStep DEF Call

-------------------------------------------------------------------------------
(* The owner returns.                                                      *)

LEMMA ReleaseFacts ==
  ASSUME WellTyped, Book, queue # <<>>, Release, desired' \in {desired, Anything}
  PROVE  /\ Book' /\ stage' = "free" /\ failed' = FALSE
         /\ \A f \in Fields : /\ Setters(f)' = Setters(f) \ {Head(queue)}
                              /\ ~Sets(Owner, f) => Setters(f)' = Setters(f)
<1>1. Over(1) /\ Head(queue) = queue[1]
  BY ReleaseOver, OwnerFacts
<1>2. Book'
  BY <1>1, OverBook
<1>3. \A f \in Fields : Setters(f)' = Setters(f) \ {Head(queue)}
  BY <1>1, OverFacts
<1>4. \A f \in Fields : ~Sets(Owner, f) => Setters(f)' = Setters(f)
  BY <1>3, OwnerSets
<1> QED  BY <1>2, <1>3, <1>4 DEF Release

LEMMA SupersededFacts ==
  ASSUME WellTyped, Book, queue # <<>>, Superseded
  PROVE  /\ \A f \in Fields : ~Sets(Owner, f)
         /\ desired = Anything \/ Setters("on") # {}
<1>1. 1 \in DOMAIN queue /\ Owner = request[queue[1]]
  BY OwnerFacts DEF Owner
<1>2. desired = Anything \/ Setters("on") # {}
  BY <1>1 DEF Superseded, Book, Overtaken
<1> QED  BY <1>2 DEF Superseded, Sets

LEMMA FreeHeld ==
  ASSUME stage' = "free", failed' = FALSE, AllSettled', NoBoost'
  PROVE  Held'
  BY DEF Held, PlanFits, Serves, Restoring, Applying

(* A call that failed leaves everything open.                              *)
LEMMA RaiseStep ==
  ASSUME WellTyped, WellTyped', Book, queue # <<>>, Release, desired' = Anything, NoBoost'
  PROVE  Book' /\ Held'
<1>1. Book' /\ stage' = "free" /\ failed' = FALSE
  BY ReleaseFacts
<1>2. PlanFits'
  BY <1>1 DEF PlanFits, Restoring, Applying
<1>3. AllSettled'
  BY <1>2, OpenSettled DEF AllSettled
<1> QED  BY <1>1, <1>3, FreeHeld

(* A call that neither wrote nor set anything leaves things as they are.   *)
LEMMA IdleStep ==
  ASSUME WellTyped, Book, Held, queue # <<>>, Release, ~Restoring,
         desired' = desired, UNCHANGED <<fixture, assumed, snapshot>>,
         Visible' \in {Visible, NoLook},
         \A f \in Fields : ~Sets(Owner, f)
  PROVE  Book' /\ Held'
<1>1. /\ Book' /\ stage' = "free" /\ failed' = FALSE
      /\ \A f \in Fields : Setters(f)' = Setters(f)
  BY ReleaseFacts
<1>2. AllSettled'
  <2> SUFFICES ASSUME NEW f \in Fields, Setters(f)' = {} PROVE Settled(f)'
    BY DEF AllSettled
  <2>1. Settled(f)
    BY <1>1 DEF Held, AllSettled
  <2>2. ~Hidden' => ~Hidden
    BY <1>1 DEF Hidden, Restoring, Fields
  <2> QED  BY <1>1, <2>1, <2>2 DEF Settled, Restoring, Applying
<1>3. NoBoost'
  BY DEF Held, NoBoost
<1> QED  BY <1>1, <1>2, <1>3, FreeHeld

LEMMA QuietSets ==
  ASSUME WellTyped, Owner.kind \in {"boostOn", "boostOff", "stop"}, NEW f \in Fields
  PROVE  ~Sets(Owner, f)
  BY DEF Sets

LEMMA BeginNothingStep ==
  ASSUME WellTyped, WellTyped', Book, Held, BeginNothing
  PROVE  Book' /\ Held'
<1>1. /\ queue # <<>> /\ Release /\ UNCHANGED <<fixture, reports, modal>> /\ stage = "free"
      /\ \/ desired' = Anything
         \/ desired' = desired /\ (Superseded \/ Owner.kind \in {"stop", "boostOff"})
  <2>1. CASE Superseded /\ Release /\ UNCHANGED desired
    BY <2>1 DEF BeginNothing
  <2>2. CASE Raise
    BY <2>2 DEF BeginNothing, Raise
  <2>3. CASE Owner.kind = "stop" /\ Release /\ desired' \in {desired, Anything}
    BY <2>3 DEF BeginNothing
  <2> QED  BY <2>1, <2>2, <2>3 DEF BeginNothing
<1>2. Visible' = Visible /\ UNCHANGED <<assumed, snapshot>>
  BY <1>1 DEF Visible, reports, modal
<1>3. CASE desired' = Anything
  <2>1. NoBoost'
    BY <1>2 DEF Held, NoBoost
  <2> QED  BY <1>1, <1>3, <2>1, RaiseStep
<1>4. CASE desired' = desired /\ (Superseded \/ Owner.kind \in {"stop", "boostOff"})
  <2>1. \A f \in Fields : ~Sets(Owner, f)
    BY <1>1, <1>4, SupersededFacts, QuietSets
  <2>2. ~Restoring
    BY <1>1 DEF Restoring
  <2> QED  BY <1>1, <1>2, <1>4, <2>1, <2>2, IdleStep
<1> QED  BY <1>1, <1>3, <1>4

LEMMA GiveWayStep ==
  ASSUME WellTyped, WellTyped', Book, Held, GiveWay
  PROVE  Book' /\ Held'
<1>1. /\ queue # <<>> /\ Release /\ Superseded
      /\ UNCHANGED <<fixture, assumed, snapshot>> /\ Visible' = Visible /\ desired' = desired
  BY DEF GiveWay, WellTyped, StageTyped, Visible, reports, modal
<1>2. NoBoost'
  BY <1>1 DEF Held, NoBoost
<1>3. CASE desired = Anything
  BY <1>1, <1>2, <1>3, RaiseStep
<1>4. CASE Setters("on") # {}
  <2>1. /\ Book' /\ stage' = "free" /\ failed' = FALSE
        /\ \A f \in Fields : Setters(f)' = Setters(f)
    BY <1>1, ReleaseFacts, SupersededFacts
  <2>2. AllSettled'
    <3> SUFFICES ASSUME NEW f \in Fields, Setters(f)' = {} PROVE Settled(f)'
      BY DEF AllSettled
    <3>1. Settled(f)
      BY <2>1 DEF Held, AllSettled
    <3>2. ~Hidden' => ~Hidden
      <4>1. Restoring => snapshot # NoLook
        BY DEF Held, Serves
      <4> QED  BY <1>1, <1>4, <2>1, <4>1 DEF Hidden, Fields
    <3> QED  BY <1>1, <2>1, <3>1, <3>2 DEF Settled, Restoring, Applying
  <2> QED  BY <1>2, <2>1, <2>2, FreeHeld
<1> QED  BY <1>1, <1>3, <1>4, SupersededFacts

-------------------------------------------------------------------------------
(* What the owner plans.                                                   *)

LEMMA VisibleParts ==
  ASSUME WellTyped
  PROVE  /\ Visible # NoLook => /\ Visible \in Look /\ Visible.program \in Programs
                                /\ Visible.level \in Levels /\ Visible.on \in BOOLEAN
         /\ effect # NoLook => effect = Visible /\ effect \in Look
         /\ steady # NoLook => steady \in Look /\ steady.level \in Levels
         /\ effect # NoLook => effect.level \in Levels
  BY DEF WellTyped, ReportsTyped, Visible, Look

LEMMA SlideLevelFacts ==
  ASSUME WellTyped, NEW r \in Request, Complete(r), r.kind = "slide"
  PROVE  /\ SlideLevel(r) \in Levels
         /\ r.level # Keep => SlideLevel(r) = r.level
         /\ r.level = Keep /\ snapshot # NoLook => SlideLevel(r) = snapshot.level
         /\ r.level = Keep /\ snapshot = NoLook => SlideLevel(r) = r.fallback
  BY DEF SlideLevel, Complete, Request, WellTyped, ModalTyped, Look

LEMMA SlideFits ==
  ASSUME WellTyped, NEW r \in Request, Complete(r), r.kind = "slide", NEW f \in Fields
  PROVE  /\ SlidePlan(r).expect[f] \subseteq Anything[f]
         /\ Sets(r, f) => SlidePlan(r).expect[f] \subseteq ValueOf(r, f)
<1>1. SlideLevel(r) \in Levels /\ (r.level # Keep => SlideLevel(r) = r.level)
      /\ r.program \in Programs \cup {Keep} /\ r.level \in Levels \cup {Keep}
  BY SlideLevelFacts, RequestFacts
<1>2. CASE r.program # Keep
  <2>1. SlidePlan(r).expect = [program |-> {r.program}, level |-> {SlideLevel(r)}, on |-> {TRUE}]
    BY <1>2 DEF SlidePlan
  <2>2. CASE f = "program"
    BY <1>1, <1>2, <2>1, <2>2 DEF ValueOf, Anything
  <2>3. CASE f = "level"
    BY <1>1, <2>1, <2>3 DEF ValueOf, Anything
  <2>4. CASE f = "on"
    BY <1>2, <2>1, <2>4 DEF ValueOf, Anything
  <2> QED  BY <2>2, <2>3, <2>4 DEF Fields
<1>3. CASE r.program = Keep /\ effect # NoLook
  <2> DEFINE shown == [effect EXCEPT !.level = SlideLevel(r), !.on = TRUE]
  <2>1. SlidePlan(r).expect = Exactly(shown)
    BY <1>3 DEF SlidePlan
  <2>2. effect \in Look
    BY <1>3, VisibleParts
  <2>3. shown.program \in Programs /\ shown.level = SlideLevel(r)
    BY <2>2 DEF Look
  <2>4. /\ SlidePlan(r).expect.program = {shown.program}
        /\ SlidePlan(r).expect.level = {shown.level} /\ SlidePlan(r).expect.on = {TRUE}
    BY <2>1, <2>2 DEF Exactly, Look
  <2> HIDE DEF shown
  <2>5. CASE f = "program"
    BY <1>3, <2>3, <2>4, <2>5 DEF Sets, Anything
  <2>6. CASE f = "level"
    BY <1>1, <2>3, <2>4, <2>6 DEF ValueOf, Anything
  <2>7. CASE f = "on"
    BY <1>3, <2>3, <2>4, <2>7 DEF ValueOf, Anything
  <2> QED  BY <2>5, <2>6, <2>7 DEF Fields
<1>4. CASE r.program = Keep /\ effect = NoLook
  <2>1. SlidePlan(r).expect = [program |-> Steady, level |-> {r.level}, on |-> {TRUE}]
    BY <1>4 DEF SlidePlan
  <2>2. CASE f = "program"
    BY <1>4, <2>1, <2>2 DEF Sets, Anything, Programs
  <2>3. CASE f = "level"
    BY <1>1, <1>4, <2>1, <2>3 DEF ValueOf, Anything, Complete
  <2>4. CASE f = "on"
    BY <1>4, <2>1, <2>4 DEF ValueOf, Anything
  <2> QED  BY <2>2, <2>3, <2>4 DEF Fields
<1> QED  BY <1>2, <1>3, <1>4

LEMMA OnFits ==
  ASSUME WellTyped, NEW r \in Request, r.kind = "on", NEW f \in Fields
  PROVE  /\ OnPlan.expect[f] \subseteq Anything[f]
         /\ Sets(r, f) => OnPlan.expect[f] \subseteq ValueOf(r, f)
<1>1. Sets(r, f) => f = "on"
  BY DEF Sets
<1>2. ValueOf(r, "on") = {TRUE}
  BY DEF ValueOf
<1>5. ASSUME OnPlan.expect.program \subseteq Programs, OnPlan.expect.level \subseteq Levels,
             OnPlan.expect.on = {TRUE}
      PROVE  /\ OnPlan.expect[f] \subseteq Anything[f]
             /\ Sets(r, f) => OnPlan.expect[f] \subseteq ValueOf(r, f)
  <2>1. CASE f = "program"
    BY <1>1, <1>5, <2>1 DEF Anything
  <2>2. CASE f = "level"
    BY <1>1, <1>5, <2>2 DEF Anything
  <2>3. CASE f = "on"
    BY <1>2, <1>5, <2>3 DEF Anything
  <2> QED  BY <2>1, <2>2, <2>3 DEF Fields
<1>3. CASE effect = NoLook
  <2>1. OnPlan.expect = [program |-> Steady, level |-> Levels, on |-> {TRUE}]
    BY <1>3 DEF OnPlan
  <2>2. Steady \subseteq Programs
    BY DEF Programs
  <2>3. OnPlan.expect.program = Steady /\ OnPlan.expect.level = Levels /\ OnPlan.expect.on = {TRUE}
    BY <2>1
  <2> QED  BY <1>5, <2>2, <2>3
<1>4. CASE effect # NoLook
  <2>1. effect \in Look
    BY <1>4, VisibleParts
  <2>2. /\ OnPlan.expect.program = {effect.program} /\ OnPlan.expect.level = {effect.level}
        /\ OnPlan.expect.on = {TRUE}
    BY <1>4, <2>1 DEF OnPlan, Exactly, Look
  <2>3. effect.program \in Programs /\ effect.level \in Levels
    BY <2>1, LookFacts
  <2>4. OnPlan.expect.program \subseteq Programs /\ OnPlan.expect.level \subseteq Levels
    BY <2>2, <2>3
  <2> QED  BY <2>2, <2>4, <1>5
<1> QED  BY <1>3, <1>4

LEMMA OffFits ==
  ASSUME NEW r, r.kind = "off", NEW f \in Fields
  PROVE  /\ OffPlan.expect[f] \subseteq Anything[f]
         /\ Sets(r, f) => f = "on" /\ OffPlan.expect[f] \subseteq ValueOf(r, f)
         /\ f # "on" => OffPlan.write[f] = Keep
<1>1. OffPlan.expect = [program |-> Programs, level |-> Levels, on |-> {FALSE}]
  BY DEF OffPlan, Anything
<1>2. Sets(r, f) => f = "on"
  BY DEF Sets
<1>3. /\ OffPlan.write.program = Keep /\ OffPlan.write.level = Keep
      /\ ValueOf(r, "on") = {FALSE}
  BY DEF OffPlan, ValueOf
<1>4. CASE f = "program"
  BY <1>1, <1>2, <1>3, <1>4 DEF Anything
<1>5. CASE f = "level"
  BY <1>1, <1>2, <1>3, <1>5 DEF Anything
<1>6. CASE f = "on"
  <2>1. OffPlan.expect.on = {FALSE}
    BY <1>1
  <2>2. Anything.on = BOOLEAN
    BY DEF Anything
  <2> QED  BY <1>3, <1>6, <2>1, <2>2
<1> QED  BY <1>4, <1>5, <1>6 DEF Fields

LEMMA EffectFits ==
  ASSUME WellTyped, NEW r \in Request, Complete(r), r.kind = "effect", NEW f \in Fields
  PROVE  /\ EffectPlan(r).expect[f] \subseteq Anything[f]
         /\ EffectPlan(r).expect[f] \subseteq ValueOf(r, f)
<1> DEFINE level == IF r.level # Keep THEN r.level
                    ELSE IF Visible # NoLook THEN Visible.level ELSE DefaultLevel
<1>1. r.level \in Levels \cup {Keep} /\ r.program \in Programs
  BY RequestFacts DEF Complete
<1>2. level \in Levels /\ (r.level # Keep => level = r.level)
  BY <1>1, VisibleParts
<1>3. /\ EffectPlan(r).expect.program = {r.program} /\ EffectPlan(r).expect.level = {level}
      /\ EffectPlan(r).expect.on = {TRUE}
  BY DEF EffectPlan, Exactly
<1> HIDE DEF level
<1>4. CASE f = "program"
  BY <1>1, <1>3, <1>4 DEF ValueOf, Anything
<1>5. CASE f = "level"
  BY <1>1, <1>2, <1>3, <1>5 DEF ValueOf, Anything
<1>6. CASE f = "on"
  BY <1>3, <1>6 DEF ValueOf, Anything
<1> QED  BY <1>4, <1>5, <1>6 DEF Fields

LEMMA ExitEffectFits ==
  ASSUME WellTyped, NEW r \in Request, r.kind = "effectOff", NEW f \in Fields
  PROVE  /\ ExitEffectPlan(r).expect[f] \subseteq Anything[f]
         /\ ExitEffectPlan(r).expect[f] \subseteq ValueOf(r, f)
<1> DEFINE level == IF r.level # Keep THEN r.level
                    ELSE IF steady # NoLook THEN steady.level
                    ELSE IF effect # NoLook THEN effect.level ELSE Keep
<1>1. r.level \in Levels \cup {Keep}
  BY RequestFacts
<1>2. level \in Levels \cup {Keep} /\ (r.level # Keep => level = r.level)
  BY <1>1, VisibleParts
<1>3. /\ ExitEffectPlan(r).expect.program = Steady /\ ExitEffectPlan(r).expect.on = {TRUE}
      /\ ExitEffectPlan(r).expect.level = IF level = Keep THEN Levels ELSE {level}
  BY DEF ExitEffectPlan
<1> HIDE DEF level
<1>5. CASE f = "program"
  BY <1>3, <1>5 DEF ValueOf, Anything, Programs
<1>6. CASE f = "level"
  BY <1>1, <1>2, <1>3, <1>6, NamesAssumption DEF ValueOf, Anything
<1>7. CASE f = "on"
  BY <1>3, <1>7 DEF ValueOf, Anything
<1> QED  BY <1>5, <1>6, <1>7 DEF Fields

LEMMA ApplyFits ==
  ASSUME WellTyped, NEW r \in Request, Complete(r), HasApply(r), NEW f \in Fields
  PROVE  /\ ApplyPlan(r).expect[f] \subseteq Anything[f]
         /\ Sets(r, f) => ApplyPlan(r).expect[f] \subseteq ValueOf(r, f)
<1>1. CASE r.kind = "slide"
  <2>1. ApplyPlan(r) = SlidePlan(r)
    BY <1>1 DEF ApplyPlan
  <2> QED  BY <1>1, <2>1, SlideFits
<1>2. CASE r.kind = "on"
  <2>1. ApplyPlan(r) = OnPlan
    BY <1>2 DEF ApplyPlan
  <2> QED  BY <1>2, <2>1, OnFits
<1>3. CASE r.kind = "off"
  <2>1. ApplyPlan(r) = OffPlan
    BY <1>3 DEF ApplyPlan
  <2> QED  BY <1>3, <2>1, OffFits
<1>4. CASE r.kind = "effect"
  <2>1. ApplyPlan(r) = EffectPlan(r)
    BY <1>4 DEF ApplyPlan
  <2> QED  BY <1>4, <2>1, EffectFits
<1>5. CASE r.kind = "effectOff"
  <2>1. ApplyPlan(r) = ExitEffectPlan(r)
    BY <1>5 DEF ApplyPlan
  <2> QED  BY <1>5, <2>1, ExitEffectFits
<1> QED  BY <1>1, <1>2, <1>3, <1>4, <1>5 DEF HasApply

(* A field the call does not set is left alone, or written as it is shown  *)
(* or was before Boost.                                                    *)
LEMMA ApplyKeeps ==
  ASSUME WellTyped, NEW r \in Request, Complete(r), HasApply(r), NEW f \in Fields, NEW D,
         ~Sets(r, f), r.kind = "slide" => ~r.superseded,
         snapshot # NoLook => r.kind = "slide" /\ r.program # Keep /\ snapshot[f] \in D,
         snapshot = NoLook /\ Visible # NoLook => Visible[f] \in D,
         snapshot = NoLook /\ f = "level" /\ r.kind = "slide" => r.fallback \in D
  PROVE  /\ ApplyPlan(r).write[f] \in D \cup {Keep}
         /\ snapshot # NoLook => ApplyPlan(r).expect[f] \subseteq D
<1>1. f # "on" /\ r.kind \in {"slide", "on", "off"}
  BY DEF Sets, HasApply
<1>2. CASE r.kind = "on"
  <2>1. ApplyPlan(r).write[f] = Keep
    BY <1>1, <1>2 DEF ApplyPlan, OnPlan, Fields
  <2> QED  BY <1>2, <2>1
<1>3. CASE r.kind = "off"
  <2>1. ApplyPlan(r).write[f] = Keep
    BY <1>1, <1>3 DEF ApplyPlan, OffPlan, Fields
  <2> QED  BY <1>3, <2>1
<1>4. CASE r.kind = "slide"
  <2>1. ApplyPlan(r) = SlidePlan(r) /\ r[f] = Keep
    BY <1>1, <1>4 DEF ApplyPlan, Sets
  <2>2. CASE f = "program"
    <3>1. r.program = Keep /\ snapshot = NoLook
      BY <2>1, <2>2
    <3>2. CASE effect # NoLook
      <4>1. effect \in Look /\ effect = Visible /\ Visible # NoLook
        BY <3>2, VisibleParts
      <4>2. SlidePlan(r).write.program = effect.program
        BY <3>1, <3>2, <4>1 DEF SlidePlan, Look
      <4> QED  BY <2>1, <2>2, <3>1, <4>1, <4>2
    <3>3. CASE effect = NoLook
      <4>1. SlidePlan(r).write.program = Keep
        BY <3>1, <3>3 DEF SlidePlan
      <4> QED  BY <2>1, <2>2, <3>1, <4>1
    <3> QED  BY <3>2, <3>3
  <2>3. CASE f = "level"
    <3>1. r.level = Keep /\ r.program # Keep
      BY <1>4, <2>1, <2>3 DEF Complete
    <3>2. /\ SlidePlan(r).write.level = SlideLevel(r)
          /\ SlidePlan(r).expect.level = {SlideLevel(r)}
      BY <3>1 DEF SlidePlan
    <3>3. SlideLevel(r) \in D
      BY <1>4, <2>3, <3>1, SlideLevelFacts
    <3> QED  BY <2>1, <2>3, <3>2, <3>3
  <2> QED  BY <1>1, <2>2, <2>3 DEF Fields
<1> QED  BY <1>1, <1>2, <1>3, <1>4

(* A restore writes the snapshot, but for what the call sets.              *)
LEMMA RestoreFits ==
  ASSUME WellTyped, NEW r \in Request, snapshot # NoLook, NEW f \in Fields,
         r.kind \in {"slide", "off", "boostOff", "stop"},
         r.kind = "slide" => r.program = Keep /\ ~r.superseded
  PROVE  /\ RestorePlan(r).write[f] \in Anything[f]
         /\ RestorePlan(r).expect[f] = {RestorePlan(r).write[f]}
         /\ Sets(r, f) => RestorePlan(r).expect[f] \subseteq ValueOf(r, f)
         /\ ~Sets(r, f) => RestorePlan(r).write[f] = snapshot[f]
<1> DEFINE look == RestoreLook(r)
<1>1. RestorePlan(r).write = look /\ RestorePlan(r).expect = Exactly(look)
  BY DEF RestorePlan
<1>2. RestorePlan(r).write \in Look
  BY PlanFacts DEF WellTyped
<1>3. snapshot.on \in BOOLEAN
  BY DEF WellTyped, ModalTyped, Look
<1>4. /\ look.program = snapshot.program
      /\ look.level = IF r.kind = "slide" /\ r.level # Keep THEN r.level ELSE snapshot.level
      /\ look.on = IF r.kind = "slide" THEN TRUE ELSE r.kind # "off" /\ snapshot.on
  BY DEF RestoreLook
<1> HIDE DEF look
<1>5. /\ r.kind = "slide" => look.on = TRUE
      /\ r.kind = "off" => look.on = FALSE
      /\ r.kind \in {"boostOff", "stop"} => look.on = snapshot.on
  BY <1>3, <1>4
<1>6. RestorePlan(r).expect[f] = {look[f]}
  BY <1>1 DEF Exactly, Fields
<1>7. /\ Sets(r, f) => {look[f]} \subseteq ValueOf(r, f)
      /\ ~Sets(r, f) => look[f] = snapshot[f]
  <2>1. CASE f = "program"
    BY <1>4, <2>1 DEF Sets
  <2>2. CASE f = "level"
    BY <1>4, <2>2 DEF Sets, ValueOf
  <2>3. CASE f = "on"
    BY <1>5, <2>3 DEF Sets, ValueOf
  <2> QED  BY <2>1, <2>2, <2>3 DEF Fields
<1> QED  BY <1>1, <1>2, <1>6, <1>7, LookFields

LEMMA SessionFacts ==
  ASSUME WellTyped, SwitchShowsSession, Held, BoostAlone
  PROVE  /\ Active <=> assumed
         /\ BoostSession <=> assumed \/ snapshot # NoLook
         /\ BoostSession /\ queue # <<>> => Owner.kind \notin {"on", "effect", "effectOff"}
<1>1. Active <=> assumed
  BY DEF SwitchShowsSession, Active
<1>2. BoostSession <=> assumed \/ snapshot # NoLook
  BY <1>1 DEF BoostSession
<1>3. BoostSession => "boostOn" \in Kinds
  BY <1>2 DEF Held, NoBoost
<1>4. queue # <<>> => Owner.kind \in Kinds
  BY OwnerFacts, RequestFacts
<1>5. BoostSession /\ queue # <<>> => Owner.kind \notin {"on", "effect", "effectOff"}
  BY <1>3, <1>4 DEF BoostAlone
<1> QED  BY <1>1, <1>2, <1>5

LEMMA BeginStep ==
  ASSUME WellTyped, WellTyped', SwitchShowsSession, BoostAlone, Book, Held, Begin
  PROVE  Book' /\ Held'
<1> DEFINE r == [Owner EXCEPT !.fallback = IF Visible # NoLook THEN Visible.level ELSE @]
<1>1. /\ queue # <<>> /\ queue' = queue /\ stage = "free" /\ ~Superseded
      /\ request' = [request EXCEPT ![Head(queue)] = r]
      /\ UNCHANGED <<fixture, reports, modal, failed>>
      /\ \/ r.kind = "boostOn" /\ stage' = "enter"
         \/ NeedsExit(r) /\ stage' = "exit"
         \/ HasApply(r) /\ ~NeedsExit(r) /\ stage' = "applying" /\ plan' = ApplyPlan(r)
      /\ desired' = IF r.kind = "slide" /\ r.level = Keep /\ Visible = NoLook
                    THEN [desired EXCEPT !.level = Levels] ELSE desired
  BY DEF Begin
<1>2. Head(queue) \in 1..MaxRequests /\ Owner \in Request
  BY <1>1, OwnerFacts
<1>3. Visible # NoLook => Visible.level \in Levels \cup {Keep}
  BY VisibleFacts DEF WellTyped
<1>4. /\ r \in Request /\ r.kind = Owner.kind /\ r.superseded = Owner.superseded
      /\ Visible # NoLook => r.fallback = Visible.level
  BY <1>2, <1>3 DEF Request
<1> HIDE DEF r
<1>5. Owner' = r
  BY <1>1, <1>2 DEF Owner, WellTyped, CallsTyped
<1>6. /\ Book' /\ \A f \in Fields : Setters(f)' = Setters(f) /\ desired[f] \subseteq desired'[f]
      /\ \A f \in Fields : Sets(r, f) <=> Sets(Owner, f)
  BY <1>5, BeginBook
<1>7. Complete(r)
  <2>1. request'[Head(queue)] = r
    BY <1>1, <1>5 DEF Owner
  <2> QED  BY <1>2, <1>6, <2>1 DEF Book, Chosen
<1>8. /\ Visible' = Visible /\ UNCHANGED <<assumed, snapshot, fixture>> /\ ~failed /\ ~failed'
      /\ ~Restoring /\ ~Restoring'
  BY <1>1 DEF Visible, reports, modal, Held, Serves, Restoring, Applying
<1>9. /\ Active <=> assumed
      /\ BoostSession <=> assumed \/ snapshot # NoLook
      /\ BoostSession => r.kind \notin {"on", "effect", "effectOff"}
  BY <1>1, <1>4, SessionFacts
<1>10. stage' = "applying" => /\ HasApply(r) /\ plan' = ApplyPlan(r)
                              /\ snapshot = NoLook /\ ~assumed
  BY <1>1, <1>9 DEF NeedsExit, HasApply
<1>11. Serves'
  <2>1. stage' = "exit" => /\ r.kind \in {"slide", "off", "boostOff", "stop"}
                           /\ r.kind \in {"slide", "off"} => assumed \/ snapshot # NoLook
    BY <1>1, <1>9 DEF NeedsExit
  <2>2. Applying' => stage' = "applying"
    BY <1>1 DEF Applying
  <2> QED  BY <1>1, <1>5, <1>8, <1>10, <2>1, <2>2 DEF Serves
<1>12. PlanFits'
  <2>1. (Restoring \/ Applying)' => HasApply(r) /\ plan' = ApplyPlan(r)
    BY <1>1, <1>8, <1>10 DEF Applying
  <2> QED  BY <1>4, <1>5, <1>7, <2>1, ApplyFits DEF PlanFits
<1>13. AllSettled'
  <2> SUFFICES ASSUME NEW f \in Fields, Setters(f)' = {} PROVE Settled(f)'
    BY DEF AllSettled
  <2>1. Settled(f) /\ ~Sets(r, f)
    BY <1>1, <1>6, OwnerSets DEF Held, AllSettled
  <2>2. desired[f] \subseteq desired'[f] /\ desired'[f] \subseteq Anything[f]
    BY <1>6, AnythingFacts DEF Book
  <2>3. ~Hidden' => ~Hidden
    BY <1>6, <1>8 DEF Hidden, Fields
  <2>4. stage' = "applying" => plan'.write[f] \in desired'[f] \cup {Keep}
    <3> SUFFICES ASSUME stage' = "applying" PROVE ApplyPlan(r).write[f] \in desired'[f] \cup {Keep}
      BY <1>10
    <3>1. snapshot = NoLook /\ ~Hidden /\ HasApply(r)
      BY <1>8, <1>10 DEF Hidden
    <3>2. Visible # NoLook => Visible[f] \in desired'[f]
      BY <2>1, <2>2, <3>1 DEF Settled
    <3>3. r.kind = "slide" => ~r.superseded
      BY <1>1, <1>4 DEF Superseded
    <3>4. ASSUME f = "level", r.kind = "slide" PROVE r.fallback \in desired'[f]
      <4>1. CASE Visible # NoLook
        BY <1>4, <3>2, <3>4, <4>1
      <4>2. CASE Visible = NoLook
        <5>1. r.level = Keep
          BY <2>1, <3>3, <3>4 DEF Sets
        <5>2. desired'.level = Levels
          BY <1>1, <3>4, <4>2, <5>1 DEF Book, Desires
        <5> QED  BY <1>7, <3>4, <5>2 DEF Complete
      <4> QED  BY <4>1, <4>2
    <3> QED  BY <1>4, <1>7, <2>1, <3>1, <3>2, <3>3, <3>4, ApplyKeeps
  <2>5. assumed /\ snapshot = NoLook => desired'[f] = Anything[f]
    BY <2>1, <2>2 DEF Settled
  <2>6. ~Hidden' => fixture[f] \in desired'[f] /\ (Visible # NoLook => Visible[f] \in desired'[f])
    BY <2>1, <2>2, <2>3 DEF Settled
  <2>7. snapshot # NoLook => snapshot[f] \in desired'[f]
    BY <2>1, <2>2 DEF Settled
  <2>8. Applying' => snapshot = NoLook
    BY <1>1, <1>10 DEF Applying
  <2>9. stage' # "restoring"
    BY <1>1
  <2> QED  BY <1>8, <2>4, <2>5, <2>6, <2>7, <2>8, <2>9 DEF Settled
<1> QED  BY <1>6, <1>8, <1>11, <1>12, <1>13 DEF Held, NoBoost

LEMMA EnterBoostStep ==
  ASSUME WellTyped, WellTyped', Book, Held, EnterBoost
  PROVE  Book' /\ Held'
<1>1. /\ queue # <<>> /\ Release /\ stage = "enter" /\ assumed' = TRUE
      /\ snapshot' = IF Active THEN snapshot ELSE Visible
      /\ desired' = IF snapshot' = NoLook \/ (~Active /\ snapshot \notin {NoLook, snapshot'})
                    THEN Anything ELSE desired
  BY DEF EnterBoost, WellTyped, StageTyped
<1>2. Owner.kind = "boostOn" /\ Owner.kind \in Kinds
  BY <1>1, OwnerFacts, RequestFacts DEF Held, Serves
<1>3. NoBoost'
  BY <1>2 DEF NoBoost
<1>4. CASE desired' = Anything
  BY <1>1, <1>3, <1>4, RaiseStep
<1>5. CASE /\ desired' = desired /\ snapshot' # NoLook
           /\ Active \/ snapshot \in {NoLook, snapshot'}
  <2>1. /\ Book' /\ stage' = "free" /\ failed' = FALSE
        /\ \A f \in Fields : Setters(f)' = Setters(f)
    BY <1>1, <1>2, <1>5, ReleaseFacts, QuietSets
  <2>2. AllSettled'
    <3> SUFFICES ASSUME NEW f \in Fields, Setters(f)' = {} PROVE Settled(f)'
      BY DEF AllSettled
    <3>1. Settled(f)
      BY <2>1 DEF Held, AllSettled
    <3>2. snapshot'[f] \in desired[f]
      <4>1. CASE snapshot' = snapshot
        BY <1>5, <3>1, <4>1 DEF Settled
      <4>2. CASE ~Active /\ snapshot = NoLook /\ snapshot' = Visible
        <5>1. ~Hidden
          BY <1>1, <4>2 DEF Hidden, Active, Restoring
        <5> QED  BY <1>5, <3>1, <4>2, <5>1 DEF Settled
      <4> QED  BY <1>1, <1>5, <4>1, <4>2
    <3>3. Hidden'
      BY <1>1 DEF Hidden
    <3> QED  BY <1>5, <2>1, <3>2, <3>3 DEF Settled, Restoring, Applying
  <2> QED  BY <1>3, <2>1, <2>2, FreeHeld
<1> QED  BY <1>1, <1>4, <1>5

LEMMA Uncovered ==
  ASSUME WellTyped, NEW f \in Fields, Settled(f), ~Restoring, snapshot = NoLook
  PROVE  /\ fixture[f] \in desired[f]
         /\ Visible # NoLook => Visible[f] \in desired[f]
<1>1. CASE assumed
  BY <1>1, LookFields, VisibleParts DEF Settled, WellTyped
<1>2. CASE ~assumed
  BY <1>2 DEF Settled, Hidden
<1> QED  BY <1>1, <1>2

LEMMA LeaveBoostStep ==
  ASSUME WellTyped, WellTyped', Book, Held, LeaveBoost
  PROVE  Book' /\ Held'
<1>1. /\ queue # <<>> /\ stage = "exit" /\ assumed' = FALSE /\ desired' = desired
      /\ fixture' = fixture /\ Visible' = Visible
  BY DEF LeaveBoost, WellTyped, StageTyped, Visible
<1>2. /\ Owner.kind \in {"slide", "off", "boostOff", "stop"} /\ ~failed /\ ~Restoring
      /\ Owner.kind \in {"slide", "off"} => assumed \/ snapshot # NoLook
  BY <1>1 DEF Held, Serves, Applying, Restoring
<1>3. snapshot' = snapshot
  BY <1>2 DEF LeaveBoost, Restores
<1>4. Owner \in Request /\ Complete(Owner)
  BY <1>1, OwnerFacts DEF Book, Chosen, Owner
<1>5. NoBoost'
  BY <1>1, <1>3 DEF Held, NoBoost
<1>6. CASE Superseded /\ Release
  <2>1. CASE desired = Anything
    BY <1>1, <1>5, <1>6, <2>1, RaiseStep
  <2>2. CASE Setters("on") # {}
    <3>1. /\ Book' /\ stage' = "free" /\ failed' = FALSE
          /\ \A f \in Fields : Setters(f)' = Setters(f)
      BY <1>1, <1>6, ReleaseFacts, SupersededFacts
    <3>2. AllSettled'
      <4> SUFFICES ASSUME NEW f \in Fields, Setters(f)' = {} PROVE Settled(f)'
        BY DEF AllSettled
      <4>1. Settled(f)
        BY <3>1 DEF Held, AllSettled
      <4>2. ~Hidden' => snapshot = NoLook
        BY <1>3, <2>2, <3>1 DEF Hidden, Fields
      <4>3. snapshot = NoLook => fixture[f] \in desired[f]
                                 /\ (Visible # NoLook => Visible[f] \in desired[f])
        BY <1>2, <4>1, Uncovered
      <4> QED  BY <1>1, <1>3, <3>1, <4>1, <4>2, <4>3 DEF Settled, Restoring, Applying
    <3> QED  BY <1>5, <3>1, <3>2, FreeHeld
  <2> QED  BY <1>1, <1>6, <2>1, <2>2, SupersededFacts
<1>7. CASE ~Superseded /\ Restores(Owner) /\ GoTo("restoring", RestorePlan(Owner)) /\ UNCHANGED failed
  <2>1. /\ stage' = "restoring" /\ plan' = RestorePlan(Owner) /\ snapshot # NoLook /\ Owner' = Owner
        /\ UNCHANGED <<request, queue, pending>>
        /\ Owner.kind = "slide" => Owner.program = Keep /\ ~Owner.superseded
    BY <1>7 DEF GoTo, Restores, Superseded, Owner, calls
  <2>2. Book' /\ \A f \in Fields : Setters(f)' = Setters(f)
    BY <1>1, <2>1, SameBook
  <2>3. \A f \in Fields : /\ plan'.write[f] \in Anything[f]
                          /\ plan'.expect[f] = {plan'.write[f]}
                          /\ Sets(Owner, f) => plan'.expect[f] \subseteq ValueOf(Owner, f)
                          /\ ~Sets(Owner, f) => plan'.write[f] = snapshot[f]
    BY <1>2, <1>4, <2>1, RestoreFits
  <2>4. PlanFits'
    BY <2>1, <2>3 DEF PlanFits
  <2>5. Serves'
    BY <1>1, <1>2, <1>3, <1>7, <2>1 DEF Serves, Restoring, Applying
  <2>6. AllSettled'
    <3> SUFFICES ASSUME NEW f \in Fields, Setters(f)' = {} PROVE Settled(f)'
      BY DEF AllSettled
    <3>1. Settled(f) /\ ~Sets(Owner, f)
      BY <1>1, <2>2, OwnerSets DEF Held, AllSettled
    <3>2. snapshot[f] \in desired[f]
      BY <2>1, <3>1 DEF Settled
    <3>3. plan'.write[f] = snapshot[f] /\ plan'.expect[f] = {snapshot[f]}
      BY <2>3, <3>1
    <3>4. Hidden'
      BY <2>1 DEF Hidden, Restoring
    <3> QED  BY <1>1, <1>3, <3>2, <3>3, <3>4 DEF Settled
  <2> QED  BY <1>5, <2>2, <2>4, <2>5, <2>6 DEF Held
<1>8. CASE /\ ~Superseded /\ ~Restores(Owner) /\ HasApply(Owner)
           /\ GoTo("applying", ApplyPlan(Owner)) /\ UNCHANGED failed
  <2>1. /\ stage' = "applying" /\ plan' = ApplyPlan(Owner) /\ Owner' = Owner
        /\ UNCHANGED <<request, queue, pending>>
        /\ snapshot # NoLook => Owner.kind = "slide" /\ Owner.program # Keep
        /\ Owner.kind = "slide" => ~Owner.superseded
        /\ Owner.kind \in {"slide", "off"}
    BY <1>2, <1>8 DEF GoTo, Restores, HasApply, Superseded, Owner, calls
  <2>2. Book' /\ \A f \in Fields : Setters(f)' = Setters(f)
    BY <1>1, <2>1, SameBook
  <2>3. PlanFits'
    BY <1>4, <1>8, <2>1, ApplyFits DEF PlanFits
  <2>4. Serves'
    BY <1>1, <1>2, <1>3, <1>8, <2>1 DEF Serves, Restoring, Applying
  <2>5. AllSettled'
    <3> SUFFICES ASSUME NEW f \in Fields, Setters(f)' = {} PROVE Settled(f)'
      BY DEF AllSettled
    <3>1. Settled(f) /\ ~Sets(Owner, f)
      BY <1>1, <2>2, OwnerSets DEF Held, AllSettled
    <3>2. snapshot = NoLook => /\ fixture[f] \in desired[f]
                               /\ Visible # NoLook => Visible[f] \in desired[f]
      BY <1>2, <3>1, Uncovered
    <3>3. snapshot # NoLook => snapshot[f] \in desired[f]
      BY <3>1 DEF Settled
    <3>4. snapshot = NoLook /\ f = "level" /\ Owner.kind = "slide" => Owner.fallback \in desired[f]
      <4>1. snapshot = NoLook /\ Owner.kind = "slide" => assumed
        BY <1>2
      <4> QED  BY <1>4, <3>1, <4>1 DEF Settled, Complete, Anything
    <3>5. /\ plan'.write[f] \in desired[f] \cup {Keep}
          /\ snapshot # NoLook => plan'.expect[f] \subseteq desired[f]
      BY <1>4, <1>8, <2>1, <3>1, <3>2, <3>3, <3>4, ApplyKeeps
    <3>6. ~Hidden' => snapshot = NoLook
      <4>1. snapshot # NoLook => Sets(Owner, "on")
        BY <2>1 DEF Sets
      <4>2. snapshot # NoLook => Setters("on") # {}
        BY <1>1, <4>1, OwnerSets DEF Fields
      <4> QED  BY <1>3, <2>2, <4>2 DEF Hidden, Fields
    <3> QED  BY <1>1, <1>3, <2>1, <3>2, <3>3, <3>5, <3>6 DEF Settled, Restoring
  <2> QED  BY <1>5, <2>2, <2>3, <2>4, <2>5 DEF Held
<1>9. CASE ~Restores(Owner) /\ ~HasApply(Owner) /\ Release
  <2>1. Owner.kind \in {"boostOff", "stop"} /\ snapshot = NoLook
    BY <1>2, <1>9 DEF HasApply, Restores
  <2>2. /\ Book' /\ stage' = "free" /\ failed' = FALSE
        /\ \A f \in Fields : Setters(f)' = Setters(f)
    BY <1>1, <1>9, <2>1, ReleaseFacts, QuietSets
  <2>3. AllSettled'
    <3> SUFFICES ASSUME NEW f \in Fields, Setters(f)' = {} PROVE Settled(f)'
      BY DEF AllSettled
    <3>1. Settled(f)
      BY <2>2 DEF Held, AllSettled
    <3>2. fixture[f] \in desired[f] /\ (Visible # NoLook => Visible[f] \in desired[f])
      BY <1>2, <2>1, <3>1, Uncovered
    <3> QED  BY <1>1, <1>3, <2>1, <2>2, <3>2 DEF Settled, Restoring, Applying
  <2> QED  BY <1>5, <2>2, <2>3, FreeHeld
<1> QED  BY <1>6, <1>7, <1>8, <1>9 DEF LeaveBoost

(* A write changes only the fields it sets, whether or not it arrives.     *)
LEMMA Written ==
  ASSUME WellTyped, stage \in {"restoring", "applying"}, fixture' \in InFlight, NEW f \in Fields
  PROVE  \/ fixture'[f] = fixture[f]
         \/ fixture'[f] = plan.write[f] /\ plan.write[f] # Keep
<1>1. fixture' = fixture \/ fixture' = Put(fixture, plan.write)
  BY DEF InFlight
<1>2. fixture \in Look /\ plan.write \in Writes
  BY DEF WellTyped, StageTyped
<1> QED  BY <1>1, <1>2, PutFields

LEMMA SendStep ==
  ASSUME WellTyped, WellTyped', Book, Held, Send
  PROVE  Book' /\ Held'
<1>1. /\ queue # <<>> /\ stage \in {"restoring", "applying"} /\ fixture' \in InFlight
      /\ UNCHANGED <<assumed, snapshot, desired>> /\ Visible' = Visible
  BY DEF Send, WellTyped, StageTyped, Visible, reports, modal
<1>2. NoBoost'
  BY <1>1 DEF Held, NoBoost
<1>3. ASSUME NEW f \in Fields, Settled(f), ~Hidden, stage = "applying"
      PROVE  fixture'[f] \in desired[f]
  BY <1>1, <1>3, Written DEF Settled
<1>4. CASE stage = "applying" /\ Superseded /\ Release
  <2>1. CASE desired = Anything
    BY <1>1, <1>2, <1>4, <2>1, RaiseStep
  <2>2. CASE Setters("on") # {}
    <3>1. /\ Book' /\ stage' = "free" /\ failed' = FALSE
          /\ \A f \in Fields : Setters(f)' = Setters(f)
      BY <1>1, <1>4, ReleaseFacts, SupersededFacts
    <3>2. AllSettled'
      <4> SUFFICES ASSUME NEW f \in Fields, Setters(f)' = {} PROVE Settled(f)'
        BY DEF AllSettled
      <4>1. Settled(f)
        BY <3>1 DEF Held, AllSettled
      <4>2. ~Hidden' => ~Hidden
        BY <1>1, <1>4, <3>1 DEF Hidden, Fields, Restoring
      <4>3. ~Hidden' => fixture'[f] \in desired[f] /\ (Visible # NoLook => Visible[f] \in desired[f])
        BY <1>3, <1>4, <4>1, <4>2 DEF Settled
      <4> QED  BY <1>1, <3>1, <4>1, <4>3 DEF Settled, Restoring, Applying
    <3> QED  BY <1>2, <3>1, <3>2, FreeHeld
  <2> QED  BY <1>1, <1>4, <2>1, <2>2, SupersededFacts
<1>5. CASE /\ stage' = IF stage = "restoring" THEN "checkingRestore" ELSE "checking"
           /\ plan' = plan /\ UNCHANGED <<queue, calls, failed>>
  <2>1. /\ UNCHANGED <<request, queue, pending>> /\ Owner' = Owner
        /\ (Restoring' <=> Restoring) /\ (Applying' <=> Applying)
    BY <1>1, <1>5 DEF calls, Owner, Restoring, Applying
  <2>2. Book' /\ \A f \in Fields : Setters(f)' = Setters(f)
    BY <1>1, <2>1, SameBook
  <2>3. PlanFits'
    BY <1>5, <2>1 DEF Held, PlanFits
  <2>4. Serves'
    BY <1>1, <1>5, <2>1 DEF Held, Serves
  <2>5. AllSettled'
    <3> SUFFICES ASSUME NEW f \in Fields, Setters(f)' = {} PROVE Settled(f)'
      BY DEF AllSettled
    <3>1. Settled(f)
      BY <2>2 DEF Held, AllSettled
    <3>2. Hidden' <=> Hidden
      BY <1>1, <2>1, <2>2 DEF Hidden, Fields
    <3>3. ~Hidden => stage = "applying"
      BY <1>1 DEF Hidden, Restoring
    <3>4. ~Hidden => fixture'[f] \in desired[f] /\ (Visible # NoLook => Visible[f] \in desired[f])
      BY <1>3, <3>1, <3>3 DEF Settled
    <3>5. stage' \notin {"restoring", "applying"}
      BY <1>1, <1>5
    <3> QED  BY <1>1, <1>5, <2>1, <3>1, <3>2, <3>4, <3>5 DEF Settled
  <2> QED  BY <1>2, <2>2, <2>3, <2>4, <2>5 DEF Held
<1> QED  BY <1>1, <1>4, <1>5 DEF Send, GoTo

-------------------------------------------------------------------------------
(* Failures.                                                               *)

LEMMA OffSets ==
  ASSUME WellTyped, queue # <<>>, Owner.kind = "off"
  PROVE  Setters("on") # {}
<1>1. Sets(Owner, "on") /\ "on" \in Fields
  BY DEF Sets, Fields
<1> QED  BY <1>1, OwnerSets

(* Whatever became of the restore, OFF goes on to cut the power.           *)
LEMMA OffStep ==
  ASSUME WellTyped, WellTyped', Book, Held, queue # <<>>, Owner.kind = "off",
         GoTo("applying", OffPlan), desired' = desired, assumed' = assumed, failed' \in BOOLEAN,
         \/ snapshot' = snapshot /\ failed'
         \/ snapshot' = NoLook /\ ~assumed,
         \A f \in Fields : Settled(f) /\ ~Hidden' =>
           fixture'[f] \in desired[f] /\ (Visible' # NoLook => Visible'[f] \in desired[f])
  PROVE  Book' /\ Held'
<1>1. /\ stage' = "applying" /\ plan' = OffPlan /\ UNCHANGED <<request, queue, pending>>
      /\ Owner' = Owner
  BY DEF GoTo, calls, Owner
<1>2. Book' /\ \A f \in Fields : Setters(f)' = Setters(f)
  BY <1>1, SameBook
<1>3. PlanFits'
  BY <1>1, OffFits DEF PlanFits
<1>4. Serves'
  BY <1>1 DEF Serves, Restoring, Applying, HasApply
<1>5. NoBoost'
  BY DEF Held, NoBoost
<1>6. AllSettled'
  <2> SUFFICES ASSUME NEW f \in Fields, Setters(f)' = {} PROVE Settled(f)'
    BY DEF AllSettled
  <2>1. Settled(f)
    BY <1>2 DEF Held, AllSettled
  <2>2. f # "on"
    BY <1>2, OffSets
  <2>3. plan'.write[f] = Keep
    BY <1>1, <2>2, OffFits
  <2>4. ~Restoring'
    BY <1>1 DEF Restoring
  <2>5. ~Hidden' => fixture'[f] \in desired[f] /\ (Visible' # NoLook => Visible'[f] \in desired[f])
    BY <2>1
  <2> QED  BY <1>1, <2>1, <2>3, <2>4, <2>5 DEF Settled
<1> QED  BY <1>2, <1>3, <1>4, <1>5, <1>6 DEF Held

(* An error while the owner holds the lock.  A Boost session that was      *)
(* being closed counts as open again, so its snapshot still hides.         *)
LEMMA RaiseFails ==
  ASSUME WellTyped, WellTyped', Book, Held, queue # <<>>, stage # "free", Raise,
         \/ snapshot' = snapshot
         \/ Owner.kind = "stop" /\ snapshot' = NoLook,
         IF Owner.kind = "boostOff" /\ Restoring THEN assumed' = TRUE ELSE assumed' = assumed,
         stage = "exit" => fixture' = fixture,
         Visible' \in {Visible, NoLook}
  PROVE  Book' /\ Held'
<1>1. Release
  BY DEF Raise
<1>2. Restoring => snapshot # NoLook
  BY DEF Held, Serves
<1>3. NoBoost'
  BY <1>2 DEF Held, NoBoost
<1>4. CASE Owner.kind # "boostOff"
  <2>1. desired' = Anything
    BY <1>4 DEF Raise
  <2> QED  BY <1>1, <1>3, <2>1, RaiseStep
<1>5. CASE Owner.kind = "boostOff"
  <2>1. desired' = desired /\ snapshot' = snapshot
    BY <1>5 DEF Raise
  <2>2. \A f \in Fields : ~Sets(Owner, f)
    BY <1>5, QuietSets
  <2>3. stage = "exit" \/ Restoring
    <3>1. stage \in Stages
      BY DEF WellTyped, StageTyped
    <3> QED  BY <1>5, <3>1 DEF Held, Serves, Stages, Restoring, Applying, HasApply
  <2>4. CASE stage = "exit"
    <3>1. ~Restoring
      BY <2>4 DEF Restoring
    <3> QED  BY <1>1, <2>1, <2>2, <2>4, <3>1, IdleStep
  <2>5. CASE Restoring
    <3>1. /\ Book' /\ stage' = "free" /\ failed' = FALSE
          /\ \A f \in Fields : Setters(f)' = Setters(f)
      BY <1>1, <2>1, <2>2, ReleaseFacts
    <3>2. assumed' = TRUE /\ Hidden'
      BY <1>5, <2>5 DEF Hidden
    <3>3. AllSettled'
      <4> SUFFICES ASSUME NEW f \in Fields, Setters(f)' = {} PROVE Settled(f)'
        BY DEF AllSettled
      <4>1. Settled(f)
        BY <3>1 DEF Held, AllSettled
      <4> QED  BY <1>2, <2>1, <2>5, <3>1, <3>2, <4>1 DEF Settled, Restoring, Applying
    <3> QED  BY <1>3, <3>1, <3>3, FreeHeld
  <2> QED  BY <2>3, <2>4, <2>5
<1> QED  BY <1>4, <1>5

LEMMA RetryableFacts ==
  ASSUME NEW page, KeepRetryable(page)
  PROVE  IF Owner.kind = "boostOff" /\ Restoring THEN assumed' = TRUE ELSE assumed' = assumed
  BY DEF KeepRetryable, Restoring

LEMMA FailsStep ==
  ASSUME WellTyped, WellTyped', Book, Held, SendFails \/ Unconfirmed
  PROVE  Book' /\ Held'
<1>1. queue # <<>> /\ stage # "free" /\ Fails
  BY DEF SendFails, Unconfirmed, WellTyped, StageTyped
<1>2. IF Owner.kind = "boostOff" /\ Restoring THEN assumed' = TRUE ELSE assumed' = assumed
  BY RetryableFacts DEF SendFails, Unconfirmed
<1>3. stage = "exit" => fixture' = fixture
  BY DEF SendFails, Unconfirmed, InFlight
<1>4. Visible' \in {Visible, NoLook}
  BY DEF SendFails, Unconfirmed, Visible
<1>5. CASE /\ Owner.kind = "off" /\ stage \notin {"applying", "checking"}
           /\ GoTo("applying", OffPlan) /\ failed' = TRUE /\ UNCHANGED <<desired, snapshot>>
  <2>1. stage = "exit" \/ Restoring
    <3>1. stage \in Stages
      BY DEF WellTyped, StageTyped
    <3> QED  BY <1>1, <1>5, <3>1 DEF Held, Serves, Stages, Restoring
  <2>2. assumed \/ snapshot # NoLook
    BY <1>5, <2>1 DEF Held, Serves
  <2>3. Setters("on")' # {}
    <3>1. request' = request
      BY <1>5 DEF GoTo, calls
    <3>2. Setters("on")' = Setters("on")
      BY <3>1 DEF Setters
    <3> QED  BY <1>1, <1>5, <3>2, OffSets
  <2>4. Hidden'
    BY <1>2, <1>5, <2>2, <2>3 DEF Hidden
  <2>5. assumed' = assumed /\ failed' \in BOOLEAN
    BY <1>2, <1>5
  <2> QED  BY <1>1, <1>5, <2>4, <2>5, OffStep
<1>6. CASE Raise /\ snapshot' = IF Owner.kind = "stop" THEN NoLook ELSE snapshot
  BY <1>1, <1>2, <1>3, <1>4, <1>6, RaiseFails
<1> QED  BY <1>1, <1>5, <1>6 DEF Fails

-------------------------------------------------------------------------------
(* Reports.                                                                *)

LEMMA ReceiveShows ==
  ASSUME WellTyped, Receive(fixture)
  PROVE  Visible' = fixture
<1>1. fixture # NoLook
  BY NamesAssumption DEF WellTyped
<1> QED  BY <1>1 DEF Receive, Visible

LEMMA ConfirmStep ==
  ASSUME WellTyped, WellTyped', Book, Held, Confirm
  PROVE  Book' /\ Held'
<1>1. /\ queue # <<>> /\ fixture' = fixture /\ assumed' = assumed /\ Visible' = fixture
      /\ (Restoring /\ stage = "checkingRestore") \/ (Applying /\ stage = "checking")
      /\ \A f \in Fields : fixture[f] \in plan.expect[f]
  BY ReceiveShows, FitsFields DEF Confirm, WellTyped, StageTyped, Restoring, Applying
<1>2. /\ failed => Applying /\ Owner.kind = "off"
      /\ failed \/ ~assumed
      /\ Applying /\ snapshot # NoLook /\ ~failed => Owner.kind = "slide"
      /\ failed \in BOOLEAN
  BY <1>1 DEF Held, Serves, WellTyped, StageTyped
<1>3. snapshot' = IF stage = "checkingRestore" \/ Owner.kind = "slide" THEN NoLook ELSE snapshot
  BY DEF Confirm
<1>4. NoBoost'
  BY <1>1, <1>3 DEF Held, NoBoost
<1>5. ASSUME NEW f \in Fields, Settled(f), Restoring \/ (Applying /\ ~failed)
      PROVE  fixture[f] \in desired[f]
  <2>1. CASE Restoring \/ (Applying /\ ~failed /\ snapshot # NoLook)
    BY <1>1, <1>5, <2>1 DEF Settled
  <2>2. CASE ~Restoring /\ ~failed /\ snapshot = NoLook
    BY <1>5, <2>2, Uncovered
  <2> QED  BY <1>5, <2>1, <2>2
<1>6. CASE /\ stage = "checkingRestore" /\ Owner.kind = "off"
           /\ GoTo("applying", OffPlan) /\ UNCHANGED <<failed, desired>>
  <2>1. Restoring /\ snapshot' = NoLook /\ ~assumed
    BY <1>1, <1>2, <1>3, <1>6 DEF Restoring, Applying
  <2>2. failed' \in BOOLEAN
    BY <1>2, <1>6
  <2> QED  BY <1>1, <1>5, <1>6, <2>1, <2>2, OffStep
<1>7. CASE failed /\ Raise
  <2>1. Release /\ desired' = Anything
    BY <1>2, <1>7 DEF Raise
  <2> QED  BY <1>1, <1>4, <2>1, RaiseStep
<1>8. CASE ~failed /\ Release /\ UNCHANGED desired
  <2>1. /\ Book' /\ stage' = "free" /\ failed' = FALSE
        /\ \A f \in Fields : /\ Setters(f)' = Setters(f) \ {Head(queue)}
                             /\ ~Sets(Owner, f) => Setters(f)' = Setters(f)
    BY <1>1, <1>8, ReleaseFacts
  <2>2. snapshot' = NoLook /\ ~assumed
    BY <1>1, <1>2, <1>3, <1>8
  <2>3. AllSettled'
    <3> SUFFICES ASSUME NEW f \in Fields, Setters(f)' = {} PROVE Settled(f)'
      BY DEF AllSettled
    <3>1. CASE Sets(Owner, f)
      <4>1. Head(queue) \in Setters(f) /\ Head(queue) \in Int
        BY <1>1, <3>1, OwnerSets, OwnerFacts
      <4>2. \A other \in Setters(f) : other = Head(queue)
        BY <2>1
      <4>3. ValueOf(Owner, f) \subseteq desired[f]
        BY <4>1, <4>2 DEF Book, Wishes, Owner
      <4>4. plan.expect[f] \subseteq ValueOf(Owner, f)
        BY <1>1, <3>1 DEF Held, PlanFits
      <4>5. fixture[f] \in desired[f]
        BY <1>1, <4>3, <4>4
      <4> QED  BY <1>1, <1>8, <2>1, <2>2, <4>5 DEF Settled, Restoring, Applying
    <3>2. CASE ~Sets(Owner, f)
      <4>1. Settled(f)
        BY <2>1, <3>2 DEF Held, AllSettled
      <4>2. fixture[f] \in desired[f]
        BY <1>1, <1>5, <1>8, <4>1
      <4> QED  BY <1>1, <1>8, <2>1, <2>2, <4>2 DEF Settled, Restoring, Applying
    <3> QED  BY <3>1, <3>2
  <2> QED  BY <1>4, <2>1, <2>3, FreeHeld
<1> QED  BY <1>6, <1>7, <1>8 DEF Confirm

(* A report shows the fixture, a disconnection nothing.                    *)
LEMMA ReportsStep ==
  ASSUME WellTyped, WellTyped', Book, Held,
         UNCHANGED <<fixture, assumed, snapshot, calls, lock, desired>>,
         Visible' \in {Visible, fixture, NoLook}
  PROVE  Book' /\ Held'
<1>1. /\ UNCHANGED <<request, queue, pending, stage, plan, failed>> /\ Owner' = Owner
      /\ (Restoring' <=> Restoring) /\ (Applying' <=> Applying)
  BY DEF calls, lock, Owner, Restoring, Applying
<1>2. Book' /\ \A f \in Fields : Setters(f)' = Setters(f)
  BY <1>1, SameBook
<1>3. PlanFits' /\ Serves' /\ NoBoost'
  BY <1>1 DEF Held, PlanFits, Serves, NoBoost
<1>4. AllSettled'
  <2> SUFFICES ASSUME NEW f \in Fields, Setters(f)' = {} PROVE Settled(f)'
    BY DEF AllSettled
  <2>1. Settled(f)
    BY <1>2 DEF Held, AllSettled
  <2>2. Hidden' <=> Hidden
    BY <1>1, <1>2 DEF Hidden, Fields
  <2> QED  BY <1>1, <2>1, <2>2 DEF Settled
<1> QED  BY <1>2, <1>3, <1>4 DEF Held

LEMMA CancelStep ==
  ASSUME WellTyped, WellTyped', Book, Held, NEW n \in 1..MaxRequests, Cancel(n)
  PROVE  Book' /\ Held'
<1>1. /\ n \in DOMAIN queue /\ snapshot' = snapshot /\ Visible' = Visible
      /\ queue \in Seq(1..issued) /\ issued \in 0..MaxRequests
  BY DEF Cancel, Visible, WellTyped, QueueTyped, CallsTyped
<1>2. CASE n = 1 /\ stage # "free"
  <2>1. /\ queue # <<>> /\ Raise /\ KeepRetryable(boostPage)
        /\ stage = "exit" => fixture' = fixture
    BY <1>2 DEF Cancel, WellTyped, StageTyped, InFlight
  <2>2. IF Owner.kind = "boostOff" /\ Restoring THEN assumed' = TRUE ELSE assumed' = assumed
    BY <2>1, RetryableFacts
  <2> QED  BY <1>1, <1>2, <2>1, <2>2, RaiseFails
<1>3. CASE ~(n = 1 /\ stage # "free")
  <2>1. /\ Over(n) /\ UNCHANGED <<stage, plan, failed, assumed, fixture>>
        /\ desired' = IF request[queue[n]].kind = "boostOff" THEN desired ELSE Anything
    BY <1>1, <1>3 DEF Cancel, Over
  <2>2. /\ (Restoring' <=> Restoring) /\ (Applying' <=> Applying)
        /\ stage # "free" => Owner' = Owner
    <3>1. stage # "free" => Owner' = Owner
      BY <1>1, <1>3, <2>1, WithoutHead DEF Over
    <3> QED  BY <2>1, <3>1 DEF Restoring, Applying
  <2>3. /\ queue[n] \in 1..MaxRequests
        /\ \A f \in Fields : Setters(f)' = Setters(f) \ {queue[n]}
    BY <2>1, OverFacts
  <2>4. ASSUME request[queue[n]].kind = "boostOff", NEW f \in Fields
        PROVE  queue[n] \notin Setters(f) /\ Setters(f)' = Setters(f)
    <3>1. queue[n] \notin Setters(f)
      BY <2>4 DEF Setters, Sets
    <3> QED  BY <2>3, <3>1
  <2>5. Book'
    BY <2>1, <2>4, OverBook
  <2>6. PlanFits'
    BY <2>1, <2>2 DEF Held, PlanFits, Restoring, Applying
  <2>7. Serves'
    BY <1>1, <2>1, <2>2 DEF Held, Serves, Restoring, Applying
  <2>8. NoBoost'
    BY <1>1, <2>1 DEF Held, NoBoost
  <2>9. AllSettled'
    <3> SUFFICES ASSUME NEW f \in Fields, Setters(f)' = {} PROVE Settled(f)'
      BY DEF AllSettled
    <3>1. CASE request[queue[n]].kind = "boostOff"
      <4>1. Settled(f)
        BY <2>4, <3>1 DEF Held, AllSettled
      <4>2. Hidden' <=> Hidden
        BY <1>1, <2>1, <2>2, <2>4, <3>1 DEF Hidden, Fields
      <4> QED  BY <1>1, <2>1, <2>2, <3>1, <4>1, <4>2 DEF Settled
    <3>2. CASE desired' = Anything
      BY <2>6, <3>2, OpenSettled
    <3> QED  BY <2>1, <3>1, <3>2
  <2> QED  BY <2>5, <2>6, <2>7, <2>8, <2>9 DEF Held
<1> QED  BY <1>2, <1>3

-------------------------------------------------------------------------------
(* An empty queue.                                                         *)

LEMMA EmptyFacts ==
  ASSUME WellTyped, Book, queue = <<>>
  PROVE  stage = "free" /\ \A f \in Fields : Setters(f) = {}
<1>1. DOMAIN queue = {}
  OBVIOUS
<1> QED  BY <1>1 DEF WellTyped, StageTyped, Book, Queued

LEMMA RestartStep ==
  ASSUME WellTyped, WellTyped', Book, Held, Restart
  PROVE  Book' /\ Held'
<1>1. /\ queue = <<>> /\ stage = "free" /\ \A f \in Fields : Setters(f) = {}
      /\ UNCHANGED <<request, queue, pending, stage, failed, fixture>>
      /\ assumed' = FALSE /\ snapshot' = NoLook /\ Visible' = NoLook
      /\ desired' = IF assumed \/ snapshot # NoLook THEN Anything ELSE desired
  BY EmptyFacts DEF Restart, ClearReports, Visible, calls, lock
<1>2. \A f \in Fields : Setters(f)' = {}
  BY <1>1 DEF Setters
<1>3. Book'
  <2>1. CASE desired' = desired
    BY <1>1, <2>1, SameBook
  <2>2. CASE desired' = Anything
    <3>1. DOMAIN queue' = {}
      BY <1>1
    <3>2. InOrder' /\ Queued' /\ Wishes' /\ Overtaken'
      BY <1>2, <3>1 DEF InOrder, Queued, Wishes, Overtaken
    <3>3. PendingWish'
      <4> SUFFICES ASSUME pending # 0, NEW f \in {"program", "level"}, request[pending][f] # Keep
                   PROVE  request[pending][f] \in Anything[f]
        BY <1>1, <2>2 DEF PendingWish
      <4>1. request[pending] \in Request
        BY DEF WellTyped, CallsTyped
      <4>2. CASE f = "program"
        BY <4>1, <4>2, RequestFacts DEF Anything
      <4>3. CASE f = "level"
        BY <4>1, <4>3, RequestFacts DEF Anything
      <4> QED  BY <4>2, <4>3
    <3>4. Chosen'
      BY <1>1 DEF Book, Chosen
    <3> QED  BY <2>2, <3>2, <3>3, <3>4, AnythingFacts DEF Book
  <2> QED  BY <1>1, <2>1, <2>2
<1>4. AllSettled'
  <2> SUFFICES ASSUME NEW f \in Fields PROVE Settled(f)'
    BY DEF AllSettled
  <2>1. fixture[f] \in desired'[f]
    <3>1. CASE assumed \/ snapshot # NoLook
      BY <1>1, <3>1, LookFields DEF WellTyped
    <3>2. CASE ~assumed /\ snapshot = NoLook
      <4>1. Settled(f) /\ ~Hidden
        BY <1>1, <3>2 DEF Held, AllSettled, Hidden, Restoring
      <4> QED  BY <1>1, <3>2, <4>1 DEF Settled
    <3> QED  BY <3>1, <3>2
  <2> QED  BY <1>1, <2>1 DEF Settled, Restoring, Applying
<1>5. NoBoost' /\ failed' = FALSE
  BY <1>1 DEF Held, Serves, NoBoost, Applying, WellTyped, StageTyped
<1> QED  BY <1>1, <1>3, <1>4, <1>5, FreeHeld

LEMMA InitHeld ==
  ASSUME Init
  PROVE  Book /\ Held
<1>1. WellTyped /\ Visible = NoLook
  BY InitTypes DEF Init, Visible
<1>2. \A id \in 1..MaxRequests : request[id] = Anyone
  BY DEF Init
<1>3. \A f \in Fields : Setters(f) = {}
  BY <1>2, AnyoneSets DEF Setters
<1>4. DOMAIN queue = {} /\ pending = 0
  BY DEF Init
<1>5. desired \in Desires /\ \A f \in Fields : fixture[f] \in desired[f]
  BY <1>1 DEF Init, WellTyped, Exactly, Look, Desires, Fields
<1>6. Chosen
  BY <1>2 DEF Chosen, Complete, Anyone
<1>7. Book
  BY <1>3, <1>4, <1>5, <1>6 DEF Book, InOrder, Queued, Wishes, PendingWish, Overtaken
<1>8. AllSettled
  BY <1>1, <1>5 DEF AllSettled, Settled, Init, Restoring, Applying
<1>9. PlanFits /\ Serves /\ NoBoost
  BY DEF Init, PlanFits, Serves, NoBoost, Restoring, Applying
<1> QED  BY <1>7, <1>8, <1>9 DEF Held

LEMMA StepHeld ==
  ASSUME WellTyped, WellTyped', OneLive, SwitchShowsSession, BoostAlone, Book, Held, [Next]_vars
  PROVE  Book' /\ Held'
<1>1. CASE Progress
  BY <1>1, BeginStep, BeginNothingStep, EnterBoostStep, LeaveBoostStep, SendStep, ConfirmStep,
     GiveWayStep, FailsStep DEF Progress
<1>2. CASE Report
  BY <1>2, ReceiveShows, ReportsStep DEF Report, modal
<1>3. CASE Disconnect
  <2>1. Visible' = NoLook
    BY <1>3 DEF Disconnect, ClearReports, Visible
  <2> QED  BY <1>3, <2>1, ReportsStep DEF Disconnect, modal
<1>4. CASE UNCHANGED vars
  <2>1. Visible' = Visible
    BY <1>4 DEF vars, reports, Visible
  <2> QED  BY <1>4, <2>1, ReportsStep DEF vars, modal
<1> QED  BY <1>1, <1>2, <1>3, <1>4, CallStep, RestartStep, CancelStep DEF Next

(* Nothing lost: for any programs, levels and number of calls, once every  *)
(* call has returned and no Boost session is open the fixture shows what   *)
(* the calls add up to, whatever was merged, superseded, cancelled, lost   *)
(* or reported late (device.py:587-625, 2198-2249).  Where Boost is used   *)
(* the other calls are the ones that close it: turning the light on and    *)
(* selecting an effect keep a snapshot without a session, and leaving an   *)
(* effect that Boost hides brings it back (device.py:1177-1186, 2287-2294).*)
THEOREM FixtureConverges == ASSUME BoostAlone PROVE Spec => []Converges
<1>1. ASSUME WellTyped, Book, Held PROVE Converges
  <2> SUFFICES ASSUME queue = <<>>, ~assumed PROVE Fits(fixture, desired)
    BY DEF Converges
  <2>1. stage = "free" /\ \A f \in Fields : Setters(f) = {}
    BY <1>1, EmptyFacts
  <2>2. ~Hidden
    BY <2>1 DEF Hidden, Restoring, Fields
  <2>3. \A f \in Fields : fixture[f] \in desired[f]
    BY <1>1, <2>1, <2>2 DEF Held, AllSettled, Settled
  <2> QED  BY <2>3 DEF Fits, Fields
<1>2. Init => WellTyped /\ OneLive /\ SwitchShowsSession /\ Book /\ Held
  <2>1. Init => OneLive
    BY AnyoneDead DEF Init, OneLive, Live
  <2>2. Init => SwitchShowsSession
    BY DEF Init, SwitchShowsSession
  <2> QED  BY <2>1, <2>2, InitTypes, InitHeld
<1>3. WellTyped /\ OneLive /\ SwitchShowsSession /\ Book /\ Held /\ [Next]_vars =>
        (WellTyped /\ OneLive /\ SwitchShowsSession /\ Book /\ Held)'
  BY StepTypes, StepLive, SwitchStep, StepHeld
<1>4. WellTyped /\ Book /\ Held => Converges
  BY <1>1
<1> QED  BY <1>2, <1>3, <1>4, PTL DEF Spec

===============================================================================
