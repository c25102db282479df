----------------------------- MODULE LightRequests -----------------------------
(***************************************************************************)
(* The light operations of one fixture (device.py, class AmaranLight):     *)
(* Home Assistant service calls queue for the operation lock, slider calls *)
(* merge and supersede one another, and Boost - a write-only modal look of *)
(* the fixture - hides the output it replaced, which the integration keeps *)
(* as a snapshot and writes back when the session closes.                  *)
(*                                                                         *)
(* Abstractions:                                                           *)
(*   - a look is a program (a colour or a built-in effect), a level and a  *)
(*     power bit; the packets that set one look are one write;             *)
(*   - "effect" stands for the legacy family; the multi-packet families    *)
(*     share its queueing, supersession and Boost handling;                *)
(*   - command 70 ON replaces the fixture's output by Glare, OFF leaves    *)
(*     whatever the fixture shows (device.py:1830-1834 restores it);       *)
(*   - MaxRequests bounds the service calls of one behaviour.              *)
(***************************************************************************)
EXTENDS Integers, Sequences

CONSTANTS
  Colors, Effects,        \* programs a user can select
  Glare,                  \* what the fixture shows while Boost is on
  Levels,                 \* intensities
  DefaultColor, DefaultLevel,
  Keep,                   \* a field a request leaves alone
  NoLook,                 \* no report, or no snapshot
  Kinds,                  \* the service calls a run explores
  MaxRequests

ASSUME DefaultAssumption == DefaultColor \in Colors /\ DefaultLevel \in Levels
ASSUME BoundAssumption == MaxRequests \in Nat

VARIABLES
  fixture,           \* the look the fixture really shows
  steady, effect,    \* _state and _effect_state: last reports, or NoLook
  boostPage,         \* _boost_state: "none", or whether it says enabled
  assumed,           \* _boost_assumed_enabled
  snapshot,          \* _boost_output_snapshot
  request, issued,   \* the service calls, and how many were made
  pending,           \* _pending_steady_request, 0 for None
  queue, stage,      \* FIFO of _operation_lock; where its head is, or "free"
  plan,              \* what the head is writing and what must be confirmed
  failed,            \* an error async_apply_turn_off raises only at the end
  closing,           \* _closing
  desired            \* looks the calls so far may leave (history)

reports == <<steady, effect, boostPage>>
modal   == <<assumed, snapshot>>
calls   == <<request, issued, pending>>
lock    == <<queue, stage, plan, failed>>
vars    == <<fixture, reports, modal, calls, lock, closing, desired>>

Steady   == Colors \cup {Glare}
Programs == Steady \cup Effects
Look     == [program : Programs, level : Levels, on : BOOLEAN]

ASSUME NamesAssumption == NoLook \notin Look /\ Keep \notin Programs \cup Levels \cup BOOLEAN

(* A write sets the fields it does not Keep; a description is the set of    *)
(* values a report may show in each field.                                 *)
Put(look, write) ==
  LET Field(old, new) == IF new = Keep THEN old ELSE new
  IN [program |-> Field(look.program, write.program), level |-> Field(look.level, write.level),
      on |-> Field(look.on, write.on)]
Fits(look, d) == look.program \in d.program /\ look.level \in d.level /\ look.on \in d.on
Anything == [program |-> Programs, level |-> Levels, on |-> BOOLEAN]
Exactly(look) == [program |-> {look.program}, level |-> {look.level}, on |-> {look.on}]

NoPlan == [write |-> NoLook, expect |-> Anything]
Owner  == request[Head(queue)]

-------------------------------------------------------------------------------
(* What the integration believes.                                          *)

Visible == IF effect # NoLook THEN effect ELSE steady
Active  == assumed \/ boostPage = "on"
BoostSession == Active \/ snapshot # NoLook
Page(enabled) == IF enabled THEN "on" ELSE "off"

(* A primary report arrives.  A steady report ends the effect; the Boost   *)
(* page is rebuilt from the assumed session, never from the fixture.       *)
Receive(look) ==
  /\ IF look.program \in Effects
     THEN effect' = look /\ UNCHANGED steady
     ELSE steady' = look /\ effect' = NoLook
  /\ boostPage' = IF boostPage = "none" THEN Page(assumed) ELSE boostPage

(* _clear_report_state                                                     *)
ClearReports == steady' = NoLook /\ effect' = NoLook /\ boostPage' = "none"

-------------------------------------------------------------------------------
(* Service calls.                                                          *)

Request == [kind : Kinds, program : Programs \cup {Keep}, level : Levels \cup {Keep},
            fallback : Levels \cup {Keep}, superseded : BOOLEAN]

Anyone == [kind |-> "none", program |-> Keep, level |-> Keep, fallback |-> Keep,
           superseded |-> FALSE]

Supersede(requests) ==
  IF pending = 0 THEN requests ELSE [requests EXCEPT ![pending].superseded = TRUE]

Enqueue(requests, r) ==
  /\ issued < MaxRequests
  /\ issued' = issued + 1
  /\ request' = [requests EXCEPT ![issued'] = r]
  /\ queue' = Append(queue, issued')
  /\ UNCHANGED <<fixture, reports, modal, stage, plan, failed, closing>>

(* Mutant: a slider call forgets what the one it supersedes asked for.      *)
MergedUnmerged(field, value) == value

(* A field the call leaves open is inherited from the pending slider call. *)
Merged(field, value) ==
  IF value = Keep /\ pending # 0 THEN request[pending][field] ELSE value

(* The looks wanted once a call's fields are set; "dropped" names a slider *)
(* call that becomes an obsolete no-op, so what it carried is open.        *)
Wanted(dropped, write) ==
  LET open(f, all) == IF dropped # 0 /\ request[dropped][f] # Keep
                      THEN all ELSE desired[f]
  IN [program |-> IF write.program # Keep THEN {write.program}
                  ELSE open("program", Programs),
      level   |-> IF write.level # Keep THEN {write.level} ELSE open("level", Levels),
      on      |-> IF write.on # Keep THEN {write.on} ELSE desired.on]

(* A slider call (brightness, colour or both) on an available light.       *)
Slide(program, level) ==
  /\ "slide" \in Kinds
  /\ Visible # NoLook
  /\ program # Keep \/ level # Keep
  /\ Enqueue(Supersede(request),
             [kind |-> "slide", program |-> Merged("program", program),
              level |-> Merged("level", level), fallback |-> Visible.level,
              superseded |-> FALSE])
  /\ pending' = issued'
  /\ desired' = Wanted(0, [program |-> program, level |-> level, on |-> TRUE])

(* A discrete light call makes every earlier slider call obsolete.         *)
Discrete(kind, program, level, on) ==
  /\ kind \in Kinds
  /\ Visible # NoLook
  /\ Enqueue(Supersede(request),
             [kind |-> kind, program |-> program, level |-> level,
              fallback |-> Visible.level, superseded |-> FALSE])
  /\ pending' = 0
  /\ desired' =
       LET w == Wanted(pending, [program |-> program, level |-> level, on |-> on])
       IN CASE kind = "effect"    -> [w EXCEPT !.level = IF level = Keep THEN Levels ELSE @]
            [] kind = "effectOff" -> [w EXCEPT !.program = Steady,
                                               !.level = IF level = Keep THEN Levels ELSE @]
            [] OTHER              -> w

TurnOn  == Discrete("on", Keep, Keep, TRUE)
TurnOff == Discrete("off", Keep, Keep, FALSE)
SelectEffect(e, level) == Discrete("effect", e, level, TRUE)
EffectOff(level) == Discrete("effectOff", Keep, level, TRUE)

(* The Boost switch and async_stop queue without invalidating anything.    *)
Plain(kind) ==
  /\ kind \in Kinds
  /\ Enqueue(request, [Anyone EXCEPT !.kind = kind])
  /\ UNCHANGED <<pending, desired>>

BoostOn  == boostPage # "none" /\ Plain("boostOn")
BoostOff == boostPage # "none" /\ Plain("boostOff")
Stop     == ~closing /\ Plain("stop")

-------------------------------------------------------------------------------
(* What the owner of the lock writes, decided when its stage begins.       *)

(* Setting the light on is a packet of its own, sent only when needed.     *)
Wake == IF effect = NoLook /\ steady # NoLook /\ steady.on THEN Keep ELSE TRUE

(* Mutant: a restore takes the brightness of the call even if it has none.  *)
RestoreLookOwnLevel(r) ==
  [program |-> snapshot.program, level |-> r.level, on |-> snapshot.on]

RestoreLook(r) ==
  LET level == IF r.kind \in {"slide", "effectOff"} /\ r.level # Keep
               THEN r.level ELSE snapshot.level
      on    == IF r.kind \in {"slide", "effectOff"} THEN TRUE
               ELSE r.kind # "off" /\ snapshot.on
  IN [program |-> snapshot.program, level |-> level, on |-> on]

RestorePlan(r) == [write |-> RestoreLook(r), expect |-> Exactly(RestoreLook(r))]

(* A colour without a brightness keeps the level from before Boost.        *)
SlideLevel(r) ==
  IF r.level # Keep THEN r.level
  ELSE IF snapshot # NoLook THEN snapshot.level ELSE r.fallback

SlidePlan(r) ==
  LET shown == [effect EXCEPT !.level = SlideLevel(r), !.on = TRUE]
  IN IF r.program # Keep
     THEN [write  |-> [program |-> r.program, level |-> SlideLevel(r), on |-> Wake],
           expect |-> [program |-> {r.program}, level |-> {SlideLevel(r)}, on |-> {TRUE}]]
     ELSE IF effect # NoLook
     THEN [write |-> shown, expect |-> Exactly(shown)]
     ELSE [write  |-> [program |-> Keep, level |-> r.level, on |-> Wake],
           expect |-> [program |-> Steady, level |-> {r.level}, on |-> {TRUE}]]

OnPlan ==
  LET power == IF Visible # NoLook /\ Visible.on THEN Keep ELSE TRUE
  IN [write  |-> [program |-> Keep, level |-> Keep, on |-> power],
      expect |-> IF effect # NoLook THEN Exactly([effect EXCEPT !.on = TRUE])
                 ELSE [program |-> Steady, level |-> Levels, on |-> {TRUE}]]

OffPlan ==
  [write  |-> [program |-> Keep, level |-> Keep, on |-> FALSE],
   expect |-> [Anything EXCEPT !.on = {FALSE}]]

EffectPlan(r) ==
  LET level == IF r.level # Keep THEN r.level
               ELSE IF Visible # NoLook THEN Visible.level ELSE DefaultLevel
      look == [program |-> r.program, level |-> level, on |-> TRUE]
  IN [write |-> look, expect |-> Exactly(look)]

(* _async_exit_effect: back to the last steady look, or to a default one.  *)
ExitEffectPlan(r) ==
  LET level == IF r.level # Keep THEN r.level
               ELSE IF steady # NoLook THEN steady.level
               ELSE IF effect # NoLook THEN effect.level ELSE Keep
      program == IF steady # NoLook THEN steady.program
                 ELSE IF effect # NoLook THEN DefaultColor ELSE Keep
  IN [write  |-> [program |-> program, level |-> level, on |-> Wake],
      expect |-> [program |-> Steady, on |-> {TRUE},
                  level |-> IF level = Keep THEN Levels ELSE {level}]]

ApplyPlan(r) ==
  CASE r.kind = "slide"     -> SlidePlan(r)
    [] r.kind = "on"        -> OnPlan
    [] r.kind = "off"       -> OffPlan
    [] r.kind = "effect"    -> EffectPlan(r)
    [] r.kind = "effectOff" -> ExitEffectPlan(r)

-------------------------------------------------------------------------------
(* Progress of the owner.                                                  *)

GoTo(where, what) ==
  stage' = where /\ plan' = what /\ UNCHANGED <<queue, calls, closing>>

(* Mutant: the finally clause that forgets the pending request is missing.  *)
ReleaseStillPending ==
  /\ queue' = Tail(queue)
  /\ stage' = "free" /\ plan' = NoPlan /\ failed' = FALSE
  /\ request' = [request EXCEPT ![Head(queue)] = Anyone]
  /\ UNCHANGED <<issued, pending>>
  /\ closing' = (closing \/ Owner.kind = "stop")

(* The call returns or raises, and its async with releases the lock.       *)
Release ==
  /\ queue' = Tail(queue)
  /\ stage' = "free" /\ plan' = NoPlan /\ failed' = FALSE
  /\ request' = [request EXCEPT ![Head(queue)] = Anyone]
  /\ pending' = IF pending = Head(queue) THEN 0 ELSE pending
  /\ UNCHANGED issued
  /\ closing' = (closing \/ Owner.kind = "stop")

Superseded == Owner.kind = "slide" /\ Owner.superseded

(* What an error leaves behind is open, except that a Boost session whose  *)
(* restore failed stays open for a retry.                                  *)
Raise ==
  /\ Release
  /\ desired' = IF Owner.kind = "boostOff" THEN desired ELSE Anything

NeedsExit(r) ==
  \/ r.kind = "boostOff"
  \/ r.kind \in {"slide", "off", "stop"} /\ BoostSession
  \/ r.kind = "effect" /\ Active
  \/ r.kind = "effectOff" /\ BoostSession

Restores(r) ==
  /\ snapshot # NoLook
  /\ \/ r.kind \in {"boostOff", "off", "effectOff", "stop"}
     \/ r.kind = "slide" /\ r.program = Keep

HasApply(r) == r.kind \in {"slide", "on", "off", "effect", "effectOff"}

(* The head of the queue takes the lock.  An open brightness is resolved   *)
(* only now; after a disconnection the call's own, possibly old, one is    *)
(* used, so nothing is claimed about it.                                   *)
Begin ==
  /\ stage = "free" /\ queue # <<>>
  /\ ~closing /\ ~Superseded
  /\ LET r == [Owner EXCEPT !.fallback = IF Visible # NoLook THEN Visible.level ELSE @]
     IN /\ request' = [request EXCEPT ![Head(queue)] = r]
        /\ \/ /\ r.kind = "boostOn"
              /\ stage' = "enter" /\ plan' = NoPlan
           \/ /\ NeedsExit(r)
              /\ stage' = "exit" /\ plan' = NoPlan
           \/ /\ HasApply(r) /\ ~NeedsExit(r)
              /\ stage' = "applying" /\ plan' = ApplyPlan(r)
        /\ desired' = IF r.kind = "slide" /\ r.level = Keep /\ Visible = NoLook
                      THEN [desired EXCEPT !.level = Levels]
                      ELSE desired
  /\ UNCHANGED <<fixture, reports, modal, issued, pending, queue, failed, closing>>

(* A superseded slider call returns without touching the fixture; a closed *)
(* runtime refuses every send; async_stop has nothing to restore without a *)
(* session or a connection.                                                *)
BeginNothing ==
  /\ stage = "free" /\ queue # <<>>
  /\ \/ Superseded /\ Release /\ UNCHANGED desired
     \/ ~Superseded /\ closing /\ Raise
     \/ /\ ~closing /\ Owner.kind = "stop"
        /\ ~BoostSession \/ Visible = NoLook
        /\ Release
        /\ desired' = IF BoostSession THEN Anything ELSE desired
  /\ UNCHANGED <<fixture, reports, modal>>

(* The write under way may or may not reach the fixture.                   *)
InFlight ==
  {fixture} \cup
  CASE stage = "enter" -> {[fixture EXCEPT !.program = Glare, !.on = TRUE]}
    [] stage \in {"restoring", "applying"} -> {Put(fixture, plan.write)}
    [] OTHER -> {}

(* Mutant: every successful ON captures the output again.                   *)
EnterBoostRecapture ==
  /\ stage = "enter"
  /\ fixture' \in InFlight
  /\ snapshot' = Visible
  /\ assumed' = TRUE /\ boostPage' = "on"
  /\ Release
  /\ desired' = IF snapshot' = NoLook \/ (~Active /\ snapshot \notin {NoLook, snapshot'})
                THEN Anything ELSE desired
  /\ UNCHANGED <<steady, effect>>

(* Boost goes on; only an entry from outside a session captures the output *)
(* it hides.  One made while an earlier output is still to be restored     *)
(* replaces it by whatever is shown then, so nothing is claimed afterwards.*)
EnterBoost ==
  /\ stage = "enter"
  /\ fixture' \in InFlight
  /\ snapshot' = IF Active THEN snapshot ELSE Visible
  /\ assumed' = TRUE /\ boostPage' = "on"
  /\ Release
  /\ desired' = IF snapshot' = NoLook \/ (~Active /\ snapshot \notin {NoLook, snapshot'})
                THEN Anything ELSE desired
  /\ UNCHANGED <<steady, effect>>

(* Boost goes off, and the owner continues with what it came for.          *)
LeaveBoost ==
  /\ stage = "exit"
  /\ assumed' = FALSE /\ boostPage' = "off"
  /\ snapshot' = IF Owner.kind = "effect" THEN NoLook
                 ELSE IF Owner.kind = "stop" /\ ~Restores(Owner) THEN NoLook ELSE snapshot
  /\ \/ Superseded /\ Release
     \/ ~Superseded /\ Restores(Owner) /\ GoTo("restoring", RestorePlan(Owner)) /\ UNCHANGED failed
     \/ /\ ~Superseded /\ ~Restores(Owner) /\ HasApply(Owner)
        /\ GoTo("applying", ApplyPlan(Owner)) /\ UNCHANGED failed
     \/ ~Restores(Owner) /\ ~HasApply(Owner) /\ Release
  /\ UNCHANGED <<fixture, steady, effect, desired>>

(* Mutant: only the page is marked, not the assumed session.                *)
KeepRetryablePageOnly(page) ==
  IF Owner.kind = "boostOff" /\ stage \in {"restoring", "checkingRestore"}
  THEN UNCHANGED assumed /\ boostPage' \in {"on"} \cup ({page} \cap {"none"})
  ELSE UNCHANGED assumed /\ boostPage' = page

(* async_set_boost(False) marks its unfinished restore as an open session; *)
(* the page is the one it found, or the one there is now.                  *)
KeepRetryable(page) ==
  IF Owner.kind = "boostOff" /\ stage \in {"restoring", "checkingRestore"}
  THEN assumed' = TRUE /\ boostPage' \in {"on"} \cup ({page} \cap {"none"})
  ELSE UNCHANGED assumed /\ boostPage' = page

(* The restored or requested look is sent; the mesh may still lose it.     *)
Send ==
  /\ stage \in {"restoring", "applying"}
  /\ fixture' \in InFlight
  /\ IF stage = "applying" /\ Superseded
     THEN Release
     ELSE /\ GoTo(IF stage = "restoring" THEN "checkingRestore" ELSE "checking", plan)
          /\ UNCHANGED failed
  /\ UNCHANGED <<reports, modal, desired>>

(* Mutant: the snapshot is spent by the attempt to restore it.              *)
FailsSpent ==
  IF Owner.kind = "off" /\ stage \notin {"applying", "checking"}
  THEN /\ GoTo("applying", OffPlan)
       /\ failed' = TRUE
       /\ snapshot' = NoLook
       /\ UNCHANGED desired
  ELSE /\ Raise
       /\ snapshot' = NoLook

(* A write or a confirmation fails.  OFF goes on to cut the power; stop    *)
(* discards the snapshot; everything else raises.                          *)
Fails ==
  IF Owner.kind = "off" /\ stage \notin {"applying", "checking"}
  THEN /\ GoTo("applying", OffPlan)
       /\ failed' = TRUE
       /\ UNCHANGED <<desired, snapshot>>
  ELSE /\ Raise
       /\ snapshot' = IF Owner.kind = "stop" THEN NoLook ELSE snapshot

(* A failed write may take the link, and with it every report, down.       *)
SendFails ==
  /\ stage \in {"enter", "exit", "restoring", "applying"}
  /\ fixture' \in InFlight
  /\ \/ UNCHANGED <<steady, effect>> /\ KeepRetryable(boostPage)
     \/ steady' = NoLook /\ effect' = NoLook /\ KeepRetryable("none")
  /\ Fails

(* A fresh report shows what the owner asked for.                          *)
Confirm ==
  /\ stage \in {"checkingRestore", "checking"}
  /\ ~Superseded
  /\ Fits(fixture, plan.expect)
  /\ Receive(fixture)
  /\ snapshot' = IF stage = "checkingRestore" \/ Owner.kind = "slide"
                 THEN NoLook ELSE snapshot
  /\ IF stage = "checkingRestore" /\ Owner.kind = "off"
     THEN GoTo("applying", OffPlan) /\ UNCHANGED <<failed, desired>>
     ELSE IF failed THEN Raise
     ELSE Release /\ UNCHANGED desired
  /\ UNCHANGED <<fixture, assumed>>

(* The reports disagree, or none arrives in time.                          *)
Unconfirmed ==
  /\ stage \in {"checkingRestore", "checking"}
  /\ ~Superseded
  /\ KeepRetryable(boostPage)
  /\ Fails
  /\ UNCHANGED <<fixture, steady, effect>>

(* Mutant: the wait for a report does not notice supersession.              *)
GiveWayNever == FALSE /\ UNCHANGED vars

(* A superseded slider call stops waiting and returns without an error.    *)
GiveWay ==
  /\ stage \in {"checkingRestore", "checking"}
  /\ Superseded
  /\ Release
  /\ UNCHANGED <<fixture, reports, modal, desired>>

-------------------------------------------------------------------------------
(* The environment.                                                        *)

(* A status report: a late answer, a poll, the first one after a connect.  *)
Report ==
  /\ ~closing
  /\ Receive(fixture)
  /\ UNCHANGED <<fixture, modal, calls, lock, closing, desired>>

Disconnect ==
  /\ ClearReports
  /\ UNCHANGED <<fixture, modal, calls, lock, closing, desired>>

(* The queue without the call at position n.                               *)
Without(n) == [i \in 1..Len(queue) - 1 |-> IF i < n THEN queue[i] ELSE queue[i + 1]]

(* Home Assistant cancels the call at position n of the queue.             *)
Cancel(n) ==
  /\ n \in DOMAIN queue /\ request[queue[n]].kind # "stop"
  /\ IF n = 1 /\ stage # "free"
     THEN Raise /\ KeepRetryable(boostPage) /\ fixture' \in InFlight
     ELSE /\ queue' = Without(n)
          /\ request' = [request EXCEPT ![queue[n]] = Anyone]
          /\ pending' = IF pending = queue[n] THEN 0 ELSE pending
          /\ desired' = IF request[queue[n]].kind = "boostOff" THEN desired ELSE Anything
          /\ UNCHANGED <<issued, stage, plan, failed, closing, assumed, boostPage,
                         fixture>>
  /\ UNCHANGED <<steady, effect, snapshot>>

(* The config entry is set up again: a new object, with nothing remembered.*)
Restart ==
  /\ closing /\ queue = <<>>
  /\ closing' = FALSE
  /\ ClearReports
  /\ assumed' = FALSE /\ snapshot' = NoLook
  /\ desired' = IF assumed \/ snapshot # NoLook THEN Anything ELSE desired
  /\ UNCHANGED <<fixture, calls, lock>>

-------------------------------------------------------------------------------
Init ==
  /\ fixture \in [program : Programs \ {Glare}, level : Levels, on : BOOLEAN]
  /\ steady = NoLook /\ effect = NoLook /\ boostPage = "none"
  /\ assumed = FALSE /\ snapshot = NoLook
  /\ request = [id \in 1..MaxRequests |-> Anyone] /\ issued = 0 /\ pending = 0
  /\ queue = <<>> /\ stage = "free" /\ plan = NoPlan /\ failed = FALSE
  /\ closing = FALSE
  /\ desired = Exactly(fixture)

Call ==
  \/ \E program \in Colors \cup {Keep}, level \in Levels \cup {Keep} : Slide(program, level)
  \/ TurnOn \/ TurnOff
  \/ \E e \in Effects, level \in Levels \cup {Keep} : SelectEffect(e, level)
  \/ \E level \in Levels \cup {Keep} : EffectOff(level)
  \/ BoostOn \/ BoostOff \/ Stop

Progress ==
  \/ Begin \/ BeginNothing \/ EnterBoost \/ LeaveBoost \/ Send
  \/ Confirm \/ GiveWay \/ SendFails \/ Unconfirmed

Next ==
  \/ Call \/ Progress \/ Report \/ Disconnect \/ Restart
  \/ \E n \in 1..MaxRequests : Cancel(n)

Spec == Init /\ [][Next]_vars /\ WF_vars(Progress)
-------------------------------------------------------------------------------
(* Properties.                                                             *)

(* Every variable keeps its type, and what is restored is a complete look: *)
(* a restore never leaves a field of Boost's look behind                   *)
(* (device.py:1829-1970).                                                  *)
TypeOK ==
  /\ fixture \in Look
  /\ steady \in Look \cup {NoLook} /\ effect \in Look \cup {NoLook}
  /\ boostPage \in {"none", "on", "off"}
  /\ assumed \in BOOLEAN /\ snapshot \in Look \cup {NoLook}
  /\ request \in [1..MaxRequests -> Request \cup {Anyone}]
  /\ issued \in 0..MaxRequests /\ pending \in 0..issued
  /\ \A n \in DOMAIN queue : queue[n] \in 1..issued
  /\ stage \in {"restoring", "checkingRestore"} => plan.write \in Look
  /\ failed \in BOOLEAN /\ closing \in BOOLEAN

(* When every call has returned, the fixture shows what the calls, taken   *)
(* in the order they were made, add up to: nothing a superseded slider     *)
(* call asked for is lost to the call that took over, and no older call or *)
(* snapshot overwrites a newer wish.  An error leaves the fields open it   *)
(* may have touched; an open Boost session hides the output               *)
(* (device.py:587-625, 2198-2249).                                         *)
Converges == queue = <<>> /\ ~assumed => Fits(fixture, desired)

(* The pending request is exactly the slider call that is still wanted:    *)
(* nothing superseded, returned or cancelled is merged into a later call,  *)
(* and two live slider calls never run one after the other                 *)
(* (device.py:609-618, 2239-2249).                                         *)
PendingIsTheLiveSlider ==
  LET live == {id \in 1..MaxRequests : request[id].kind = "slide" /\ ~request[id].superseded}
  IN live = {pending} \ {0}

(* The Boost switch, once it shows anything, shows the session Home        *)
(* Assistant opened: neither a reconnect nor a report nor a failed restore *)
(* separates the page from the assumed state (device.py:2018-2024,         *)
(* 3205-3215, 3296-3303).                                                  *)
SwitchShowsSession == boostPage # "none" => (boostPage = "on" <=> assumed)

(* The snapshot is given up only when its look is back on the fixture, a   *)
(* newly requested look has replaced it, or the runtime ends; a restore    *)
(* that was not confirmed keeps it.  Two calls are exempt: entering Boost  *)
(* again after a failed restore captures the look shown then, and          *)
(* selecting an effect abandons the old look before the effect is          *)
(* confirmed (device.py:1966-2026, 2287-2294, 2433, 2462-2483).            *)
SnapshotDischarged ==
  [][snapshot # NoLook /\ snapshot' = NoLook =>
       \/ queue # <<>> /\ fixture'.program \in {snapshot.program, Owner.program}
       \/ queue # <<>> /\ Owner.kind \in {"stop", "boostOn", "effect"}
       \/ closing]_vars

(* Every call returns: the operation lock is always released again,        *)
(* whatever fails, is cancelled or superseded (device.py:2198-2249).       *)
CallsReturn == []<>(queue = <<>>)

(* A claim of the repository that the code does not keep.                  *)

(* tests/test_ha_device.py:3740: "A new primary request supersedes, rather *)
(* than briefly restoring, old CCT."  After a confirmed effect selection   *)
(* no snapshot taken before it may be left to restore.                     *)
EffectSupersedesSnapshot ==
  [][Confirm /\ Owner.kind = "effect" => snapshot' = NoLook]_vars
===============================================================================
