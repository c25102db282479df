-------------------------- MODULE ConnectionLifecycle --------------------------
(***************************************************************************)
(* The BLE link of one fixture (device.py, class AmaranLight): the first   *)
(* connection of async_start, the reconnect loop, the poll loop, service   *)
(* calls and async_stop, which share an operation lock and a connect lock. *)
(*                                                                         *)
(* Abstractions:                                                           *)
(*   - a proxy client is named by the BLE client it was built on, so       *)
(*     _proxy and _client range over the same ids; an id is used again     *)
(*     once nothing refers to the old link;                                *)
(*   - one message stands for the messages of an operation, a poll or the  *)
(*     refresh that follows a connection;                                  *)
(*   - what a task does after its last await is a step of its own, taken   *)
(*     before it leaves the operation lock;                                *)
(*   - delays have no length;                                              *)
(*   - issue is the factory-reset issue of the registry, whose calls do    *)
(*     not fail;                                                           *)
(*   - MaxCandidates bounds the routes of one attempt, MaxMishaps what the *)
(*     radio and the fixture do wrong, MaxMissed is MAX_MISSED_POLLS.      *)
(***************************************************************************)
EXTENDS Naturals, Sequences, Functions

CONSTANTS Client, Calls, None, Earlier, MaxCandidates, MaxMissed, MaxMishaps

ASSUME BoundsAssumption ==
  MaxMissed \in Nat \ {0} /\ {MaxCandidates, MaxMishaps} \subseteq Nat
ASSUME NamesAssumption ==
  /\ Calls \cap {"start", "loop", "poll", "stop"} = {}
  /\ None \notin Client \cup Calls \cup {"start", "loop", "poll", "stop"}

VARIABLES
  bearer,        \* "mesh", "reset" (only the provisioning service) or "gone"
  link,          \* per client: "up", "down" (callback to come) or "free"
  client, proxy, \* _client and _proxy
  page,          \* client whose report the pages hold, None for no report,
                 \* Earlier once a newer link was established
  pc, local,     \* where each task is, and the client or proxy it holds
  refreshing,    \* tasks in the refresh after a connection: it swallows errors
  queue,         \* FIFO of _operation_lock, owner first
  connecting,    \* owner of _connect_lock
  left,          \* routes _async_connect has yet to try
  closing, missed, cleanup,          \* _closing, _missed_polls, _proxy_cleanup_tasks
  notReported, provReported, issue,  \* membership episode
  life,          \* the entry: "off", "starting", "running" or "stopping"
  mishaps

ends    == <<bearer, link>>
session == <<client, proxy, page>>
tasks   == <<pc, local, refreshing>>
locks   == <<queue, connecting, left>>
member  == <<notReported, provReported, issue>>
vars == <<ends, session, tasks, locks, closing, missed, cleanup, member, life, mishaps>>

Tasks  == {"start", "loop", "poll", "stop"} \cup Calls
Places == {"idle", "sleep", "queued", "send", "sending", "sent", "raised",
           "lock", "establish", "starting", "unwinding", "discarding", "connected",
           "dropping", "gather", "disconnecting", "cleanup"}

(* Frames that hold an open client of their own.                           *)
Holding == {"starting", "unwinding", "discarding", "dropping", "disconnecting"}
Held    == {local[t] : t \in {u \in Tasks : pc[u] \in Holding}}
Owns(t) == queue # <<>> /\ Head(queue) = t

Mishap == mishaps < MaxMishaps /\ mishaps' = mishaps + 1
At(t, place) == pc' = [pc EXCEPT ![t] = place]

-------------------------------------------------------------------------------
(* Helpers of the code.                                                    *)

(* Mutant: a runtime that is closing is not looked for.                     *)
ScheduledClosing(places) ==
  IF places["loop"] # "idle" THEN places ELSE [places EXCEPT !["loop"] = "sleep"]

(* _schedule_reconnect                                                     *)
Scheduled(places) ==
  IF closing \/ places["loop"] # "idle" THEN places
  ELSE [places EXCEPT !["loop"] = "sleep"]

(* _close_client: its own callback comes while it waits and is ignored, one *)
(* of a link that broke before may still come.                             *)
Closed(c) == link' = [link EXCEPT ![c] = IF @ = "up" THEN "free" ELSE @]

(* _proxy, _client and every report page at once                           *)
ClearSession == client' = None /\ proxy' = None /\ page' = None

NotifyNotProvisioned ==
  IF notReported THEN UNCHANGED member
  ELSE notReported' = TRUE /\ provReported' = FALSE /\ issue' = TRUE

(* Mutant: recovery does not end the episode of lost membership.            *)
NotifyProvisionedKeeps ==
  IF provReported THEN UNCHANGED member
  ELSE provReported' = TRUE /\ issue' = FALSE /\ UNCHANGED notReported

NotifyProvisioned ==
  IF provReported THEN UNCHANGED member
  ELSE provReported' = TRUE /\ notReported' = FALSE /\ issue' = FALSE

(* Mutant: an operation that raises keeps the operation lock.               *)
UnlockOnSuccess(t) ==
  queue' = IF Owns(t) /\ pc[t] # "raised" THEN Tail(queue) ELSE queue

(* A task leaves the operation lock.                                        *)
Unlock(t) == queue' = IF Owns(t) THEN Tail(queue) ELSE queue

(* The waiters without a cancelled one.                                     *)
Without(waiters, t) ==
  IF \A i \in DOMAIN waiters : waiters[i] # t THEN waiters
  ELSE LET n == CHOOSE i \in DOMAIN waiters : waiters[i] = t
       IN [i \in 1..(Len(waiters) - 1) |-> waiters[IF i < n THEN i ELSE i + 1]]

-------------------------------------------------------------------------------
(* The entry, service calls and the two loops.                             *)

(* async_setup_entry: a fresh runtime makes its first connection; callbacks  *)
(* of earlier links go to the runtime that is gone.                        *)
Setup ==
  /\ life = "off" /\ \A t \in Tasks : pc[t] = "idle"
  /\ life' = "starting" /\ At("start", "lock")
  /\ closing' = FALSE /\ missed' = 0
  /\ notReported' = FALSE /\ provReported' = FALSE
  /\ link' = [c \in Client |-> "free"]
  /\ UNCHANGED <<bearer, session, local, refreshing, locks, cleanup, issue, mishaps>>

(* async_start returns, or raises and the entry stops the runtime.          *)
StartEnds ==
  /\ "start" \notin refreshing
  /\ \/ /\ pc["start"] = "connected"
        /\ life' = "running" /\ UNCHANGED queue
        /\ pc' = [pc EXCEPT !["start"] = "idle", !["poll"] = "sleep"]
     \/ /\ pc["start"] = "raised"
        /\ life' = "stopping" /\ queue' = Append(queue, "stop")
        /\ pc' = [pc EXCEPT !["start"] = "idle", !["stop"] = "queued"]
  /\ UNCHANGED <<ends, session, local, refreshing, connecting, left, closing, missed,
                 cleanup, member, mishaps>>

Enter(t) ==
  /\ queue' = Append(queue, t) /\ At(t, "queued")
  /\ UNCHANGED <<ends, session, local, refreshing, connecting, left, closing, missed,
                 cleanup, member, mishaps>>

Unload   == life = "running" /\ life' = "stopping" /\ Enter("stop")
Call(t)  == life \in {"running", "stopping"} /\ pc[t] = "idle" /\ Enter(t) /\ UNCHANGED life
WakeLoop == pc["loop"] = "sleep" /\ Enter("loop") /\ UNCHANGED life

(* The poll loop without a proxy only sees to it that somebody reconnects.  *)
WakePoll ==
  /\ pc["poll"] = "sleep" /\ UNCHANGED life
  /\ \/ proxy # None /\ Enter("poll")
     \/ /\ proxy = None /\ pc' = Scheduled(pc)
        /\ UNCHANGED <<ends, session, local, refreshing, locks, closing, missed,
                       cleanup, member, mishaps>>

(* The operation lock is granted.  async_stop sends only to close Boost.    *)
Granted(t) ==
  /\ pc[t] = "queued" /\ Owns(t)
  /\ \/ t = "loop" /\ At(t, "lock")
     \/ t \in Calls \cup {"poll"} /\ At(t, "send")
     \/ t = "stop" /\ proxy # None /\ At(t, "send")
     \/ t = "stop" /\ At(t, "sent")
  /\ UNCHANGED <<ends, session, local, refreshing, locks, closing, missed, cleanup,
                 member, life, mishaps>>

(* The reconnect loop after an attempt, however it ended.                   *)
LoopNext ==
  /\ pc["loop"] \in {"connected", "raised"} /\ "loop" \notin refreshing
  /\ At("loop", IF proxy = None THEN "sleep" ELSE "idle") /\ Unlock("loop")
  /\ UNCHANGED <<ends, session, local, refreshing, connecting, left, closing, missed,
                 cleanup, member, life, mishaps>>

CallEnds(t) ==
  /\ t \in Calls \ refreshing /\ pc[t] \in {"sent", "raised"}
  /\ At(t, "idle") /\ Unlock(t)
  /\ UNCHANGED <<ends, session, local, refreshing, connecting, left, closing, missed,
                 cleanup, member, life, mishaps>>

(* The fixture is there to answer on the installed link.                    *)
Answers == bearer = "mesh" /\ proxy # None /\ link[proxy] = "up"

(* A poll was answered, or one more was missed; too many drop the link.     *)
PollEnds ==
  /\ pc["poll"] \in {"sent", "raised"} /\ "poll" \notin refreshing
  /\ Unlock("poll")
  /\ \/ /\ pc["poll"] = "sent" /\ page # None
        /\ missed' = 0 /\ At("poll", "sleep")
        /\ UNCHANGED <<session, local, mishaps>>
     \/ /\ IF pc["poll"] = "sent" /\ Answers THEN Mishap ELSE UNCHANGED mishaps
        /\ IF missed + 1 < MaxMissed \/ proxy = None
           THEN /\ missed' = IF missed < MaxMissed THEN missed + 1 ELSE missed
                /\ At("poll", "sleep") /\ UNCHANGED <<session, local>>
           ELSE /\ missed' = 0 /\ ClearSession
                /\ At("poll", "dropping") /\ local' = [local EXCEPT !["poll"] = proxy]
  /\ UNCHANGED <<ends, refreshing, connecting, left, closing, cleanup, member, life>>

-------------------------------------------------------------------------------
(* _async_send.                                                            *)

(* A message waits for the connection that was just made for it.            *)
Resumes(t) == pc[t] = "connected" /\ t \in Calls \cup {"poll", "stop"} \cup refreshing

BeginSend(t) ==
  /\ \/ /\ pc[t] = "send" /\ closing
        /\ At(t, "raised") /\ UNCHANGED local
     \/ /\ pc[t] = "send" /\ ~closing /\ proxy = None
        /\ At(t, "lock") /\ UNCHANGED local
     \/ /\ Resumes(t) /\ proxy = None
        /\ At(t, "raised") /\ UNCHANGED local
     \/ /\ Resumes(t) \/ (pc[t] = "send" /\ ~closing)
        /\ proxy # None
        /\ At(t, "sending") /\ local' = [local EXCEPT ![t] = proxy]
  /\ UNCHANGED <<ends, session, refreshing, locks, closing, missed, cleanup, member,
                 life, mishaps>>

SendOk(t) ==
  /\ pc[t] = "sending" /\ link[local[t]] = "up"
  /\ At(t, "sent") /\ local' = [local EXCEPT ![t] = None]
  /\ UNCHANGED <<ends, session, refreshing, locks, closing, missed, cleanup, member,
                 life, mishaps>>

(* Mutant: the failed link is not compared with the current one.            *)
SendFailsAny(t) ==
  /\ pc[t] = "sending"
  /\ IF link[local[t]] = "up" THEN Mishap ELSE UNCHANGED mishaps
  /\ ClearSession /\ missed' = 0 /\ At(t, "dropping") /\ UNCHANGED local
  /\ UNCHANGED <<ends, refreshing, locks, closing, cleanup, member, life>>

(* A write fails: _async_drop_failed_connection, unless another task or the *)
(* disconnect callback already dropped that link.                          *)
SendFails(t) ==
  /\ pc[t] = "sending"
  /\ IF link[local[t]] = "up" THEN Mishap ELSE UNCHANGED mishaps
  /\ IF proxy = local[t]
     THEN ClearSession /\ missed' = 0 /\ At(t, "dropping") /\ UNCHANGED local
     ELSE /\ At(t, "raised") /\ local' = [local EXCEPT ![t] = None]
          /\ UNCHANGED <<session, missed>>
  /\ UNCHANGED <<ends, refreshing, locks, closing, cleanup, member, life>>

(* The dropped proxy has stopped: close its client and reconnect.  A poll   *)
(* that dropped the link did so outside the operation lock.                 *)
Dropped(t) ==
  /\ pc[t] = "dropping" /\ Closed(local[t])
  /\ local' = [local EXCEPT ![t] = None]
  /\ pc' = Scheduled([pc EXCEPT ![t] = IF t = "poll" /\ ~Owns(t)
                                       THEN IF closing THEN "idle" ELSE "sleep"
                                       ELSE "raised"])
  /\ UNCHANGED <<bearer, session, refreshing, locks, closing, missed, cleanup, member,
                 life, mishaps>>

(* A refresh swallows its errors; the message that needed the connection    *)
(* follows.                                                                *)
Refreshed(t) ==
  /\ t \in refreshing /\ pc[t] \in {"sent", "raised"}
  /\ refreshing' = refreshing \ {t} /\ At(t, "connected")
  /\ UNCHANGED <<ends, session, local, locks, closing, missed, cleanup, member, life,
                 mishaps>>

-------------------------------------------------------------------------------
(* _async_connect.                                                         *)

Raise(t) == At(t, "raised") /\ connecting' = None /\ left' = 0

(* The next route, or no more: only unloading ends the attempt early.       *)
TryNext(t) ==
  IF left = 0 \/ closing THEN Raise(t)
  ELSE At(t, "establish") /\ left' = left - 1 /\ UNCHANGED connecting

Acquire(t) ==
  /\ pc[t] = "lock" /\ connecting = None
  /\ \/ /\ closing \/ proxy # None
        /\ At(t, IF closing THEN "raised" ELSE "connected")
        /\ UNCHANGED <<connecting, left, mishaps>>
     \/ /\ ~closing /\ proxy = None
        /\ \/ /\ \E n \in 1..MaxCandidates : left' = n - 1
              /\ At(t, "establish") /\ connecting' = t /\ UNCHANGED mishaps
           \/ /\ IF bearer = "gone" THEN UNCHANGED mishaps ELSE Mishap
              /\ At(t, "raised") /\ UNCHANGED <<connecting, left>>
  /\ UNCHANGED <<ends, session, local, refreshing, queue, closing, missed, cleanup,
                 member, life>>

Unused(c) ==
  /\ link[c] = "free" /\ c \notin cleanup \cup {client, proxy}
  /\ \A t \in Tasks : local[t] # c

(* A route answers: its client is _client before anything can fail.         *)
Establish(t) ==
  /\ pc[t] = "establish" /\ bearer = "mesh" /\ \E d \in Client : Unused(d)
  /\ LET c == CHOOSE d \in Client : Unused(d)
     IN IF closing
        THEN Raise(t) /\ UNCHANGED <<link, client, page, local>>
        ELSE /\ page' = IF page = None THEN None ELSE Earlier
             /\ link' = [link EXCEPT ![c] = "up"] /\ client' = c
             /\ local' = [local EXCEPT ![t] = c] /\ At(t, "starting")
             /\ UNCHANGED <<connecting, left>>
  /\ UNCHANGED <<bearer, proxy, refreshing, queue, closing, missed, cleanup,
                 member, life, mishaps>>

(* Fresh GATT services show the provisioning bearer only.                   *)
EstablishReset(t) ==
  /\ pc[t] = "establish" /\ bearer = "reset"
  /\ Raise(t)
  /\ IF closing THEN UNCHANGED member ELSE NotifyNotProvisioned
  /\ UNCHANGED <<ends, session, local, refreshing, queue, closing, missed, cleanup,
                 life, mishaps>>

EstablishFails(t) ==
  /\ pc[t] = "establish"
  /\ IF bearer = "gone" THEN UNCHANGED mishaps ELSE Mishap
  /\ TryNext(t)
  /\ UNCHANGED <<ends, session, local, refreshing, queue, closing, missed, cleanup,
                 member, life>>

(* Mutant: the proxy is installed without looking at what happened while    *)
(* its notifications and filter were set up.                               *)
InstallUnchecked(t) ==
  /\ pc[t] = "starting"
  /\ proxy' = local[t] /\ missed' = 0 /\ connecting' = None /\ left' = 0
  /\ refreshing' = refreshing \cup {t}
  /\ pc' = [pc EXCEPT ![t] = "send"] /\ local' = [local EXCEPT ![t] = None]
  /\ UNCHANGED <<ends, client, page, queue, closing, cleanup, member, life, mishaps>>

(* proxy.start returned and nothing happened meanwhile.                     *)
Install(t) ==
  /\ pc[t] = "starting"
  /\ ~closing /\ client = local[t] /\ link[local[t]] = "up"
  /\ proxy' = local[t] /\ missed' = 0 /\ connecting' = None /\ left' = 0
  /\ refreshing' = refreshing \cup {t}
  /\ pc' = [pc EXCEPT ![t] = "send"] /\ local' = [local EXCEPT ![t] = None]
  /\ UNCHANGED <<ends, client, page, queue, closing, cleanup, member, life, mishaps>>

(* It returned, but the link is gone or the runtime closing.                *)
Discard(t) ==
  /\ pc[t] = "starting"
  /\ closing \/ client # local[t] \/ link[local[t]] # "up"
  /\ At(t, "discarding")
  /\ UNCHANGED <<ends, session, local, refreshing, locks, closing, missed, cleanup,
                 member, life, mishaps>>

(* It raised: the client is given up before the proxy is stopped.           *)
StartFails(t) ==
  /\ pc[t] = "starting"
  /\ IF link[local[t]] = "up" THEN Mishap ELSE UNCHANGED mishaps
  /\ client' = (IF client = local[t] THEN None ELSE client)
  /\ At(t, "unwinding")
  /\ UNCHANGED <<ends, proxy, page, local, refreshing, locks, closing, missed, cleanup,
                 member, life>>

(* The unfinished proxy has stopped: close its client, try the next route.  *)
Unwound(t) ==
  /\ pc[t] \in {"unwinding", "discarding"}
  /\ client' = (IF pc[t] = "discarding" /\ client = local[t] THEN None ELSE client)
  /\ Closed(local[t]) /\ local' = [local EXCEPT ![t] = None]
  /\ TryNext(t)
  /\ UNCHANGED <<bearer, proxy, page, refreshing, queue, closing, missed, cleanup,
                 member, life, mishaps>>

-------------------------------------------------------------------------------
(* async_stop.                                                             *)

(* Mutant: the cancelled loops keep their places before the operation lock. *)
BeginStopQueued ==
  /\ pc["stop"] \in {"sent", "raised"} /\ "stop" \notin refreshing
  /\ closing' = TRUE
  /\ pc' = [pc EXCEPT !["stop"] = "gather", !["loop"] = "idle",
                      !["poll"] = IF @ = "dropping" THEN @ ELSE "idle"]
  /\ queue' = Tail(queue)
  /\ UNCHANGED <<ends, session, local, refreshing, connecting, left, missed, cleanup,
                 member, life, mishaps>>

(* _closing is set under the operation lock; both loops are cancelled.  A   *)
(* poll in the middle of a drop still closes its client.                    *)
BeginStop ==
  /\ pc["stop"] \in {"sent", "raised"} /\ "stop" \notin refreshing
  /\ closing' = TRUE
  /\ pc' = [pc EXCEPT !["stop"] = "gather", !["loop"] = "idle",
                      !["poll"] = IF @ = "dropping" THEN @ ELSE "idle"]
  /\ queue' = Without(Without(Tail(queue), "loop"), "poll")
  /\ UNCHANGED <<ends, session, local, refreshing, connecting, left, missed, cleanup,
                 member, life, mishaps>>

Disconnect ==
  /\ pc["stop"] = "gather" /\ pc["poll"] = "idle" /\ connecting = None
  /\ connecting' = "stop" /\ ClearSession /\ missed' = 0
  /\ local' = [local EXCEPT !["stop"] = client] /\ At("stop", "disconnecting")
  /\ UNCHANGED <<ends, refreshing, queue, left, closing, cleanup, member, life, mishaps>>

Disconnected ==
  /\ pc["stop"] = "disconnecting"
  /\ IF local["stop"] = None THEN UNCHANGED link ELSE Closed(local["stop"])
  /\ local' = [local EXCEPT !["stop"] = None]
  /\ connecting' = None /\ At("stop", "cleanup")
  /\ UNCHANGED <<bearer, session, refreshing, queue, left, closing, missed, cleanup,
                 member, life, mishaps>>

Stopped ==
  /\ pc["stop"] = "cleanup" /\ cleanup = {}
  /\ At("stop", "idle") /\ life' = "off"
  /\ UNCHANGED <<ends, session, local, refreshing, locks, closing, missed, cleanup,
                 member, mishaps>>

-------------------------------------------------------------------------------
(* Callbacks and the environment.                                          *)

(* Mutant: the callback of any earlier link clears the current session.     *)
OnDisconnectedAny(c) ==
  /\ link[c] = "down" /\ link' = [link EXCEPT ![c] = "free"]
  /\ IF closing THEN UNCHANGED <<session, missed, cleanup, pc>>
     ELSE /\ proxy' = None /\ client' = None /\ page' = None /\ missed' = 0
          /\ cleanup' = IF proxy = None THEN cleanup ELSE cleanup \cup {proxy}
          /\ pc' = Scheduled(pc)
  /\ UNCHANGED <<bearer, local, refreshing, locks, closing, member, life, mishaps>>

(* _on_disconnected: an older link is not this session's business.          *)
OnDisconnected(c) ==
  /\ link[c] = "down" /\ link' = [link EXCEPT ![c] = "free"]
  /\ IF closing \/ client # c THEN UNCHANGED <<session, missed, cleanup, pc>>
     ELSE /\ ClearSession /\ missed' = 0
          /\ cleanup' = IF proxy = None THEN cleanup ELSE cleanup \cup {proxy}
          /\ pc' = Scheduled(pc)
  /\ UNCHANGED <<bearer, local, refreshing, locks, closing, member, life, mishaps>>

CleanedUp(c) ==
  /\ c \in cleanup /\ cleanup' = cleanup \ {c}
  /\ UNCHANGED <<ends, session, tasks, locks, closing, missed, member, life, mishaps>>

(* _on_access_message with a primary report of the link c, which is open    *)
(* until its proxy has stopped.                                            *)
Report(c) ==
  /\ link[c] = "up" /\ bearer = "mesh" /\ c \in Held \cup {proxy}
  /\ page' = c /\ missed' = 0 /\ NotifyProvisioned
  /\ UNCHANGED <<ends, client, proxy, tasks, locks, closing, cleanup, life, mishaps>>

(* The link breaks; bleak may omit the callback.                            *)
LinkBreaks(c) ==
  /\ link[c] = "up" /\ Mishap
  /\ \E state \in {"down", "free"} : link' = [link EXCEPT ![c] = state]
  /\ UNCHANGED <<bearer, session, tasks, locks, closing, missed, cleanup, member, life>>

(* The fixture is reset or out of range, and with it every link.            *)
Leave(how) ==
  /\ bearer = "mesh" /\ bearer' = how /\ Mishap
  /\ link' = [c \in Client |-> IF link[c] = "up" THEN "down" ELSE link[c]]
  /\ UNCHANGED <<session, tasks, locks, closing, missed, cleanup, member, life>>

Return ==
  /\ bearer # "mesh" /\ bearer' = "mesh"
  /\ UNCHANGED <<link, session, tasks, locks, closing, missed, cleanup, member, life,
                 mishaps>>

-------------------------------------------------------------------------------
Init ==
  /\ bearer \in {"mesh", "reset"} /\ link = [c \in Client |-> "free"]
  /\ client = None /\ proxy = None /\ page = None
  /\ pc = [t \in Tasks |-> "idle"] /\ local = [t \in Tasks |-> None] /\ refreshing = {}
  /\ queue = <<>> /\ connecting = None /\ left = 0
  /\ closing = FALSE /\ missed = 0 /\ cleanup = {}
  /\ notReported = FALSE /\ provReported = FALSE /\ issue = FALSE
  /\ life = "off" /\ mishaps = 0

(* One step of a task after which it is not where it was.                   *)
Step(t) ==
  \/ Granted(t) \/ CallEnds(t) \/ BeginSend(t) \/ SendOk(t) \/ SendFails(t)
  \/ Dropped(t) \/ Refreshed(t) \/ Acquire(t) \/ Establish(t)
  \/ EstablishReset(t) \/ EstablishFails(t) \/ Install(t) \/ Discard(t)
  \/ StartFails(t) \/ Unwound(t)

Stop == BeginStop \/ Disconnect \/ Disconnected \/ Stopped

Callbacks == \E c \in Client : OnDisconnected(c) \/ CleanedUp(c) \/ Report(c)

Environment ==
  \/ \E c \in Client : LinkBreaks(c)
  \/ Leave("reset") \/ Leave("gone") \/ Return

Next ==
  \/ Setup \/ StartEnds \/ Unload \/ WakeLoop \/ WakePoll \/ LoopNext \/ PollEnds \/ Stop
  \/ \E t \in Calls : Call(t)
  \/ \E t \in Tasks : Step(t)
  \/ Callbacks \/ Environment

Spec == Init /\ [][Next]_vars

(* Every task goes on (GATT calls and connects have timeouts, asyncio.Lock  *)
(* is first in, first out); a fixture in range answers.                     *)
Fairness ==
  /\ WF_vars(Step("start") \/ StartEnds)
  /\ WF_vars(Step("loop") \/ WakeLoop \/ LoopNext)
  /\ WF_vars(Step("poll") \/ WakePoll \/ PollEnds)
  /\ WF_vars(Step("stop") \/ Stop)
  /\ \A t \in Calls : WF_vars(Step(t))
  /\ WF_vars(\E c \in Client : CleanedUp(c))
  /\ WF_vars(\E c \in Client \cap {proxy} : Report(c))

FairSpec == Spec /\ Fairness

-------------------------------------------------------------------------------
Ids == Client \cup {None}

(* Every variable has its type.                                            *)
TypeOK ==
  /\ bearer \in {"mesh", "reset", "gone"} /\ link \in [Client -> {"up", "down", "free"}]
  /\ {client, proxy} \subseteq Ids /\ page \in Ids \cup {Earlier}
  /\ pc \in [Tasks -> Places] /\ local \in [Tasks -> Ids] /\ refreshing \subseteq Tasks
  /\ queue \in Seq(Tasks) /\ IsInjective(queue)
  /\ connecting \in Tasks \cup {None} /\ left \in 0..MaxCandidates
  /\ closing \in BOOLEAN /\ missed \in 0..MaxMissed /\ cleanup \subseteq Client
  /\ {notReported, provReported, issue} \subseteq BOOLEAN
  /\ life \in {"off", "starting", "running", "stopping"} /\ mishaps \in 0..MaxMishaps

(* Who answers for a link: every open client is _client or is about to be   *)
(* closed by a task that holds it, and the installed proxy is the one built *)
(* on _client, whichever of the callback, a failed write, the polls and the *)
(* set-up of the next link came first (device.py:2851-2855, 2910-2945).     *)
NoStrayLink ==
  /\ proxy # None => proxy = client
  /\ \A c \in Client : link[c] = "up" => c \in Held \cup {client}

(* Two sessions are never used at once: a link that still works and that a  *)
(* task sends on is the only such link, although the first connection and   *)
(* the drop of a link that stopped answering do not hold the operation lock *)
(* (device.py:872, 3097); both would draw the same sequence numbers.        *)
OneSessionSends ==
  \A t, u \in Tasks :
    (/\ {pc[t], pc[u]} \subseteq {"sending", "starting"}
     /\ link[local[t]] = "up" /\ link[local[u]] = "up") => local[t] = local[u]

(* After async_stop nothing is left of the runtime: no link, no task, no    *)
(* proxy to clean up, and nothing brings one back until the next set-up.    *)
NothingAfterStop ==
  life = "off" =>
    /\ proxy = None /\ client = None /\ cleanup = {} /\ connecting = None
    /\ \A c \in Client : link[c] # "up"
    /\ \A t \in Tasks \ Calls : pc[t] = "idle"

(* A running entry never stays without a connection to a fixture that is    *)
(* there, whichever task lost the last one (device.py:3016-3097).          *)
AlwaysReconnects == []<>~(life = "running" /\ proxy = None /\ bearer = "mesh")

(* The issue never stays wrong while the entry runs: a fixture that is      *)
(* reset is reported, also when its link had broken before, and the report *)
(* is withdrawn once it answers in the mesh again (device.py:2843-2849,     *)
(* 3100-3132).                                                             *)
MembershipShown ==
  []<>~(life = "running" /\ (issue <=> bearer = "mesh") /\ bearer # "gone")

(* What the entity shows of a connected fixture was reported over the       *)
(* present connection: "without a report the entity stays unavailable"      *)
(* (device.py:2808) and every page of a disconnected session is invalidated *)
(* (device.py:2971).                                                       *)
FreshPages == (proxy # None /\ page # None) => page = proxy

=============================================================================
