----------------------- MODULE ConnectionLifecycle_proofs -----------------------
(***************************************************************************)
(* The BLE link of one fixture, for any number of clients, service calls,  *)
(* routes and mishaps.                                                     *)
(*                                                                         *)
(* The argument: at any time at most two tasks are inside _async_send or   *)
(* _async_connect, the owner of the operation lock and the first           *)
(* connection, and at most one of them sets a link up.  So a link that was *)
(* taken out of use while somebody still sends on it is being closed by    *)
(* the only other task there is, and nobody is left to set up another one. *)
(***************************************************************************)
EXTENDS ConnectionLifecycle, SequenceTheorems, TLAPS

(* Inside _async_send or _async_connect.                                    *)
Connecting == {"establish", "starting", "unwinding", "discarding"}
Busy == Connecting \cup {"send", "sending", "sent", "raised", "lock", "connected", "dropping"}
Leaving == {"gather", "disconnecting", "cleanup"}
Loops == {"loop", "poll"}

Has(q, t)  == \E i \in DOMAIN q : q[i] = t
Waiting(t) == Has(queue, t)
Active(t)  == t = "start" \/ Owns(t)

(* Where a task may be, and what its place says of the lock.                *)
InQueue ==
  /\ \A t \in Tasks : Waiting(t) => /\ t # "start"
                                    /\ pc[t] = "queued" \/ (pc[t] \in Busy /\ Owns(t))
  /\ \A t \in Tasks : pc[t] = "queued" => Waiting(t)
  /\ \A t \in Tasks : pc[t] \in Busy => Active(t) \/ (t = "poll" /\ pc[t] = "dropping")
  /\ \A t \in refreshing : pc[t] \in Busy /\ Active(t)

Placed ==
  /\ pc["start"] \in Busy \cup {"idle"} /\ (pc["start"] # "idle" <=> life = "starting")
  /\ pc["stop"] # "sleep" /\ (pc["stop"] # "idle" <=> life = "stopping")
  /\ \A t \in Loops : pc[t] \in Busy \cup {"idle", "sleep", "queued"}
  /\ pc["poll"] # "idle" => life \in {"running", "stopping"}
  /\ \A t \in Calls : /\ pc[t] \in Busy \cup {"idle", "queued"}
                      /\ life = "starting" => pc[t] = "idle"

(* Once _closing is set, nobody connects or sends any more.                 *)
Closes ==
  /\ pc["stop"] \in Leaving => closing
  /\ closing =>
       /\ life \in {"stopping", "off"} /\ (life = "stopping" => pc["stop"] \in Leaving)
       /\ refreshing = {} /\ pc["loop"] = "idle" /\ pc["poll"] \in {"idle", "dropping"}
       /\ ~Waiting("loop") /\ ~Waiting("poll")
       /\ \A t \in Calls : pc[t] \in {"idle", "queued", "send", "raised"}
  /\ pc["stop"] \in {"disconnecting", "cleanup"} \/ life = "off" =>
       client = None /\ pc["poll"] = "idle"
  /\ life = "off" => /\ cleanup = {} /\ connecting = None
                     /\ closing \/ \A t \in Tasks : pc[t] = "idle"

(* Who connects, and with what.                                             *)
Connects ==
  /\ \A t \in Tasks : pc[t] \in Connecting => connecting = t
  /\ connecting # None =>
       /\ proxy = None
       /\ pc[connecting] \in Connecting \/ (connecting = "stop" /\ pc["stop"] = "disconnecting")
  /\ \A t \in Tasks : pc[t] \in {"starting", "unwinding", "discarding", "sending", "dropping"}
                        => local[t] \in Client

(* Who answers for _client, for an open link and for one still sent on.     *)
ProxyIsClient == proxy # None => proxy = client
ClientKnown ==
  client # None => \/ proxy = client
                   \/ /\ connecting # None /\ local[connecting] = client
                      /\ pc[connecting] \in {"starting", "discarding"}
LinksKnown == \A c \in Client : link[c] = "up" => c \in Held \cup {client}
StartsClient ==
  \A t \in Tasks : pc[t] = "starting" /\ link[local[t]] = "up" => client = local[t]
SendersKnown ==
  \A t \in Tasks : pc[t] = "sending" /\ link[local[t]] = "up" =>
    \/ proxy = local[t]
    \/ \E u \in Tasks : Active(u) /\ pc[u] = "dropping" /\ local[u] = local[t]

Answerable == ProxyIsClient /\ ClientKnown /\ LinksKnown /\ StartsClient /\ SendersKnown

IInv == TypeOK /\ InQueue /\ Placed /\ Closes /\ Connects /\ Answerable

-------------------------------------------------------------------------------
(* Names and the queue.                                                    *)

LEMMA Names ==
  /\ "start" \in Tasks /\ "loop" \in Tasks /\ "poll" \in Tasks /\ "stop" \in Tasks
  /\ Calls \subseteq Tasks
  /\ \A t \in Tasks : t \in Calls \/ t \in {"start", "loop", "poll", "stop"}
  /\ \A t \in Calls : t \notin {"start", "loop", "poll", "stop"}
  /\ None \notin Tasks /\ None \notin Client
  BY NamesAssumption DEF Tasks

LEMMA Bounds == MaxMissed \in Nat \ {0} /\ MaxCandidates \in Nat /\ MaxMishaps \in Nat
  BY BoundsAssumption

QueueTyped == queue \in Seq(Tasks) /\ IsInjective(queue)

LEMMA QueueFacts ==
  ASSUME TypeOK
  PROVE  /\ QueueTyped
         /\ \A t : Owns(t) => Waiting(t)
         /\ \A t, u : Owns(t) /\ Owns(u) => t = u
<1>1. QueueTyped
  BY DEF TypeOK, QueueTyped
<1>2. queue # <<>> => 1 \in DOMAIN queue /\ Head(queue) = queue[1]
  BY <1>1 DEF QueueTyped
<1> QED  BY <1>1, <1>2 DEF Owns, Waiting, Has

LEMMA Stays ==
  ASSUME TypeOK, queue' = queue
  PROVE  /\ QueueTyped'
         /\ \A t : (Waiting(t)' <=> Waiting(t)) /\ (Owns(t)' <=> Owns(t))
         /\ \A t : Active(t)' <=> Active(t)
  BY DEF TypeOK, QueueTyped, IsInjective, Waiting, Has, Owns, Active

LEMMA Joins ==
  ASSUME TypeOK, NEW t \in Tasks, ~Waiting(t), queue' = Append(queue, t)
  PROVE  /\ QueueTyped'
         /\ \A u : Waiting(u)' <=> Waiting(u) \/ u = t
         /\ \A u : Owns(u) => Owns(u)'
         /\ \A u : Active(u) => Active(u)'
<1>1. queue \in Seq(Tasks) /\ IsInjective(queue)
  BY DEF TypeOK
<1>2. /\ queue' \in Seq(Tasks) /\ DOMAIN queue' = 1..(Len(queue) + 1) /\ queue' # <<>>
      /\ DOMAIN queue = 1..Len(queue) /\ Len(queue) \in Nat
      /\ \A i \in DOMAIN queue : queue'[i] = queue[i]
      /\ queue'[Len(queue) + 1] = t
  BY <1>1, AppendProperties, LenProperties
<1>3. IsInjective(queue')
  BY <1>1, <1>2 DEF IsInjective, Waiting, Has
<1>4. \A u : Waiting(u)' <=> Waiting(u) \/ u = t
  BY <1>2 DEF Waiting, Has
<1>5. queue # <<>> => Head(queue') = Head(queue)
  BY <1>1, <1>2
<1> QED  BY <1>2, <1>3, <1>4, <1>5 DEF QueueTyped, Owns, Active

LEMMA TailFacts ==
  ASSUME NEW q \in Seq(Tasks), IsInjective(q), q # <<>>
  PROVE  /\ Tail(q) \in Seq(Tasks) /\ IsInjective(Tail(q))
         /\ \A u : Has(Tail(q), u) <=> u # Head(q) /\ Has(q, u)
<1>1. /\ Tail(q) \in Seq(Tasks) /\ Len(q) \in Nat \ {0} /\ DOMAIN q = 1..Len(q)
      /\ DOMAIN Tail(q) = 1..(Len(q) - 1) /\ Head(q) = q[1]
      /\ \A i \in 1..(Len(q) - 1) : Tail(q)[i] = q[i + 1]
  BY HeadTailProperties, LenProperties, EmptySeq
<1>2. IsInjective(Tail(q))
  BY <1>1 DEF IsInjective
<1>3. ASSUME NEW u
      PROVE  Has(Tail(q), u) <=> u # Head(q) /\ Has(q, u)
  <2>1. ASSUME NEW i \in DOMAIN Tail(q), Tail(q)[i] = u
        PROVE  u # Head(q) /\ \E j \in DOMAIN q : q[j] = u
    BY <1>1, <2>1 DEF IsInjective
  <2>2. ASSUME NEW i \in DOMAIN q, q[i] = u, u # Head(q)
        PROVE  \E j \in DOMAIN Tail(q) : Tail(q)[j] = u
    <3>1. i - 1 \in DOMAIN Tail(q) /\ Tail(q)[i - 1] = u
      BY <1>1, <2>2
    <3> QED  BY <3>1
  <2> QED  BY <2>1, <2>2 DEF Has
<1> QED  BY <1>1, <1>2, <1>3

LEMMA Parts ==
  ASSUME TypeOK, NEW t \in Tasks, Unlock(t)
  PROVE  /\ QueueTyped'
         /\ \A u : Waiting(u)' <=> Waiting(u) /\ ~(u = t /\ Owns(t))
         /\ \A u : u # t /\ Owns(u) => Owns(u)'
         /\ \A u : u # t /\ Active(u) => Active(u)'
<1>1. queue \in Seq(Tasks) /\ IsInjective(queue)
  BY DEF TypeOK
<1>2. CASE Owns(t)
  <2>1. queue' = Tail(queue) /\ queue # <<>> /\ Head(queue) = t
    BY <1>2 DEF Owns, Unlock
  <2> QED  BY <1>1, <1>2, <2>1, TailFacts DEF QueueTyped, Waiting, Owns, Active
<1>3. CASE ~Owns(t)
  BY <1>3, Stays DEF Unlock
<1> QED  BY <1>2, <1>3

LEMMA WithoutFacts ==
  ASSUME NEW q \in Seq(Tasks), IsInjective(q), NEW t
  PROVE  /\ Without(q, t) \in Seq(Tasks) /\ IsInjective(Without(q, t))
         /\ \A u : Has(Without(q, t), u) <=> u # t /\ Has(q, u)
<1> DEFINE n == CHOOSE i \in DOMAIN q : q[i] = t
           r == [i \in 1..(Len(q) - 1) |-> q[IF i < n THEN i ELSE i + 1]]
<1>1. Len(q) \in Nat /\ DOMAIN q = 1..Len(q) /\ \A i \in DOMAIN q : q[i] \in Tasks
  BY LenProperties, ElementOfSeq
<1>2. CASE \A i \in DOMAIN q : q[i] # t
  BY <1>2 DEF Without, Has
<1>3. CASE ~\A i \in DOMAIN q : q[i] # t
  <2>1. n \in DOMAIN q /\ q[n] = t /\ Without(q, t) = r
    BY <1>3 DEF Without
  <2> HIDE DEF n
  <2>2. Len(q) - 1 \in Nat
    BY <1>1, <2>1
  <2>3. \A i \in 1..(Len(q) - 1) : (IF i < n THEN i ELSE i + 1) \in DOMAIN q \ {n}
    BY <1>1, <2>1
  <2>4. r \in Seq(Tasks) /\ DOMAIN r = 1..(Len(q) - 1)
    BY <1>1, <2>2, <2>3, IsASeq
  <2>5. IsInjective(r)
    <3> SUFFICES ASSUME NEW i \in 1..(Len(q) - 1), NEW j \in 1..(Len(q) - 1), r[i] = r[j]
                 PROVE  i = j
      BY <2>4 DEF IsInjective
    <3>1. (IF i < n THEN i ELSE i + 1) = (IF j < n THEN j ELSE j + 1)
      BY <2>3 DEF IsInjective
    <3> QED  BY <1>1, <2>1, <3>1
  <2>6. ASSUME NEW u, u # t, NEW i \in DOMAIN q, q[i] = u
        PROVE  \E j \in DOMAIN r : r[j] = u
    <3>1. CASE i < n
      <4>1. i \in DOMAIN r /\ r[i] = u
        BY <1>1, <2>1, <2>4, <2>6, <3>1
      <4> QED  BY <4>1
    <3>2. CASE i > n
      <4>1. i - 1 \in DOMAIN r /\ r[i - 1] = u
        BY <1>1, <2>1, <2>4, <2>6, <3>2
      <4> QED  BY <4>1
    <3> QED  BY <1>1, <2>1, <2>6, <3>1, <3>2
  <2>7. ASSUME NEW j \in DOMAIN r
        PROVE  r[j] # t /\ \E i \in DOMAIN q : q[i] = r[j]
    BY <1>1, <2>1, <2>3, <2>4 DEF IsInjective
  <2> HIDE DEF r
  <2> QED  BY <2>1, <2>4, <2>5, <2>6, <2>7 DEF Has
<1> QED  BY <1>2, <1>3

-------------------------------------------------------------------------------
(* Steps of one task inside _async_send or _async_connect.                 *)

Others(t) == pc' \in [Tasks -> Places] /\ \A u \in Tasks \ {t} : pc'[u] = pc[u]

LEMMA Waiters ==
  ASSUME IInv, NEW u \in Tasks, Waiting(u)
  PROVE  u # "start" /\ (pc[u] = "queued" \/ (pc[u] \in Busy /\ Owns(u)))
  BY DEF IInv, InQueue

LEMMA Moves ==
  ASSUME IInv, NEW t \in Tasks, Active(t), pc[t] \in Busy, pc'[t] \in Busy, Others(t),
         queue' = queue, life' = life, refreshing' \subseteq refreshing \cup {t}
  PROVE  InQueue' /\ Placed'
<1>1. InQueue'
  <2> USE Stays DEF IInv, Others
  <2>1. \A u \in Tasks : Waiting(u)' => /\ u # "start"
                                        /\ pc'[u] = "queued" \/ (pc'[u] \in Busy /\ Owns(u)')
    BY DEF InQueue, Busy, Connecting
  <2>2. \A u \in Tasks : pc'[u] = "queued" => Waiting(u)'
    BY DEF InQueue, Busy, Connecting
  <2>3. \A u \in Tasks : pc'[u] \in Busy => Active(u)' \/ (u = "poll" /\ pc'[u] = "dropping")
    BY DEF InQueue
  <2>4. \A u \in refreshing' : pc'[u] \in Busy /\ Active(u)'
    BY DEF InQueue, TypeOK
  <2> QED  BY <2>1, <2>2, <2>3, <2>4 DEF InQueue
<1>2. Placed'
  <2>1. \A u \in Tasks : pc[u] # "idle" <=> pc'[u] # "idle"
    BY DEF Others, Busy, Connecting
  <2>2. \A u \in Tasks : pc'[u] = pc[u] \/ pc'[u] \in Busy
    BY DEF Others
  <2> QED  BY <2>1, <2>2, Names DEF IInv, Placed, Loops, Busy, Connecting
<1> QED  BY <1>1, <1>2

LEMMA OpenMoves ==
  ASSUME IInv, NEW t \in Tasks, ~closing, pc[t] \in Busy, pc'[t] \in Busy, Others(t),
         closing' = closing, life' = life
  PROVE  Closes'
<1>1. life # "off"
  BY DEF IInv, Closes, Busy, Connecting
<1>2. pc'["stop"] \notin Leaving
  BY Names DEF IInv, Closes, Others, Busy, Connecting, Leaving
<1> QED  BY <1>1, <1>2 DEF Closes, Leaving

(* Nobody but the owner of the lock and the first connection is inside.     *)
LEMMA Insiders ==
  ASSUME IInv, NEW t \in Tasks, pc[t] \in Busy \ {"dropping"}
  PROVE  /\ Active(t)
         /\ closing => t \in Calls /\ pc[t] \in {"send", "raised"}
         /\ t \in Calls \cup {"poll"} => life # "starting"
<1>1. Active(t)
  BY DEF IInv, InQueue
<1>2. closing => t \in Calls /\ pc[t] \in {"send", "raised"}
  BY Names DEF IInv, Closes, Placed, Busy, Connecting, Leaving
<1>3. t \in Calls \cup {"poll"} => life # "starting"
  BY Names DEF IInv, Placed, Busy, Connecting
<1> QED  BY <1>1, <1>2, <1>3

LEMMA BeginSendKeeps ==
  ASSUME IInv, NEW t \in Tasks, BeginSend(t)
  PROVE  IInv'
<1>1. pc[t] \in {"send", "connected"} /\ pc'[t] \in {"raised", "lock", "sending"} /\ Others(t)
  BY DEF BeginSend, Resumes, At, IInv, TypeOK, Others, Places
<1>2. Active(t)
  BY <1>1, Insiders DEF Busy
<1>3. InQueue' /\ Placed'
  BY <1>1, <1>2, Moves DEF BeginSend, locks, Busy
<1>4. TypeOK'
  BY <1>1, Stays DEF BeginSend, IInv, TypeOK, QueueTyped, ends, session, locks, member, Others, Ids
<1>5. Closes'
  <2>1. CASE closing
    <3>1. t \in Calls /\ pc'[t] = "raised"
      BY <1>1, <2>1, Insiders DEF BeginSend, Resumes, At, IInv, TypeOK, Busy
    <3> QED  BY <1>1, <2>1, <3>1, Stays, Names
             DEF BeginSend, IInv, Closes, Others, session, locks, Leaving
  <2>2. CASE ~closing
    BY <1>1, <2>2, OpenMoves DEF BeginSend, Busy
  <2> QED  BY <2>1, <2>2
<1>6. Connects'
  BY <1>1, Names DEF BeginSend, IInv, TypeOK, Connects, Others, session, locks, Connecting, At, Ids
<1>7. Answerable'
  <2>1. ProxyIsClient' /\ ClientKnown'
    BY <1>1 DEF BeginSend, IInv, TypeOK, Connects, Answerable, ProxyIsClient, ClientKnown, Others, session, locks, At, Ids
  <2>2. LinksKnown'
    BY <1>1 DEF BeginSend, IInv, Answerable, LinksKnown, Held, Holding, Others, ends, session, At, TypeOK
  <2>3. StartsClient'
    BY <1>1 DEF BeginSend, IInv, Answerable, StartsClient, Others, ends, session, At, TypeOK
  <2>4. SendersKnown'
    BY <1>1, Stays DEF BeginSend, IInv, Answerable, SendersKnown, Others, ends, session, locks, At, TypeOK
  <2> QED  BY <2>1, <2>2, <2>3, <2>4 DEF Answerable
<1> QED  BY <1>3, <1>4, <1>5, <1>6, <1>7 DEF IInv

LEMMA SendOkKeeps ==
  ASSUME IInv, NEW t \in Tasks, SendOk(t)
  PROVE  IInv'
<1>1. pc[t] \in {"sending"} /\ pc'[t] \in {"sent"} /\ Others(t)
  BY DEF SendOk, At, IInv, TypeOK, Others, Places
<1>2. Active(t) /\ ~closing
  BY <1>1, Insiders DEF Busy, Connecting
<1>3. InQueue' /\ Placed' /\ Closes'
  BY <1>1, <1>2, Moves, OpenMoves DEF SendOk, locks, Busy, Connecting
<1>4. TypeOK'
  BY <1>1, Stays, Bounds
  DEF SendOk, Mishap, IInv, TypeOK, QueueTyped, ends, session, locks, member, Others, Ids
<1>5. Connects'
  BY <1>1, Names DEF SendOk, IInv, TypeOK, Connects, Others, session, locks, Connecting, At, Ids
<1>6. Answerable'
  <2>1. ProxyIsClient' /\ ClientKnown'
    BY <1>1, Names DEF SendOk, IInv, TypeOK, Connects, Answerable, ProxyIsClient, ClientKnown,
                Others, session, locks, At, Ids, Connecting
  <2>2. LinksKnown'
    BY <1>1, Names DEF SendOk, IInv, Answerable, LinksKnown, ClientKnown, Connects, Held, Holding,
                Others, ends, session, locks, At, TypeOK, Connecting
  <2>3. StartsClient'
    BY <1>1, Names DEF SendOk, IInv, Answerable, StartsClient, Connects, Others, ends, session, locks, At,
                TypeOK, Connecting
  <2>4. SendersKnown'
    BY <1>1, <1>2, Stays, Names DEF SendOk, IInv, Answerable, SendersKnown, Connects, Others, ends, session,
                locks, At, TypeOK, Connecting
  <2> QED  BY <2>1, <2>2, <2>3, <2>4 DEF Answerable
<1> QED  BY <1>3, <1>4, <1>5, <1>6 DEF IInv

LEMMA SendFailsKeeps ==
  ASSUME IInv, NEW t \in Tasks, SendFails(t)
  PROVE  IInv'
<1>1. pc[t] \in {"sending"} /\ pc'[t] \in {"dropping", "raised"} /\ Others(t)
  BY DEF SendFails, ClearSession, At, IInv, TypeOK, Others, Places
<1>2. Active(t) /\ ~closing
  BY <1>1, Insiders DEF Busy, Connecting
<1>3. InQueue' /\ Placed' /\ Closes'
  BY <1>1, <1>2, Moves, OpenMoves DEF SendFails, ClearSession, locks, Busy, Connecting
<1>4. TypeOK'
  BY <1>1, Stays, Bounds
  DEF SendFails, ClearSession, Mishap, IInv, TypeOK, QueueTyped, ends, session, locks, member, Others, Ids
<1>5. Connects'
  BY <1>1, Names DEF SendFails, ClearSession, IInv, TypeOK, Connects, Others, session, locks, Connecting, At, Ids
<1>6. Answerable'
  <2>1. ProxyIsClient' /\ ClientKnown'
    BY <1>1, Names DEF SendFails, ClearSession, IInv, TypeOK, Connects, Answerable, ProxyIsClient, ClientKnown,
                Others, session, locks, At, Ids, Connecting
  <2>2. LinksKnown'
    BY <1>1, Names DEF SendFails, ClearSession, IInv, Answerable, LinksKnown, ClientKnown, Connects, Held, Holding,
                Others, ends, session, locks, At, TypeOK, Connecting
  <2>3. StartsClient'
    BY <1>1, Names DEF SendFails, ClearSession, IInv, Answerable, StartsClient, Connects, Others, ends, session, locks, At,
                TypeOK, Connecting
  <2>4. SendersKnown'
    BY <1>1, <1>2, Stays, Names DEF SendFails, ClearSession, IInv, Answerable, SendersKnown, Connects, Others, ends, session,
                locks, At, TypeOK, Connecting
  <2> QED  BY <2>1, <2>2, <2>3, <2>4 DEF Answerable
<1> QED  BY <1>3, <1>4, <1>5, <1>6 DEF IInv

LEMMA RefreshedKeeps ==
  ASSUME IInv, NEW t \in Tasks, Refreshed(t)
  PROVE  IInv'
<1>1. pc[t] \in {"sent", "raised"} /\ pc'[t] \in {"connected"} /\ Others(t)
  BY DEF Refreshed, At, IInv, TypeOK, Others, Places
<1>2. Active(t) /\ ~closing
  BY <1>1, Insiders DEF Refreshed, IInv, Closes, Busy, Connecting
<1>3. InQueue' /\ Placed' /\ Closes'
  BY <1>1, <1>2, Moves, OpenMoves DEF Refreshed, locks, Busy, Connecting
<1>4. TypeOK'
  BY <1>1, Stays, Bounds
  DEF Refreshed, Mishap, IInv, TypeOK, QueueTyped, ends, session, locks, member, Others, Ids
<1>5. Connects'
  BY <1>1, Names DEF Refreshed, IInv, TypeOK, Connects, Others, session, locks, Connecting, At, Ids
<1>6. Answerable'
  <2>1. ProxyIsClient' /\ ClientKnown'
    BY <1>1, Names DEF Refreshed, IInv, TypeOK, Connects, Answerable, ProxyIsClient, ClientKnown,
                Others, session, locks, At, Ids, Connecting
  <2>2. LinksKnown'
    BY <1>1, Names DEF Refreshed, IInv, Answerable, LinksKnown, ClientKnown, Connects, Held, Holding,
                Others, ends, session, locks, At, TypeOK, Connecting
  <2>3. StartsClient'
    BY <1>1, Names DEF Refreshed, IInv, Answerable, StartsClient, Connects, Others, ends, session, locks, At,
                TypeOK, Connecting
  <2>4. SendersKnown'
    BY <1>1, <1>2, Stays, Names DEF Refreshed, IInv, Answerable, SendersKnown, Connects, Others, ends, session,
                locks, At, TypeOK, Connecting
  <2> QED  BY <2>1, <2>2, <2>3, <2>4 DEF Answerable
<1> QED  BY <1>3, <1>4, <1>5, <1>6 DEF IInv

LEMMA AcquireKeeps ==
  ASSUME IInv, NEW t \in Tasks, Acquire(t)
  PROVE  IInv'
<1>1. pc[t] \in {"lock"} /\ pc'[t] \in {"raised", "connected", "establish"} /\ Others(t)
  BY DEF Acquire, At, IInv, TypeOK, Others, Places
<1>2. Active(t) /\ ~closing
  BY <1>1, Insiders DEF Busy, Connecting
<1>3. InQueue' /\ Placed' /\ Closes'
  BY <1>1, <1>2, Moves, OpenMoves DEF Acquire, locks, Busy, Connecting
<1>4. TypeOK'
  BY <1>1, Stays, Bounds
  DEF Acquire, Mishap, IInv, TypeOK, QueueTyped, ends, session, locks, member, Others, Ids
<1>5. Connects'
  BY <1>1, Names DEF Acquire, IInv, TypeOK, Connects, Others, session, locks, Connecting, At, Ids
<1>6. Answerable'
  <2>1. ProxyIsClient' /\ ClientKnown'
    BY <1>1, Names DEF Acquire, IInv, TypeOK, Connects, Answerable, ProxyIsClient, ClientKnown,
                Others, session, locks, At, Ids, Connecting
  <2>2. LinksKnown'
    BY <1>1, Names DEF Acquire, IInv, Answerable, LinksKnown, ClientKnown, Connects, Held, Holding,
                Others, ends, session, locks, At, TypeOK, Connecting
  <2>3. StartsClient'
    BY <1>1, Names DEF Acquire, IInv, Answerable, StartsClient, Connects, Others, ends, session, locks, At,
                TypeOK, Connecting
  <2>4. SendersKnown'
    BY <1>1, <1>2, Stays, Names DEF Acquire, IInv, Answerable, SendersKnown, Connects, Others, ends, session,
                locks, At, TypeOK, Connecting
  <2> QED  BY <2>1, <2>2, <2>3, <2>4 DEF Answerable
<1> QED  BY <1>3, <1>4, <1>5, <1>6 DEF IInv

LEMMA EstablishKeeps ==
  ASSUME IInv, NEW t \in Tasks, Establish(t)
  PROVE  IInv'
<1>1. pc[t] \in {"establish"} /\ pc'[t] \in {"raised", "starting"} /\ Others(t)
  BY DEF Establish, Raise, Unused, At, IInv, TypeOK, Others, Places
<1>2. Active(t) /\ ~closing
  BY <1>1, Insiders DEF Busy, Connecting
<1>3. InQueue' /\ Placed' /\ Closes'
  BY <1>1, <1>2, Moves, OpenMoves DEF Establish, Raise, Unused, locks, Busy, Connecting
<1> DEFINE c == CHOOSE d \in Client : Unused(d)
<1>a. /\ c \in Client /\ link[c] = "free" /\ c \notin cleanup \cup {client, proxy}
      /\ \A u \in Tasks : local[u] # c
  BY DEF Establish, Unused
<1>b. /\ page' = (IF page = None THEN None ELSE Earlier)
      /\ link' = [link EXCEPT ![c] = "up"] /\ client' = c
      /\ local' = [local EXCEPT ![t] = c] /\ pc' = [pc EXCEPT ![t] = "starting"]
      /\ UNCHANGED <<connecting, left>>
      /\ UNCHANGED <<bearer, proxy, refreshing, queue, closing, missed, cleanup,
                     member, life, mishaps>>
  BY <1>2 DEF Establish, At
<1> HIDE DEF c
<1>4. TypeOK'
  BY <1>1, <1>a, <1>b, Stays, Bounds
  DEF Mishap, IInv, TypeOK, QueueTyped, ends, session, locks, member, Others, Ids
<1>5. Connects'
  BY <1>1, <1>a, <1>b, Names DEF IInv, TypeOK, Connects, Others, session, locks, Connecting, At, Ids
<1>6. Answerable'
  <2>1. ProxyIsClient' /\ ClientKnown'
    BY <1>1, <1>a, <1>b, Names DEF IInv, TypeOK, Connects, Answerable, ProxyIsClient, ClientKnown,
                Others, session, locks, At, Ids, Connecting
  <2>2. LinksKnown'
    BY <1>1, <1>a, <1>b, Names DEF IInv, Answerable, LinksKnown, ClientKnown, Connects, Held, Holding,
                Others, ends, session, locks, At, TypeOK, Connecting
  <2>3. StartsClient'
    BY <1>1, <1>a, <1>b, Names DEF IInv, Answerable, StartsClient, Connects, Others, ends, session, locks, At,
                TypeOK, Connecting
  <2>4. SendersKnown'
    BY <1>1, <1>a, <1>b, <1>2, Stays, Names DEF IInv, Answerable, SendersKnown, Connects, Others, ends, session,
                locks, At, TypeOK, Connecting
  <2> QED  BY <2>1, <2>2, <2>3, <2>4 DEF Answerable
<1> QED  BY <1>3, <1>4, <1>5, <1>6 DEF IInv

LEMMA EstablishResetKeeps ==
  ASSUME IInv, NEW t \in Tasks, EstablishReset(t)
  PROVE  IInv'
<1>1. pc[t] \in {"establish"} /\ pc'[t] \in {"raised"} /\ Others(t)
  BY DEF EstablishReset, Raise, NotifyNotProvisioned, At, IInv, TypeOK, Others, Places
<1>2. Active(t) /\ ~closing
  BY <1>1, Insiders DEF Busy, Connecting
<1>3. InQueue' /\ Placed' /\ Closes'
  BY <1>1, <1>2, Moves, OpenMoves DEF EstablishReset, Raise, NotifyNotProvisioned, locks, Busy, Connecting
<1>4. TypeOK'
  <2>1. {notReported', provReported', issue'} \subseteq BOOLEAN
    BY DEF EstablishReset, NotifyNotProvisioned, member, IInv, TypeOK
  <2> QED  BY <2>1, <1>1, Stays, Bounds
  DEF EstablishReset, Raise, Mishap, IInv, TypeOK, QueueTyped, ends, session, locks, member, Others, Ids
<1>5. Connects'
  BY <1>1, Names DEF EstablishReset, Raise, NotifyNotProvisioned, IInv, TypeOK, Connects, Others, session, locks, Connecting, At, Ids
<1>6. Answerable'
  <2>1. ProxyIsClient' /\ ClientKnown'
    BY <1>1, Names DEF EstablishReset, Raise, NotifyNotProvisioned, IInv, TypeOK, Connects, Answerable, ProxyIsClient, ClientKnown,
                Others, session, locks, At, Ids, Connecting
  <2>2. LinksKnown'
    BY <1>1, Names DEF EstablishReset, Raise, NotifyNotProvisioned, IInv, Answerable, LinksKnown, ClientKnown, Connects, Held, Holding,
                Others, ends, session, locks, At, TypeOK, Connecting
  <2>3. StartsClient'
    BY <1>1, Names DEF EstablishReset, Raise, NotifyNotProvisioned, IInv, Answerable, StartsClient, Connects, Others, ends, session, locks, At,
                TypeOK, Connecting
  <2>4. SendersKnown'
    BY <1>1, <1>2, Stays, Names DEF EstablishReset, Raise, NotifyNotProvisioned, IInv, Answerable, SendersKnown, Connects, Others, ends, session,
                locks, At, TypeOK, Connecting
  <2> QED  BY <2>1, <2>2, <2>3, <2>4 DEF Answerable
<1> QED  BY <1>3, <1>4, <1>5, <1>6 DEF IInv

LEMMA EstablishFailsKeeps ==
  ASSUME IInv, NEW t \in Tasks, EstablishFails(t)
  PROVE  IInv'
<1>1. pc[t] \in {"establish"} /\ pc'[t] \in {"raised", "establish"} /\ Others(t)
  BY DEF EstablishFails, TryNext, Raise, At, IInv, TypeOK, Others, Places
<1>2. Active(t) /\ ~closing
  BY <1>1, Insiders DEF Busy, Connecting
<1>3. InQueue' /\ Placed' /\ Closes'
  BY <1>1, <1>2, Moves, OpenMoves DEF EstablishFails, TryNext, Raise, locks, Busy, Connecting
<1>4. TypeOK'
  <2>1. left' \in 0..MaxCandidates
    BY Bounds DEF EstablishFails, TryNext, Raise, IInv, TypeOK
  <2> QED  BY <2>1, <1>1, Stays, Bounds
  DEF EstablishFails, TryNext, Raise, Mishap, IInv, TypeOK, QueueTyped, ends, session, locks, member, Others, Ids
<1>5. Connects'
  BY <1>1, Names DEF EstablishFails, TryNext, Raise, IInv, TypeOK, Connects, Others, session, locks, Connecting, At, Ids
<1>6. Answerable'
  <2>1. ProxyIsClient' /\ ClientKnown'
    BY <1>1, Names DEF EstablishFails, TryNext, Raise, IInv, TypeOK, Connects, Answerable, ProxyIsClient, ClientKnown,
                Others, session, locks, At, Ids, Connecting
  <2>2. LinksKnown'
    BY <1>1, Names DEF EstablishFails, TryNext, Raise, IInv, Answerable, LinksKnown, ClientKnown, Connects, Held, Holding,
                Others, ends, session, locks, At, TypeOK, Connecting
  <2>3. StartsClient'
    BY <1>1, Names DEF EstablishFails, TryNext, Raise, IInv, Answerable, StartsClient, Connects, Others, ends, session, locks, At,
                TypeOK, Connecting
  <2>4. SendersKnown'
    BY <1>1, <1>2, Stays, Names DEF EstablishFails, TryNext, Raise, IInv, Answerable, SendersKnown, Connects, Others, ends, session,
                locks, At, TypeOK, Connecting
  <2> QED  BY <2>1, <2>2, <2>3, <2>4 DEF Answerable
<1> QED  BY <1>3, <1>4, <1>5, <1>6 DEF IInv

LEMMA InstallKeeps ==
  ASSUME IInv, NEW t \in Tasks, Install(t)
  PROVE  IInv'
<1>1. pc[t] \in {"starting"} /\ pc'[t] \in {"send"} /\ Others(t)
  BY DEF Install, At, IInv, TypeOK, Others, Places
<1>2. Active(t) /\ ~closing
  BY <1>1, Insiders DEF Busy, Connecting
<1>3. InQueue' /\ Placed' /\ Closes'
  BY <1>1, <1>2, Moves, OpenMoves DEF Install, locks, Busy, Connecting
<1>4. TypeOK'
  BY <1>1, Stays, Bounds
  DEF Install, Mishap, IInv, TypeOK, QueueTyped, ends, session, locks, member, Others, Ids
<1>5. Connects'
  BY <1>1, Names DEF Install, IInv, TypeOK, Connects, Others, session, locks, Connecting, At, Ids
<1>6. Answerable'
  <2>1. ProxyIsClient' /\ ClientKnown'
    BY <1>1, Names DEF Install, IInv, TypeOK, Connects, Answerable, ProxyIsClient, ClientKnown,
                Others, session, locks, At, Ids, Connecting
  <2>2. LinksKnown'
    BY <1>1, Names DEF Install, IInv, Answerable, LinksKnown, ClientKnown, Connects, Held, Holding,
                Others, ends, session, locks, At, TypeOK, Connecting
  <2>3. StartsClient'
    BY <1>1, Names DEF Install, IInv, Answerable, StartsClient, Connects, Others, ends, session, locks, At,
                TypeOK, Connecting
  <2>4. SendersKnown'
    BY <1>1, <1>2, Stays, Names DEF Install, IInv, Answerable, SendersKnown, Connects, Others, ends, session,
                locks, At, TypeOK, Connecting
  <2> QED  BY <2>1, <2>2, <2>3, <2>4 DEF Answerable
<1> QED  BY <1>3, <1>4, <1>5, <1>6 DEF IInv

LEMMA DiscardKeeps ==
  ASSUME IInv, NEW t \in Tasks, Discard(t)
  PROVE  IInv'
<1>1. pc[t] \in {"starting"} /\ pc'[t] \in {"discarding"} /\ Others(t)
  BY DEF Discard, At, IInv, TypeOK, Others, Places
<1>2. Active(t) /\ ~closing
  BY <1>1, Insiders DEF Busy, Connecting
<1>3. InQueue' /\ Placed' /\ Closes'
  BY <1>1, <1>2, Moves, OpenMoves DEF Discard, locks, Busy, Connecting
<1>4. TypeOK'
  BY <1>1, Stays, Bounds
  DEF Discard, Mishap, IInv, TypeOK, QueueTyped, ends, session, locks, member, Others, Ids
<1>5. Connects'
  BY <1>1, Names DEF Discard, IInv, TypeOK, Connects, Others, session, locks, Connecting, At, Ids
<1>6. Answerable'
  <2>1. ProxyIsClient' /\ ClientKnown'
    BY <1>1, Names DEF Discard, IInv, TypeOK, Connects, Answerable, ProxyIsClient, ClientKnown,
                Others, session, locks, At, Ids, Connecting
  <2>2. LinksKnown'
    BY <1>1, Names DEF Discard, IInv, Answerable, LinksKnown, ClientKnown, Connects, Held, Holding,
                Others, ends, session, locks, At, TypeOK, Connecting
  <2>3. StartsClient'
    BY <1>1, Names DEF Discard, IInv, Answerable, StartsClient, Connects, Others, ends, session, locks, At,
                TypeOK, Connecting
  <2>4. SendersKnown'
    BY <1>1, <1>2, Stays, Names DEF Discard, IInv, Answerable, SendersKnown, Connects, Others, ends, session,
                locks, At, TypeOK, Connecting
  <2> QED  BY <2>1, <2>2, <2>3, <2>4 DEF Answerable
<1> QED  BY <1>3, <1>4, <1>5, <1>6 DEF IInv

LEMMA StartFailsKeeps ==
  ASSUME IInv, NEW t \in Tasks, StartFails(t)
  PROVE  IInv'
<1>1. pc[t] \in {"starting"} /\ pc'[t] \in {"unwinding"} /\ Others(t)
  BY DEF StartFails, At, IInv, TypeOK, Others, Places
<1>2. Active(t) /\ ~closing
  BY <1>1, Insiders DEF Busy, Connecting
<1>3. InQueue' /\ Placed' /\ Closes'
  BY <1>1, <1>2, Moves, OpenMoves DEF StartFails, locks, Busy, Connecting
<1>4. TypeOK'
  BY <1>1, Stays, Bounds
  DEF StartFails, Mishap, IInv, TypeOK, QueueTyped, ends, session, locks, member, Others, Ids
<1>5. Connects'
  BY <1>1, Names DEF StartFails, IInv, TypeOK, Connects, Others, session, locks, Connecting, At, Ids
<1>6. Answerable'
  <2>1. ProxyIsClient' /\ ClientKnown'
    BY <1>1, Names DEF StartFails, IInv, TypeOK, Connects, Answerable, ProxyIsClient, ClientKnown,
                Others, session, locks, At, Ids, Connecting
  <2>2. LinksKnown'
    BY <1>1, Names DEF StartFails, IInv, Answerable, LinksKnown, ClientKnown, Connects, Held, Holding,
                Others, ends, session, locks, At, TypeOK, Connecting
  <2>3. StartsClient'
    BY <1>1, Names DEF StartFails, IInv, Answerable, StartsClient, Connects, Others, ends, session, locks, At,
                TypeOK, Connecting
  <2>4. SendersKnown'
    BY <1>1, <1>2, Stays, Names DEF StartFails, IInv, Answerable, SendersKnown, Connects, Others, ends, session,
                locks, At, TypeOK, Connecting
  <2> QED  BY <2>1, <2>2, <2>3, <2>4 DEF Answerable
<1> QED  BY <1>3, <1>4, <1>5, <1>6 DEF IInv

LEMMA UnwoundKeeps ==
  ASSUME IInv, NEW t \in Tasks, Unwound(t)
  PROVE  IInv'
<1>1. pc[t] \in {"unwinding", "discarding"} /\ pc'[t] \in {"raised", "establish"} /\ Others(t)
  BY DEF Unwound, TryNext, Raise, Closed, At, IInv, TypeOK, Others, Places
<1>2. Active(t) /\ ~closing
  BY <1>1, Insiders DEF Busy, Connecting
<1>3. InQueue' /\ Placed' /\ Closes'
  BY <1>1, <1>2, Moves, OpenMoves DEF Unwound, TryNext, Raise, Closed, locks, Busy, Connecting
<1>4. TypeOK'
  <2>1. left' \in 0..MaxCandidates
    BY Bounds DEF Unwound, TryNext, Raise, IInv, TypeOK
  <2> QED  BY <2>1, <1>1, Stays, Bounds
  DEF Unwound, TryNext, Raise, Closed, Mishap, IInv, TypeOK, QueueTyped, ends, session, locks, member, Others, Ids
<1>5. Connects'
  BY <1>1, Names DEF Unwound, TryNext, Raise, Closed, IInv, TypeOK, Connects, Others, session, locks, Connecting, At, Ids
<1>6. Answerable'
  <2>1. ProxyIsClient' /\ ClientKnown'
    BY <1>1, Names DEF Unwound, TryNext, Raise, Closed, IInv, TypeOK, Connects, Answerable, ProxyIsClient, ClientKnown,
                Others, session, locks, At, Ids, Connecting
  <2>2. LinksKnown'
    BY <1>1, Names DEF Unwound, TryNext, Raise, Closed, IInv, Answerable, LinksKnown, ClientKnown, Connects, Held, Holding,
                Others, ends, session, locks, At, TypeOK, Connecting
  <2>3. StartsClient'
    BY <1>1, Names DEF Unwound, TryNext, Raise, Closed, IInv, Answerable, StartsClient, Connects, Others, ends, session, locks, At,
                TypeOK, Connecting
  <2>4. SendersKnown'
    BY <1>1, <1>2, Stays, Names DEF Unwound, TryNext, Raise, Closed, IInv, Answerable, SendersKnown, Connects, Others, ends, session,
                locks, At, TypeOK, Connecting
  <2> QED  BY <2>1, <2>2, <2>3, <2>4 DEF Answerable
<1> QED  BY <1>3, <1>4, <1>5, <1>6 DEF IInv

-------------------------------------------------------------------------------
(* Steps that touch neither a link nor what a task holds.                  *)

Linked == Connecting \cup {"sending", "dropping", "disconnecting"}

LEMMA Untouched ==
  ASSUME IInv, UNCHANGED <<link, client, proxy, local, connecting>>,
         pc' \in [Tasks -> Places],
         \A u \in Tasks : pc'[u] = pc[u] \/ (pc[u] \notin Linked /\ pc'[u] \notin Linked),
         \A u \in Tasks : Active(u) /\ pc[u] = "dropping" => Active(u)'
  PROVE  Connects' /\ Answerable'
<1>1. \A u \in Tasks : /\ pc[u] \in Linked \/ pc'[u] \in Linked => pc'[u] = pc[u]
                       /\ local'[u] = local[u]
  OBVIOUS
<1>2. Held' = Held
  BY <1>1 DEF Held, Holding, Linked, Connecting
<1>3. Connects'
  BY <1>1, Names DEF IInv, Connects, TypeOK, Linked, Connecting
<1>4. ProxyIsClient' /\ ClientKnown' /\ LinksKnown' /\ StartsClient'
  BY <1>1, <1>2 DEF IInv, Answerable, ProxyIsClient, ClientKnown, LinksKnown, StartsClient,
                    Linked, Connecting, TypeOK
<1>5. SendersKnown'
  BY <1>1 DEF IInv, Answerable, SendersKnown, Linked
<1> QED  BY <1>3, <1>4, <1>5 DEF Answerable

LEMMA GrantedKeeps ==
  ASSUME IInv, NEW t \in Tasks, Granted(t)
  PROVE  IInv'
<1>1. pc[t] = "queued" /\ Owns(t) /\ pc'[t] \in {"lock", "send", "sent"} /\ Others(t)
  BY DEF Granted, At, IInv, TypeOK, Others, Places
<1>2. TypeOK'
  BY <1>1, Stays DEF Granted, IInv, TypeOK, QueueTyped, ends, session, locks, member, Others, Ids
<1>3. Connects' /\ Answerable'
  BY <1>1, Stays, Untouched DEF IInv, Granted, Others, ends, session, locks, Linked, Connecting
<1>4. InQueue'
  BY <1>1, Stays DEF IInv, Granted, InQueue, Others, locks, TypeOK, Busy, Connecting, Active
<1>5. Placed'
  BY <1>1, Names DEF IInv, Granted, Placed, Others, Loops, Busy, Connecting, At
<1>6. Closes'
  <2>1. closing => t \in Calls /\ pc'[t] = "send"
    BY <1>1, Names DEF IInv, Granted, At, Closes, Placed, Leaving, Busy, Connecting, TypeOK
  <2>2. ~closing => life # "off"
    BY <1>1 DEF IInv, Closes
  <2> QED  BY <1>1, <2>1, <2>2, Stays, Names
           DEF IInv, Granted, Closes, Others, session, locks, Leaving
<1> QED  BY <1>2, <1>3, <1>4, <1>5, <1>6 DEF IInv

LEMMA CallEndsKeeps ==
  ASSUME IInv, NEW t \in Tasks, CallEnds(t)
  PROVE  IInv'
<1>1. /\ t \in Calls /\ t \notin refreshing /\ pc[t] \in {"sent", "raised"} /\ pc'[t] = "idle"
      /\ Others(t) /\ Unlock(t)
  BY DEF CallEnds, At, IInv, TypeOK, Others, Places
<1>2. Owns(t)
  BY <1>1, Insiders, Names DEF Active, Busy
<1>3. TypeOK'
  BY <1>1, Parts DEF CallEnds, IInv, TypeOK, QueueTyped, ends, session, locks, member, Others, Ids
<1>4. Connects' /\ Answerable'
  BY <1>1, Parts, Untouched DEF IInv, CallEnds, Others, ends, session, Linked, Connecting
<1>5. InQueue'
  BY <1>1, <1>2, Parts, Names DEF IInv, CallEnds, InQueue, Others, TypeOK, Busy, Connecting
<1>6. Placed'
  BY <1>1, Names DEF IInv, CallEnds, Placed, Others, Loops, Busy, Connecting
<1>7. Closes'
  BY <1>1, Parts, Names DEF IInv, CallEnds, Closes, Others, session, Leaving
<1> QED  BY <1>3, <1>4, <1>5, <1>6, <1>7 DEF IInv

LEMMA SetupKeeps ==
  ASSUME IInv, Setup
  PROVE  IInv'
<1>1. /\ life = "off" /\ \A t \in Tasks : pc[t] = "idle"
      /\ pc' = [pc EXCEPT !["start"] = "lock"] /\ pc' \in [Tasks -> Places]
      /\ client = None /\ cleanup = {} /\ connecting = None
  BY Names DEF Setup, At, IInv, TypeOK, Places, Closes
<1>2. proxy = None
  BY <1>1 DEF IInv, Answerable, ProxyIsClient
<1>3. refreshing = {} /\ \A t \in Tasks : ~Waiting(t)
  BY <1>1 DEF IInv, InQueue, Busy, Connecting, TypeOK
<1>4. TypeOK'
  <2>1. link' \in [Client -> {"up", "down", "free"}] /\ missed' \in 0..MaxMissed
    BY Bounds DEF Setup
  <2>2. QueueTyped'
    BY Stays DEF Setup, locks, IInv
  <2> QED  BY <1>1, <2>1, <2>2 DEF Setup, IInv, TypeOK, QueueTyped, session, locks, Ids
<1>5. InQueue' /\ Placed'
  BY <1>1, <1>3, Stays, Names
  DEF IInv, TypeOK, Setup, locks, InQueue, Placed, Busy, Connecting, Loops, Active
<1>6. Closes' /\ Connects'
  BY <1>1, <1>2, <1>3, Names
  DEF IInv, TypeOK, Setup, session, locks, Closes, Connects, Leaving, Connecting
<1>7. Answerable'
  BY <1>1, <1>2, Names
  DEF IInv, TypeOK, Setup, session, locks, Answerable, ProxyIsClient, ClientKnown, LinksKnown,
      StartsClient, SendersKnown
<1> QED  BY <1>4, <1>5, <1>6, <1>7 DEF IInv

LEMMA StartEndsKeeps ==
  ASSUME IInv, StartEnds
  PROVE  IInv'
<1>1. /\ "start" \notin refreshing /\ pc["start"] \in {"connected", "raised"} /\ pc' \in [Tasks -> Places]
      /\ life = "starting" /\ pc'["start"] = "idle"
      /\ pc["poll"] = "idle" /\ pc["stop"] = "idle" /\ ~closing
      /\ \A t \in Tasks \ {"start", "poll", "stop"} : pc'[t] = pc[t]
  BY Names DEF StartEnds, IInv, TypeOK, Places, Placed, Closes, Leaving
<1>2. \A t \in {"poll", "stop", "start"} : ~Waiting(t) /\ ~Owns(t)
  <2>1. ~Waiting("poll") /\ ~Waiting("stop") /\ ~Waiting("start")
    BY <1>1, Waiters, Names DEF Busy, Connecting
  <2> QED  BY <2>1, QueueFacts DEF IInv
<1>3. CASE /\ life' = "running" /\ UNCHANGED queue
           /\ pc' = [pc EXCEPT !["start"] = "idle", !["poll"] = "sleep"]
  <2>1. pc'["poll"] = "sleep" /\ pc'["stop"] = "idle"
    BY <1>1, <1>3, Names DEF IInv, TypeOK
  <2>2. TypeOK'
    BY <1>1, <1>3, Stays DEF StartEnds, IInv, TypeOK, QueueTyped, ends, session, member, Ids
  <2>3. Connects' /\ Answerable'
    BY <1>1, <1>3, <2>1, Names, Stays, Untouched
    DEF IInv, StartEnds, ends, session, Linked, Connecting
  <2>4. InQueue'
    BY <1>1, <1>2, <1>3, <2>1, Stays, Names
    DEF IInv, StartEnds, InQueue, TypeOK, Busy, Connecting, Active
  <2>5. Placed' /\ Closes'
    BY <1>1, <1>3, <2>1, Names
    DEF IInv, StartEnds, Placed, Closes, Loops, Busy, Connecting, Leaving
  <2> QED  BY <2>2, <2>3, <2>4, <2>5 DEF IInv
<1>4. CASE /\ life' = "stopping" /\ queue' = Append(queue, "stop")
           /\ pc' = [pc EXCEPT !["start"] = "idle", !["stop"] = "queued"]
  <2>1. pc'["stop"] = "queued" /\ pc'["poll"] = "idle"
    BY <1>1, <1>4, Names DEF IInv, TypeOK
  <2>2. /\ QueueTyped' /\ \A u : Waiting(u)' <=> Waiting(u) \/ u = "stop"
        /\ \A u : Owns(u) => Owns(u)'
        /\ \A u : Active(u) => Active(u)'
    BY <1>2, <1>4, Joins, Names DEF IInv
  <2>3. TypeOK'
    BY <1>1, <1>4, <2>2 DEF StartEnds, IInv, TypeOK, QueueTyped, ends, session, member, Ids
  <2>4. Connects' /\ Answerable'
    BY <1>1, <1>4, <2>1, <2>2, Names, Untouched
    DEF IInv, StartEnds, ends, session, Linked, Connecting
  <2>5. InQueue'
    BY <1>1, <1>2, <1>4, <2>1, <2>2, Names
    DEF IInv, StartEnds, InQueue, TypeOK, Busy, Connecting
  <2>6. Placed' /\ Closes'
    BY <1>1, <1>4, <2>1, Names
    DEF IInv, StartEnds, Placed, Closes, Loops, Busy, Connecting, Leaving
  <2> QED  BY <2>3, <2>4, <2>5, <2>6 DEF IInv
<1> QED  BY <1>3, <1>4 DEF StartEnds

(* A task that was outside queues for the operation lock.                   *)
LEMMA EnterKeeps ==
  ASSUME IInv, NEW t \in Tasks \ {"start"}, Enter(t), pc[t] \in {"idle", "sleep"},
         \/ t # "stop" /\ life' = life
         \/ t = "stop" /\ life = "running" /\ life' = "stopping",
         t # "stop" => life \in {"running", "stopping"} \/ t = "loop",
         t \in Loops => pc[t] = "sleep"
  PROVE  IInv'
<1>1. pc'[t] = "queued" /\ Others(t) /\ queue' = Append(queue, t)
  BY DEF Enter, At, IInv, TypeOK, Others, Places
<1>2. ~Waiting(t) /\ ~Active(t) /\ t \notin refreshing
  BY QueueFacts DEF IInv, InQueue, Busy, Connecting, Active
<1>3. /\ QueueTyped' /\ \A u : Waiting(u)' <=> Waiting(u) \/ u = t
      /\ \A u : Owns(u) => Owns(u)'
      /\ \A u : Active(u) => Active(u)'
  BY <1>1, <1>2, Joins DEF IInv
<1>4. TypeOK'
  BY <1>1, <1>3 DEF Enter, IInv, TypeOK, QueueTyped, ends, session, member, Others, Ids
<1>5. Connects' /\ Answerable'
  BY <1>1, <1>3, Untouched DEF IInv, Enter, ends, session, Others, Linked, Connecting
<1>6. InQueue'
  BY <1>1, <1>2, <1>3 DEF IInv, Enter, InQueue, TypeOK, Others, Busy, Connecting
<1>7. Placed'
  BY <1>1, Names DEF IInv, Placed, Others, Loops, Busy, Connecting
<1>8. Closes'
  <2>1. closing => t \in Calls
    BY Names DEF IInv, Closes, Placed, Loops, Leaving
  <2>2. ~closing => life' # "off"
    BY <1>2, Names DEF IInv, Closes, Loops
  <2> QED  BY <1>1, <1>3, <2>1, <2>2, Names DEF IInv, Enter, session, Closes, Others, Leaving
<1> QED  BY <1>4, <1>5, <1>6, <1>7, <1>8 DEF IInv

LEMMA ScheduledFacts ==
  ASSUME NEW places \in [Tasks -> Places]
  PROVE  /\ Scheduled(places) \in [Tasks -> Places]
         /\ \A t \in Tasks \ {"loop"} : Scheduled(places)[t] = places[t]
         /\ \/ Scheduled(places)["loop"] = places["loop"]
            \/ ~closing /\ places["loop"] = "idle" /\ Scheduled(places)["loop"] = "sleep"
  BY Names DEF Scheduled, Places

(* The reconnect loop is started, or not, and nothing else moves.           *)
LEMMA ScheduleKeeps ==
  ASSUME IInv, pc' = Scheduled(pc), queue' = queue, life' = life, life # "off",
         refreshing' = refreshing, closing' = closing, client' \in {client, None},
         cleanup' = cleanup \/ ~closing
  PROVE  InQueue' /\ Placed' /\ Closes'
<1>1. /\ pc' \in [Tasks -> Places] /\ \A t \in Tasks \ {"loop"} : pc'[t] = pc[t]
      /\ \/ pc'["loop"] = pc["loop"]
         \/ ~closing /\ pc["loop"] = "idle" /\ pc'["loop"] = "sleep"
  BY ScheduledFacts DEF IInv, TypeOK
<1>2. InQueue'
  BY <1>1, Stays, Names DEF IInv, InQueue, TypeOK, Busy, Connecting
<1>3. Placed'
  BY <1>1, Names DEF IInv, Placed, Loops, Busy, Connecting
<1>4. Closes'
  BY <1>1, Stays, Names DEF IInv, Closes, Leaving
<1> QED  BY <1>2, <1>3, <1>4

LEMMA WakePollKeeps ==
  ASSUME IInv, WakePoll
  PROVE  IInv'
<1>1. pc["poll"] = "sleep" /\ life \in {"running", "stopping"} /\ life' = life
  BY DEF WakePoll, IInv, Placed
<1>2. CASE Enter("poll")
  BY <1>1, <1>2, EnterKeeps, Names DEF Loops
<1>3. CASE /\ pc' = Scheduled(pc)
           /\ UNCHANGED <<ends, session, local, refreshing, locks, closing, missed,
                          cleanup, member, mishaps>>
  <2>1. InQueue' /\ Placed' /\ Closes'
    BY <1>1, <1>3, ScheduleKeeps DEF locks, session
  <2>2. /\ pc' \in [Tasks -> Places] /\ \A t \in Tasks \ {"loop"} : pc'[t] = pc[t]
        /\ \/ pc'["loop"] = pc["loop"]
           \/ pc["loop"] = "idle" /\ pc'["loop"] = "sleep"
    BY <1>3, ScheduledFacts DEF IInv, TypeOK
  <2>3. TypeOK'
    BY <1>1, <1>3, <2>2, Stays DEF IInv, TypeOK, QueueTyped, ends, session, locks, member, Ids
  <2>4. Connects' /\ Answerable'
    BY <1>3, <2>2, Stays, Untouched DEF IInv, ends, session, locks, Linked, Connecting
  <2> QED  BY <2>1, <2>3, <2>4 DEF IInv
<1> QED  BY <1>2, <1>3 DEF WakePoll

LEMMA LoopNextKeeps ==
  ASSUME IInv, LoopNext
  PROVE  IInv'
<1>1. /\ pc["loop"] \in {"connected", "raised"} /\ "loop" \notin refreshing
      /\ pc'["loop"] \in {"sleep", "idle"} /\ Others("loop") /\ Unlock("loop")
  BY Names DEF LoopNext, At, IInv, TypeOK, Others, Places
<1>2. Owns("loop") /\ ~closing
  BY <1>1, Insiders, Names DEF Active, Busy
<1>3. TypeOK'
  BY <1>1, Parts, Names DEF LoopNext, IInv, TypeOK, QueueTyped, ends, session, member, Others, Ids
<1>4. Connects' /\ Answerable'
  BY <1>1, Parts, Names, Untouched DEF IInv, LoopNext, Others, ends, session, Linked, Connecting
<1>5. InQueue'
  BY <1>1, <1>2, Parts, Names DEF IInv, LoopNext, InQueue, Others, TypeOK, Busy, Connecting
<1>6. Placed'
  BY <1>1, Names DEF IInv, LoopNext, Placed, Others, Loops, Busy, Connecting
<1>7. Closes'
  BY <1>1, <1>2, Parts, Names DEF IInv, LoopNext, Closes, Others, session, Leaving
<1> QED  BY <1>3, <1>4, <1>5, <1>6, <1>7 DEF IInv

LEMMA StoppedKeeps ==
  ASSUME IInv, Stopped
  PROVE  IInv'
<1>1. /\ pc["stop"] = "cleanup" /\ cleanup = {} /\ pc'["stop"] = "idle" /\ Others("stop")
      /\ life' = "off" /\ closing /\ life = "stopping"
  BY Names DEF Stopped, At, IInv, TypeOK, Others, Places, Closes, Leaving, Placed
<1>2. TypeOK'
  BY <1>1, Stays DEF Stopped, IInv, TypeOK, QueueTyped, ends, session, locks, member, Others, Ids
<1>3. Connects' /\ Answerable'
  BY <1>1, Stays, Names, Untouched DEF IInv, Stopped, Others, ends, session, locks, Linked, Connecting
<1>4. InQueue'
  BY <1>1, Stays, Names DEF IInv, Stopped, InQueue, Others, TypeOK, locks, Busy, Connecting
<1>5. Placed'
  BY <1>1, Names DEF IInv, Stopped, Placed, Closes, Others, Loops, Busy, Connecting
<1>6. connecting = None
  BY <1>1, Names
  DEF IInv, Connects, Closes, Placed, Connecting, TypeOK
<1>7. Closes'
  BY <1>1, <1>6, Stays, Names DEF IInv, Stopped, Closes, Others, locks, session, Leaving
<1> QED  BY <1>2, <1>3, <1>4, <1>5, <1>7 DEF IInv

LEMMA BeginStopKeeps ==
  ASSUME IInv, BeginStop
  PROVE  IInv'
<1> DEFINE rest == Without(Tail(queue), "loop")
<1>1. /\ pc["stop"] \in {"sent", "raised"} /\ "stop" \notin refreshing /\ closing'
      /\ pc' \in [Tasks -> Places] /\ pc'["stop"] = "gather" /\ pc'["loop"] = "idle"
      /\ pc'["poll"] = (IF pc["poll"] = "dropping" THEN "dropping" ELSE "idle")
      /\ \A t \in Calls \cup {"start"} : pc'[t] = pc[t]
      /\ queue' = Without(rest, "poll")
  BY Names DEF BeginStop, IInv, TypeOK, Places
<1>2. Owns("stop") /\ ~closing /\ life = "stopping" /\ pc["start"] = "idle"
  BY <1>1, Insiders, Names DEF Active, Busy, IInv, Placed, Connecting
<1>3. queue \in Seq(Tasks) /\ IsInjective(queue) /\ queue # <<>> /\ Head(queue) = "stop"
  BY <1>2 DEF IInv, TypeOK, Owns
<1>4. /\ Tail(queue) \in Seq(Tasks) /\ IsInjective(Tail(queue))
      /\ \A u : Has(Tail(queue), u) <=> u # "stop" /\ Waiting(u)
  BY <1>3, TailFacts DEF Waiting
<1>5. /\ rest \in Seq(Tasks) /\ IsInjective(rest)
      /\ \A u : Has(rest, u) <=> u \notin {"loop", "stop"} /\ Waiting(u)
  BY <1>4, WithoutFacts
<1> HIDE DEF rest
<1>6. /\ QueueTyped'
      /\ \A u : Waiting(u)' <=> u \notin {"loop", "poll", "stop"} /\ Waiting(u)
  BY <1>1, <1>5, WithoutFacts DEF QueueTyped, Waiting
<1>7. \A u \in Tasks : pc[u] \in Busy => u = "stop" \/ (u = "poll" /\ pc[u] = "dropping")
  BY <1>2, QueueFacts DEF IInv, InQueue, Active, Busy, Connecting
<1>8. TypeOK'
  BY <1>1, <1>6 DEF BeginStop, IInv, TypeOK, QueueTyped, ends, session, member, Ids
<1>9. Connects' /\ Answerable'
  <2>1. \A u \in Tasks : pc'[u] = pc[u] \/ (pc[u] \notin Linked /\ pc'[u] \notin Linked)
    BY <1>1, <1>7, Names DEF Linked, Busy, Connecting, IInv, Placed, Loops
  <2>2. \A u \in Tasks : ~(Active(u) /\ pc[u] = "dropping")
    BY <1>1, <1>2, QueueFacts, Names DEF Active, IInv
  <2> QED  BY <1>1, <2>1, <2>2, Untouched DEF BeginStop, ends, session
<1>10. refreshing = {}
  BY <1>1, <1>2, QueueFacts, Names DEF IInv, InQueue, Active, Busy, Connecting
<1>11. \A t \in Calls : pc[t] \in {"idle", "queued"}
  BY <1>7, Names DEF IInv, Placed
<1>12. InQueue'
  BY <1>1, <1>2, <1>6, <1>7, <1>10, <1>11, Names
  DEF IInv, BeginStop, InQueue, TypeOK, Busy, Connecting
<1>13. Placed'
  BY <1>1, <1>2, Names DEF IInv, BeginStop, Placed, Loops, Busy, Connecting
<1>14. Closes'
  BY <1>1, <1>2, <1>6, <1>10, <1>11, Names DEF IInv, BeginStop, session, Closes, Leaving
<1> QED  BY <1>8, <1>9, <1>12, <1>13, <1>14 DEF IInv

LEMMA PollEndsKeeps ==
  ASSUME IInv, PollEnds
  PROVE  IInv'
<1>1. /\ pc["poll"] \in {"sent", "raised"} /\ "poll" \notin refreshing /\ Unlock("poll")
      /\ pc'["poll"] \in {"sleep", "dropping"} /\ Others("poll")
  BY Names DEF PollEnds, At, IInv, TypeOK, Others, Places
<1>2. Owns("poll") /\ ~closing /\ life \in {"running", "stopping"} /\ pc["start"] = "idle"
  BY <1>1, Insiders, Names DEF Active, Busy, IInv, Placed, Connecting
<1>3. \A u \in Tasks \ {"poll"} : pc[u] \notin Busy
  BY <1>2, QueueFacts DEF IInv, InQueue, Active, Busy, Connecting
<1>4. InQueue'
  BY <1>1, <1>2, Parts, Names DEF IInv, PollEnds, InQueue, Others, TypeOK, Busy, Connecting
<1>5. Placed'
  BY <1>1, Names DEF IInv, PollEnds, Placed, Others, Loops, Busy, Connecting
<1>6. Closes'
  BY <1>1, <1>2, Parts, Names DEF IInv, PollEnds, ClearSession, Closes, Others, session, Leaving
<1>7. CASE UNCHANGED <<session, local>> /\ pc'["poll"] = "sleep"
  <2>1. missed' \in 0..MaxMissed /\ mishaps' \in 0..MaxMishaps
    BY Bounds DEF PollEnds, Mishap, IInv, TypeOK
  <2>2. TypeOK'
    BY <1>1, <1>7, <2>1, Parts, Names
    DEF PollEnds, IInv, TypeOK, QueueTyped, ends, session, member, Others, Ids
  <2>3. Connects' /\ Answerable'
    BY <1>1, <1>7, Parts, Names, Untouched
    DEF IInv, PollEnds, Others, ends, session, Linked, Connecting
  <2> QED  BY <1>4, <1>5, <1>6, <2>2, <2>3 DEF IInv
<1>8. CASE /\ proxy # None /\ missed' = 0 /\ ClearSession /\ pc'["poll"] = "dropping"
           /\ local' = [local EXCEPT !["poll"] = proxy]
  <2>1. mishaps' \in 0..MaxMishaps
    BY Bounds DEF PollEnds, Mishap, IInv, TypeOK
  <2>2. TypeOK'
    BY <1>1, <1>8, <2>1, Parts, Names, Bounds
    DEF PollEnds, ClearSession, IInv, TypeOK, QueueTyped, ends, member, Others, Ids
  <2>3. connecting = None /\ proxy = client /\ proxy \in Client
    BY <1>8 DEF IInv, Connects, Answerable, ProxyIsClient, TypeOK, Ids
  <2>4. Connects'
    BY <1>1, <1>8, <2>3, Names
    DEF IInv, PollEnds, ClearSession, Connects, Others, TypeOK, Connecting
  <2>5. LinksKnown'
    <3> SUFFICES ASSUME NEW c \in Client, link[c] = "up"
                 PROVE  \E u \in Tasks : pc'[u] \in Holding /\ local'[u] = c
      BY DEF LinksKnown, Held, PollEnds, ends
    <3>1. CASE c = client
      BY <1>8, <2>3, <3>1, Names DEF Holding, IInv, TypeOK
    <3>2. CASE \E u \in Tasks : pc[u] \in Holding /\ local[u] = c
      <4>1. PICK u \in Tasks : pc[u] \in Holding /\ local[u] = c
        BY <3>2
      <4>2. u # "poll"
        BY <1>1, <4>1 DEF Holding
      <4> QED  BY <1>1, <1>8, <4>1, <4>2 DEF Others, IInv, TypeOK
    <3> QED  BY <3>1, <3>2 DEF IInv, Answerable, LinksKnown, Held
  <2>6. Answerable'
    BY <1>1, <1>3, <1>8, <2>5, Names
    DEF ClearSession, Answerable, ProxyIsClient, ClientKnown, StartsClient, SendersKnown,
        Others, Busy, Connecting
  <2> QED  BY <1>4, <1>5, <1>6, <2>2, <2>4, <2>6 DEF IInv
<1> QED  BY <1>7, <1>8, <1>1, Names DEF PollEnds, At, IInv, TypeOK

-------------------------------------------------------------------------------
(* async_stop after the loops were cancelled, and the end of a drop.        *)

LEMMA DisconnectKeeps ==
  ASSUME IInv, Disconnect
  PROVE  IInv'
<1>1. /\ pc["stop"] = "gather" /\ pc'["stop"] = "disconnecting" /\ Others("stop")
      /\ pc["poll"] = "idle" /\ connecting = None /\ connecting' = "stop"
      /\ client' = None /\ proxy' = None /\ page' = None
      /\ local' = [local EXCEPT !["stop"] = client]
  BY Names DEF Disconnect, ClearSession, At, IInv, TypeOK, Others, Places
<1>2. closing /\ life = "stopping" /\ refreshing = {}
  BY <1>1, Names DEF IInv, Closes, Placed, Leaving
<1>3. \A u \in Tasks : pc[u] \notin Linked
  BY <1>1, <1>2, Names DEF IInv, Closes, Placed, Linked, Connecting, Leaving
<1>4. TypeOK'
  <2>1. missed' \in 0..MaxMissed /\ local' \in [Tasks -> Ids] /\ connecting' \in Tasks
    BY <1>1, Names, Bounds DEF Disconnect, IInv, TypeOK
  <2> QED  BY <1>1, <2>1, Stays, Names
  DEF Disconnect, IInv, TypeOK, QueueTyped, ends, member, Others, Ids
<1>5. InQueue' /\ Placed'
  BY <1>1, Stays, Names
  DEF IInv, Disconnect, InQueue, Placed, Others, TypeOK, Loops, Busy, Connecting
<1>6. Closes'
  BY <1>1, <1>2, Stays, Names DEF IInv, Disconnect, Closes, Others, Leaving
<1>7. Connects'
  BY <1>1, <1>3, Names DEF IInv, Connects, Others, TypeOK, Linked, Connecting
<1>8. LinksKnown'
  <2>1. \A u \in Tasks : pc[u] \notin Holding
    BY <1>3 DEF Linked, Holding, Connecting
  <2> QED  BY <1>1, <2>1, Names DEF IInv, Disconnect, ends, Answerable, LinksKnown, Held, Holding, TypeOK
<1>9. Answerable'
  BY <1>1, <1>3, <1>8, Names
  DEF Answerable, ProxyIsClient, ClientKnown, StartsClient, SendersKnown, Others, Linked, Connecting
<1> QED  BY <1>4, <1>5, <1>6, <1>7, <1>9 DEF IInv

LEMMA DisconnectedKeeps ==
  ASSUME IInv, Disconnected
  PROVE  IInv'
<1>1. /\ pc["stop"] = "disconnecting" /\ pc'["stop"] = "cleanup" /\ Others("stop")
      /\ connecting' = None /\ local' = [local EXCEPT !["stop"] = None]
      /\ UNCHANGED <<client, proxy, page>>
      /\ link' \in [Client -> {"up", "down", "free"}]
      /\ \A c \in Client : link'[c] = "up" => link[c] = "up" /\ c # local["stop"]
  BY Names DEF Disconnected, Closed, At, IInv, TypeOK, Others, Places, session, Ids
<1>2. closing /\ life = "stopping" /\ client = None /\ pc["poll"] = "idle"
  BY <1>1, Names DEF IInv, Closes, Placed, Leaving
<1>3. \A u \in Tasks \ {"stop"} : pc[u] \notin Linked
  BY <1>1, <1>2, Names DEF IInv, Closes, Placed, Linked, Connecting, Leaving
<1>4. TypeOK'
  <2>1. local' \in [Tasks -> Ids] /\ connecting' \in Tasks \cup {None}
    BY <1>1 DEF IInv, TypeOK, Ids
  <2> QED  BY <1>1, <2>1, Stays
  DEF Disconnected, IInv, TypeOK, QueueTyped, session, member, Others, Ids
<1>5. InQueue' /\ Placed'
  BY <1>1, Stays, Names
  DEF IInv, Disconnected, InQueue, Placed, Others, TypeOK, Loops, Busy, Connecting
<1>6. Closes'
  BY <1>1, <1>2, Stays, Names DEF IInv, Disconnected, Closes, Others, Leaving
<1>7. Connects'
  BY <1>1, <1>3, Names DEF IInv, Connects, Others, TypeOK, Linked, Connecting
<1>8. LinksKnown'
  <2>1. \A u \in Tasks \ {"stop"} : pc[u] \notin Holding
    BY <1>3 DEF Linked, Holding, Connecting
  <2> QED  BY <1>1, <2>1, Names DEF IInv, Answerable, LinksKnown, Held
<1>9. Answerable'
  BY <1>1, <1>2, <1>3, <1>8, Names
  DEF IInv, Answerable, ProxyIsClient, ClientKnown, StartsClient, SendersKnown, Others, Linked, Connecting
<1> QED  BY <1>4, <1>5, <1>6, <1>7, <1>9 DEF IInv

LEMMA DroppedKeeps ==
  ASSUME IInv, NEW t \in Tasks, Dropped(t)
  PROVE  IInv'
<1> DEFINE next == IF t = "poll" /\ ~Owns(t) THEN IF closing THEN "idle" ELSE "sleep"
                   ELSE "raised"
           placed == [pc EXCEPT ![t] = next]
<1>1. /\ pc[t] = "dropping" /\ placed \in [Tasks -> Places] /\ placed[t] = next
      /\ \A u \in Tasks \ {t} : placed[u] = pc[u]
      /\ pc' = Scheduled(placed) /\ local' = [local EXCEPT ![t] = None]
  BY DEF Dropped, IInv, TypeOK, Places
<1>2. next \in {"idle", "sleep", "raised"} /\ (next # "raised" <=> t = "poll" /\ ~Owns(t))
  OBVIOUS
<1>3. next = "idle" => closing
  OBVIOUS
<1>4. next # "raised" => t \notin refreshing /\ t = "poll"
  BY <1>2, Names DEF IInv, InQueue, Active
<1>5. next = "raised" => Active(t) /\ ~closing
  BY <1>1, <1>2, QueueFacts, Names
  DEF IInv, InQueue, Active, Closes, Placed, Leaving, Busy, Connecting
<1>6. next = "sleep" => ~closing
  OBVIOUS
<1> HIDE DEF placed, next
<1>7. /\ pc' \in [Tasks -> Places] /\ \A u \in Tasks \ {t, "loop"} : pc'[u] = pc[u]
      /\ t # "loop" => /\ pc'[t] = next
                       /\ \/ pc'["loop"] = pc["loop"]
                          \/ ~closing /\ pc["loop"] = "idle" /\ pc'["loop"] = "sleep"
      /\ t = "loop" => pc'[t] = "raised"
  BY <1>1, <1>2, <1>4, ScheduledFacts, Names
<1>8. /\ link' \in [Client -> {"up", "down", "free"}]
      /\ \A c \in Client : link'[c] = "up" => link[c] = "up" /\ c # local[t]
  BY <1>1 DEF Dropped, Closed, IInv, TypeOK, Connects
<1>9. TypeOK'
  BY <1>1, <1>7, <1>8, Stays DEF Dropped, IInv, TypeOK, QueueTyped, session, locks, member, Ids
<1>a. UNCHANGED <<client, proxy, refreshing, queue, connecting, closing, cleanup, life>>
  BY DEF Dropped, session, locks
<1>b. /\ next = "raised" \/ (t = "poll" /\ next \in {"idle", "sleep"})
      /\ pc["loop"] = "idle" => ~Waiting("loop") /\ "loop" \notin refreshing
  BY <1>2, <1>4, Names DEF IInv, InQueue, Busy, Connecting
<1>c. /\ \A u \in Tasks : pc'[u] = "queued" => pc[u] = "queued"
      /\ \A u \in Tasks : pc'[u] = pc[u] \/ (u = t /\ pc'[u] = next)
                          \/ (u = "loop" /\ pc[u] = "idle" /\ pc'[u] = "sleep" /\ ~closing)
  BY <1>1, <1>7, <1>b, Names
<1>10. InQueue'
  <2> USE Stays DEF IInv
  <2>1. \A u \in Tasks : Waiting(u)' => /\ u # "start"
                                        /\ pc'[u] = "queued" \/ (pc'[u] \in Busy /\ Owns(u)')
    <3> SUFFICES ASSUME NEW u \in Tasks, Waiting(u)
                 PROVE  /\ u # "start"
                        /\ pc'[u] = "queued" \/ (pc'[u] \in Busy /\ Owns(u))
      BY <1>a
    <3>1. u # "start" /\ (pc[u] = "queued" \/ (pc[u] \in Busy /\ Owns(u)))
      BY Waiters
    <3>2. CASE pc'[u] = pc[u]
      BY <3>1, <3>2
    <3>3. CASE u = t /\ pc'[u] = next
      BY <1>1, <1>2, <3>1, <3>3 DEF Busy
    <3> QED  BY <1>b, <1>c, <3>2, <3>3
  <2>2. \A u \in Tasks : pc'[u] = "queued" => Waiting(u)'
    BY <1>a, <1>c DEF InQueue
  <2>3. \A u \in Tasks : pc'[u] \in Busy => Active(u)' \/ (u = "poll" /\ pc'[u] = "dropping")
    BY <1>a, <1>b, <1>c, <1>5 DEF InQueue, Busy, Connecting
  <2>4. \A u \in refreshing' : pc'[u] \in Busy /\ Active(u)'
    BY <1>a, <1>b, <1>c, <1>4 DEF InQueue, TypeOK, Busy
  <2> QED  BY <2>1, <2>2, <2>3, <2>4 DEF InQueue
<1>11. Placed'
  <2>1. pc[t] \in Busy /\ \A u \in Tasks : pc'[u] # pc[u] =>
          \/ u = t /\ pc'[u] \in Busy
          \/ u = "poll" /\ pc'[u] \in {"idle", "sleep"} /\ pc[u] = "dropping"
          \/ u = "loop" /\ pc'[u] = "sleep"
    BY <1>1, <1>b, <1>c DEF Busy
  <2> QED  BY <1>a, <2>1, Names DEF IInv, Placed, Loops, Busy, Connecting
<1>12. Closes'
  BY <1>1, <1>2, <1>3, <1>4, <1>5, <1>6, <1>7, Stays, Names
  DEF IInv, Dropped, session, locks, Closes, Placed, Leaving
<1>13. \A u \in Tasks \ {t} : /\ pc[u] \in Linked \/ pc'[u] \in Linked => pc'[u] = pc[u]
                              /\ local'[u] = local[u]
  BY <1>1, <1>7, Names DEF Linked, Connecting, IInv, TypeOK
<1>14. pc[t] \notin Connecting /\ pc'[t] \notin Linked
  BY <1>1, <1>2, <1>7 DEF Connecting, Linked
<1>15. Connects'
  BY <1>13, <1>14, Names DEF IInv, Dropped, session, locks, Connects, Linked, Connecting, TypeOK
<1>16. LinksKnown'
  <2> SUFFICES ASSUME NEW c \in Client, link'[c] = "up"
               PROVE  c \in Held' \cup {client}
    BY DEF LinksKnown, Dropped, session
  <2>1. CASE \E u \in Tasks : pc[u] \in Holding /\ local[u] = c
    <3>1. PICK u \in Tasks : pc[u] \in Holding /\ local[u] = c
      BY <2>1
    <3>2. u # t
      BY <1>8, <3>1
    <3> QED  BY <1>13, <3>1, <3>2 DEF Held, Holding, Linked, Connecting
  <2> QED  BY <1>8, <2>1 DEF IInv, Answerable, LinksKnown, Held
<1>17. Answerable'
  <2>1. ProxyIsClient' /\ ClientKnown'
    BY <1>13, <1>14, Names DEF IInv, Dropped, session, locks, Answerable, ProxyIsClient, ClientKnown,
                        Linked, Connecting, TypeOK
  <2>2. StartsClient'
    <3> SUFFICES ASSUME NEW u \in Tasks, pc'[u] = "starting", link'[local'[u]] = "up"
                 PROVE  client = local'[u]
      BY <1>a DEF StartsClient
    <3>1. u # t /\ pc[u] = "starting" /\ local'[u] = local[u]
      BY <1>13, <1>14 DEF Linked, Connecting
    <3>2. link[local[u]] = "up"
      BY <1>8, <3>1 DEF IInv, Connects
    <3> QED  BY <3>1, <3>2 DEF IInv, Answerable, StartsClient
  <2>3. SendersKnown'
    <3> SUFFICES ASSUME NEW u \in Tasks, pc'[u] = "sending", link'[local'[u]] = "up",
                        proxy # local'[u]
                 PROVE  \E v \in Tasks : Active(v)' /\ pc'[v] = "dropping" /\ local'[v] = local'[u]
      BY <1>a DEF SendersKnown
    <3>1. u # t /\ pc[u] = "sending" /\ local'[u] = local[u]
      BY <1>13, <1>14 DEF Linked
    <3>2. link[local[u]] = "up" /\ local[u] # local[t]
      BY <1>8, <3>1 DEF IInv, Connects
    <3>3. PICK v \in Tasks : Active(v) /\ pc[v] = "dropping" /\ local[v] = local[u]
      BY <3>1, <3>2 DEF IInv, Answerable, SendersKnown
    <3>4. v # t /\ Active(v)' /\ pc'[v] = "dropping" /\ local'[v] = local'[u]
      BY <1>13, <1>a, <3>1, <3>2, <3>3, Stays DEF Linked, IInv
    <3> QED  BY <3>4
  <2> QED  BY <1>16, <2>1, <2>2, <2>3 DEF Answerable
<1> QED  BY <1>9, <1>10, <1>11, <1>12, <1>15, <1>17 DEF IInv

-------------------------------------------------------------------------------
(* Callbacks and the environment.                                          *)

(* No task moves, the session stays, and links may only go.                 *)
LEMMA Outside ==
  ASSUME IInv, cleanup' \subseteq cleanup, link' \in [Client -> {"up", "down", "free"}],
         UNCHANGED <<client, proxy, pc, local, refreshing, queue, connecting, closing, life>>,
         \A c \in Client : link'[c] = "up" => link[c] = "up"
  PROVE  QueueTyped' /\ InQueue' /\ Placed' /\ Closes' /\ Connects' /\ Answerable'
<1>1. QueueTyped' /\ InQueue'
  BY Stays DEF IInv, InQueue
<1>2. Placed' /\ Closes' /\ Connects'
  BY Stays, Names DEF IInv, Placed, Closes, Connects
<1>3. ProxyIsClient' /\ ClientKnown' /\ LinksKnown'
  BY DEF IInv, Answerable, ProxyIsClient, ClientKnown, LinksKnown, Held
<1>4. StartsClient' /\ SendersKnown'
  BY Stays DEF IInv, Connects, Answerable, StartsClient, SendersKnown
<1> QED  BY <1>1, <1>2, <1>3, <1>4 DEF Answerable

LEMMA OnDisconnectedKeeps ==
  ASSUME IInv, NEW c \in Client, OnDisconnected(c)
  PROVE  IInv'
<1>1. /\ link[c] = "down" /\ link' \in [Client -> {"up", "down", "free"}]
      /\ \A d \in Client : link'[d] = "up" => link[d] = "up"
      /\ UNCHANGED <<local, refreshing, queue, connecting, left, closing, life>>
  BY DEF OnDisconnected, IInv, TypeOK, locks
<1>2. CASE UNCHANGED <<session, missed, cleanup, pc>>
  <2>1. QueueTyped' /\ InQueue' /\ Placed' /\ Closes' /\ Connects' /\ Answerable'
    BY <1>1, <1>2, Outside DEF session
  <2>2. TypeOK'
    BY <1>1, <1>2, <2>1 DEF OnDisconnected, IInv, TypeOK, QueueTyped, session, member, Ids
  <2> QED  BY <2>1, <2>2 DEF IInv
<1>3. CASE /\ ~closing /\ client = c /\ ClearSession /\ missed' = 0
           /\ cleanup' = (IF proxy = None THEN cleanup ELSE cleanup \cup {proxy})
           /\ pc' = Scheduled(pc)
  <2>1. life # "off"
    BY <1>3, Names DEF IInv, Closes
  <2>2. InQueue' /\ Placed' /\ Closes'
    BY <1>1, <1>3, <2>1, ScheduleKeeps DEF ClearSession
  <2>3. /\ pc' \in [Tasks -> Places]
        /\ \A u \in Tasks : pc'[u] = pc[u] \/ (pc[u] = "idle" /\ pc'[u] = "sleep")
    BY <1>3, ScheduledFacts DEF IInv, TypeOK
  <2>4. TypeOK'
    <3>1. missed' \in 0..MaxMissed /\ cleanup' \subseteq Client
      BY <1>3, Bounds DEF IInv, TypeOK, Ids
    <3> QED  BY <1>1, <1>3, <2>3, <3>1, Stays
             DEF OnDisconnected, ClearSession, IInv, TypeOK, QueueTyped, member, Ids
  <2>5. Connects'
    BY <1>1, <1>3, <2>3, Names DEF IInv, Connects, ClearSession, Connecting, TypeOK
  <2>6. ProxyIsClient' /\ ClientKnown'
    BY <1>3 DEF ProxyIsClient, ClientKnown, ClearSession
  <2>7. LinksKnown'
    BY <1>1, <1>3, <2>3 DEF IInv, Answerable, LinksKnown, Held, Holding
  <2>8. StartsClient'
    <3> SUFFICES ASSUME NEW t \in Tasks, pc'[t] = "starting", link'[local'[t]] = "up"
                 PROVE  FALSE
      BY DEF StartsClient
    <3>1. pc[t] = "starting" /\ link[local[t]] = "up"
      BY <1>1, <2>3 DEF IInv, Connects
    <3> QED  BY <1>1, <1>3, <3>1 DEF IInv, Answerable, StartsClient
  <2>9. SendersKnown'
    <3> SUFFICES ASSUME NEW t \in Tasks, pc'[t] = "sending", link'[local'[t]] = "up"
                 PROVE  \E u \in Tasks : Active(u)' /\ pc'[u] = "dropping" /\ local'[u] = local'[t]
      BY DEF SendersKnown
    <3>1. pc[t] = "sending" /\ link[local[t]] = "up"
      BY <1>1, <2>3 DEF IInv, Connects
    <3>2. proxy # local[t]
      BY <1>1, <1>3, <3>1, Names DEF IInv, Connects, Answerable, ProxyIsClient
    <3>3. PICK u \in Tasks : Active(u) /\ pc[u] = "dropping" /\ local[u] = local[t]
      BY <3>1, <3>2 DEF IInv, Answerable, SendersKnown
    <3>4. Active(u)' /\ pc'[u] = "dropping" /\ local'[u] = local'[t]
      BY <1>1, <2>3, <3>3, Stays DEF IInv
    <3> QED  BY <3>4
  <2> QED  BY <2>2, <2>4, <2>5, <2>6, <2>7, <2>8, <2>9 DEF IInv, Answerable
<1> QED  BY <1>2, <1>3 DEF OnDisconnected

LEMMA CleanedUpKeeps ==
  ASSUME IInv, NEW c \in Client, CleanedUp(c)
  PROVE  IInv'
<1>1. QueueTyped' /\ InQueue' /\ Placed' /\ Closes' /\ Connects' /\ Answerable'
  BY Outside DEF CleanedUp, IInv, TypeOK, ends, session, tasks, locks
<1>2. TypeOK'
  BY <1>1 DEF CleanedUp, IInv, TypeOK, QueueTyped, ends, session, tasks, locks, member, Ids
<1> QED  BY <1>1, <1>2 DEF IInv

LEMMA ReportKeeps ==
  ASSUME IInv, NEW c \in Client, Report(c)
  PROVE  IInv'
<1>1. QueueTyped' /\ InQueue' /\ Placed' /\ Closes' /\ Connects' /\ Answerable'
  BY Outside DEF Report, IInv, TypeOK, ends, tasks, locks
<1>2. missed' \in 0..MaxMissed /\ page' \in Ids
  BY Bounds DEF Report, Ids
<1>3. {notReported', provReported', issue'} \subseteq BOOLEAN
  BY DEF Report, NotifyProvisioned, member, IInv, TypeOK
<1>4. TypeOK'
  BY <1>1, <1>2, <1>3 DEF Report, IInv, TypeOK, QueueTyped, ends, tasks, locks, Ids
<1> QED  BY <1>1, <1>4 DEF IInv

LEMMA EnvironmentKeeps ==
  ASSUME IInv, Environment
  PROVE  IInv'
<1>1. /\ bearer' \in {"mesh", "reset", "gone"} /\ link' \in [Client -> {"up", "down", "free"}]
      /\ \A c \in Client : link'[c] = "up" => link[c] = "up"
      /\ UNCHANGED <<session, tasks, locks, closing, missed, cleanup, member, life>>
  BY DEF Environment, LinkBreaks, Leave, Return, IInv, TypeOK
<1>2. QueueTyped' /\ InQueue' /\ Placed' /\ Closes' /\ Connects' /\ Answerable'
  BY <1>1, Outside DEF session, tasks, locks
<1>3. mishaps' \in 0..MaxMishaps
  BY Bounds DEF Environment, LinkBreaks, Leave, Return, Mishap, IInv, TypeOK
<1>4. TypeOK'
  BY <1>1, <1>2, <1>3 DEF IInv, TypeOK, QueueTyped, session, tasks, locks, member, Ids
<1> QED  BY <1>2, <1>4 DEF IInv

-------------------------------------------------------------------------------
(* The invariant holds.                                                    *)

LEMMA InitKeeps ==
  ASSUME Init
  PROVE  IInv
<1>1. \A t \in Tasks : pc[t] = "idle" /\ local[t] = None /\ ~Waiting(t) /\ ~Owns(t)
  BY DEF Init, Waiting, Has, Owns
<1>2. TypeOK
  <2>1. queue \in Seq(Tasks) /\ IsInjective(queue)
    BY EmptySeq DEF Init, IsInjective
  <2>2. left \in 0..MaxCandidates /\ missed \in 0..MaxMissed /\ mishaps \in 0..MaxMishaps
    BY Bounds DEF Init
  <2> QED  BY <2>1, <2>2, Names DEF Init, TypeOK, Ids, Places
<1>3. InQueue /\ Placed
  BY <1>1, Names DEF Init, InQueue, Placed, Busy, Connecting, Loops
<1>4. Closes /\ Connects
  BY <1>1, Names DEF Init, Closes, Connects, Leaving, Connecting
<1>5. Answerable
  BY <1>1, Names
  DEF Init, Answerable, ProxyIsClient, ClientKnown, LinksKnown, StartsClient, SendersKnown
<1> QED  BY <1>2, <1>3, <1>4, <1>5 DEF IInv

LEMMA StepKeeps ==
  ASSUME IInv, NEW t \in Tasks, Step(t)
  PROVE  IInv'
  BY GrantedKeeps, CallEndsKeeps, BeginSendKeeps, SendOkKeeps, SendFailsKeeps, DroppedKeeps,
     RefreshedKeeps, AcquireKeeps, EstablishKeeps, EstablishResetKeeps, EstablishFailsKeeps,
     InstallKeeps, DiscardKeeps, StartFailsKeeps, UnwoundKeeps
  DEF Step

LEMMA QueuesKeeps ==
  ASSUME IInv, Unload \/ WakeLoop \/ \E t \in Calls : Call(t)
  PROVE  IInv'
<1>1. CASE Unload
  <2>1. pc["stop"] = "idle"
    BY <1>1, Names DEF Unload, IInv, Placed
  <2> QED  BY <1>1, <2>1, EnterKeeps, Names DEF Unload, Loops
<1>2. CASE WakeLoop
  BY <1>2, EnterKeeps, Names DEF WakeLoop
<1>3. ASSUME NEW t \in Calls, Call(t)
      PROVE  IInv'
  BY <1>3, EnterKeeps, Names DEF Call, Loops
<1> QED  BY <1>1, <1>2, <1>3

LEMMA StutterKeeps ==
  ASSUME IInv, UNCHANGED vars
  PROVE  IInv'
<1>1. QueueTyped' /\ InQueue' /\ Placed' /\ Closes' /\ Connects' /\ Answerable'
  BY Outside DEF vars, ends, session, tasks, locks, IInv, TypeOK
<1>2. TypeOK'
  BY <1>1 DEF vars, ends, session, tasks, locks, member, IInv, TypeOK, QueueTyped, Ids
<1> QED  BY <1>1, <1>2 DEF IInv

LEMMA NextKeeps == IInv /\ [Next]_vars => IInv'
<1> SUFFICES ASSUME IInv, [Next]_vars
             PROVE  IInv'
  OBVIOUS
<1>1. CASE Setup \/ StartEnds \/ WakePoll \/ LoopNext \/ PollEnds
  BY <1>1, SetupKeeps, StartEndsKeeps, WakePollKeeps, LoopNextKeeps, PollEndsKeeps
<1>2. CASE Unload \/ WakeLoop \/ \E t \in Calls : Call(t)
  BY <1>2, QueuesKeeps
<1>3. CASE Stop
  BY <1>3, BeginStopKeeps, DisconnectKeeps, DisconnectedKeeps, StoppedKeeps DEF Stop
<1>4. CASE \E t \in Tasks : Step(t)
  BY <1>4, StepKeeps
<1>5. CASE Callbacks
  BY <1>5, OnDisconnectedKeeps, CleanedUpKeeps, ReportKeeps DEF Callbacks
<1>6. CASE Environment
  BY <1>6, EnvironmentKeeps
<1>7. CASE UNCHANGED vars
  BY <1>7, StutterKeeps
<1> QED  BY <1>1, <1>2, <1>3, <1>4, <1>5, <1>6, <1>7 DEF Next

LEMMA Inductive == Spec => []IInv
<1>1. Init => IInv
  BY InitKeeps
<1>2. IInv /\ [Next]_vars => IInv'
  BY NextKeeps
<1> QED  BY <1>1, <1>2, PTL DEF Spec

(* Every variable has its type, for any bounds.                             *)
THEOREM TypeCorrect == Spec => []TypeOK
<1>1. IInv => TypeOK
  BY DEF IInv
<1> QED  BY <1>1, Inductive, PTL

(* Every open link is _client or held by a task that will close it, and the *)
(* installed proxy is the one built on _client: however the disconnect      *)
(* callback, failed writes, missed polls, set-up and stop interleave, no    *)
(* link is left open that nobody knows of (device.py:2851-2855, 2910-2945). *)
THEOREM NoStray == Spec => []NoStrayLink
<1>1. IInv => NoStrayLink
  BY DEF IInv, Answerable, ProxyIsClient, LinksKnown, NoStrayLink
<1> QED  BY <1>1, Inductive, PTL

(* Two links that work are never both sent on, although the first           *)
(* connection and a drop do without the operation lock.                     *)
THEOREM OneSession == Spec => []OneSessionSends
<1>1. IInv => OneSessionSends
  <2> SUFFICES ASSUME IInv, NEW t \in Tasks, NEW u \in Tasks,
                      {pc[t], pc[u]} \subseteq {"sending", "starting"},
                      link[local[t]] = "up", link[local[u]] = "up"
               PROVE  local[t] = local[u]
    BY DEF OneSessionSends
  <2>1. ASSUME NEW x \in Tasks, NEW y \in Tasks, pc[x] = "starting", pc[y] = "starting"
        PROVE  x = y
    BY <2>1 DEF IInv, Connects, Connecting
  <2>2. ASSUME NEW x \in Tasks, NEW y \in Tasks, pc[x] = "sending", pc[y] \in {"sending", "starting"},
               link[local[x]] = "up", link[local[y]] = "up", x # y, proxy # local[x]
        PROVE  FALSE
    <3>1. PICK z \in Tasks : Active(z) /\ pc[z] = "dropping"
      BY <2>2 DEF IInv, Answerable, SendersKnown
    <3>2. Active(x) /\ Active(y)
      BY <2>2, Insiders DEF Busy, Connecting
    <3>3. z # x /\ z # y
      BY <2>2, <3>1
    <3> QED  BY <2>2, <3>1, <3>2, <3>3, QueueFacts DEF Active, IInv
  <2>3. ASSUME NEW x \in Tasks, NEW y \in Tasks, pc[x] = "sending", pc[y] = "starting", proxy = local[x]
        PROVE  FALSE
    BY <2>3, Names DEF IInv, Connects, Connecting
  <2> QED  BY <2>1, <2>2, <2>3
<1> QED  BY <1>1, Inductive, PTL

(* After async_stop nothing is left of the runtime, and nothing brings any  *)
(* of it back before the next set-up: not a drop that was under way, nor a  *)
(* call that had queued for the operation lock.                             *)
THEOREM StoppedClean == Spec => []NothingAfterStop
<1>1. IInv => NothingAfterStop
  <2> SUFFICES ASSUME IInv, life = "off"
               PROVE  /\ proxy = None /\ client = None /\ cleanup = {} /\ connecting = None
                      /\ \A c \in Client : link[c] # "up"
                      /\ \A t \in Tasks \ Calls : pc[t] = "idle"
    BY DEF NothingAfterStop
  <2>1. proxy = None /\ client = None /\ cleanup = {} /\ connecting = None
    BY DEF IInv, Closes, Answerable, ProxyIsClient
  <2>2. \A t \in Tasks \ Calls : pc[t] = "idle"
    BY Names DEF IInv, Closes, Placed
  <2>3. \A t \in Tasks : pc[t] \notin Holding
    BY <2>2, Names DEF IInv, Closes, Holding
  <2>4. \A c \in Client : link[c] # "up"
    BY <2>1, <2>3, Names DEF IInv, Answerable, LinksKnown, Held
  <2> QED  BY <2>1, <2>2, <2>4
<1> QED  BY <1>1, Inductive, PTL

=============================================================================
