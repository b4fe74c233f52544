--------------------------- MODULE PermissionCache ---------------------------
(***************************************************************************)
(* Who may read the analytics: the RBAC middleware, the permission cache   *)
(* of each instance (lib/rbac), the lookup at the core service with its    *)
(* retries (lib/coreclient, pkg/httpclient), and the invalidation by       *)
(* rbac.permissions_changed events (lib/boot/boot.go).                     *)
(*                                                                         *)
(* The only permission any route asks for is analytics:read, so the list   *)
(* of a role's permissions is "held" or "missing": whether it has that one.*)
(*                                                                         *)
(* Time passes in ticks.  A goroutine that can run, and a response that    *)
(* arrived, wait less than a tick; only a call to the core service and the *)
(* backoff between two calls let the clock move on.                        *)
(***************************************************************************)
EXTENDS Integers, FiniteSets

CONSTANTS
  Instances,  \* running copies of the service, all on the same queue
  Roles,      \* role names
  Admin,      \* "system_admin"
  NoRole,     \* a claim or a payload that names no role
  Clients,    \* tell requests apart
  Requests,   \* the requests clients may send, see Request
  Events,     \* messages under rbac.#
  TTL,        \* RBAC_CACHE_TTL_SEC, in ticks
  Timeout,    \* http.Client.Timeout of the core client, in ticks
  Horizon     \* bound on the clock

(* A request: who sends it, the instance it is sent to and the claims of   *)
(* its token: "none" for a token that is missing or not valid, "partial"   *)
(* for a valid one that lacks userId, role or countryCode.                 *)
Request == [client: Clients, at: Instances, token: {"none", "partial", "valid"},
            role: Roles \cup {Admin}, restaurantRole: Roles \cup {NoRole}]

BrokerPlaces == {"unsent", "outbox", "ready", "acked"}

ASSUME RequestAssumption == Requests \subseteq Request
ASSUME NamesAssumption == /\ Admin \notin Roles
                          /\ NoRole \notin Roles
                          /\ Instances \cap BrokerPlaces = {}
ASSUME TimeAssumption == /\ TTL \in Nat
                         /\ Timeout \in Nat \ {0}
                         /\ Horizon \in Nat

(* httpclient.Get tries three times. *)
Attempts == 3

VARIABLES
  grant,      \* core: does a role hold analytics:read
  place,      \* of each event: a broker place, or the instance handling it
  about,      \* of each event: its roleName
  purged,     \* of each event: its handler has called Invalidate
  listening,  \* of each instance: its core-events loop runs
  cache,      \* of each instance and role: the entry, or NoEntry
  pc,         \* of each request: where its goroutine is, or its outcome
  local,      \* of each request: the variables of GetPermissions and Get
  now,        \* clock
  last        \* history: when core last held, and last did not hold, the grant

core    == <<grant, last>>
queue   == <<place, about, purged>>
request == <<pc, local>>
vars == <<grant, place, about, purged, listening, cache, pc, local, now, last>>

Grants == {"held", "missing"}

(* A cache entry; crossed is history: an Invalidate of the role fell       *)
(* between the answer of the core service and the store.                   *)
NoEntry == [grant |-> "missing", cachedAt |-> -1, crossed |-> FALSE]
Entry   == [grant: Grants, cachedAt: Nat, crossed: BOOLEAN]

(* What a request knows: what it was told of its role, the calls that       *)
(* have failed, when the call under way was sent, and crossed as above.    *)
Local == [grant: Grants, attempt: 0..(Attempts - 1), sentAt: Nat,
          crossed: BOOLEAN]

Locals(g, attempt, sentAt, crossed) ==
  [grant |-> g, attempt |-> attempt, sentAt |-> sentAt, crossed |-> crossed]

NoLocals == Locals("missing", 0, 0, FALSE)

Outcomes == {"served", "401", "403", "500", "aborted", "lost"}
PcValues == {"unsent", "lookup", "call", "backoff", "answered", "decide"}
              \cup Outcomes

Never == -1 - TTL - Timeout

(* The type of every variable. *)
TypeOK ==
  /\ grant \in [Roles -> Grants]
  /\ place \in [Events -> BrokerPlaces \cup Instances]
  /\ about \in [Events -> Roles \cup {NoRole}]
  /\ purged \in [Events -> BOOLEAN]
  /\ listening \in [Instances -> BOOLEAN]
  /\ cache \in [Instances -> [Roles -> Entry \cup {NoEntry}]]
  /\ pc \in [Requests -> PcValues]
  /\ local \in [Requests -> Local]
  /\ now \in Nat
  /\ last \in [Roles -> [Grants -> Int]]

Init ==
  /\ grant \in [Roles -> Grants]
  /\ place = [n \in Events |-> "unsent"]
  /\ about = [n \in Events |-> NoRole]
  /\ purged = [n \in Events |-> FALSE]
  /\ listening \in [Instances -> BOOLEAN]
  /\ cache = [i \in Instances |-> [r \in Roles |-> NoEntry]]
  /\ pc = [q \in Requests |-> "unsent"]
  /\ local = [q \in Requests |-> NoLocals]
  /\ now = 0
  /\ last = [r \in Roles |->
               [g \in Grants |-> IF g = grant[r] THEN 0 ELSE Never]]

(* Require: the role in the restaurant takes the place of the role. *)
RoleName(q) == IF q.restaurantRole = NoRole THEN q.role ELSE q.restaurantRole

-----------------------------------------------------------------------------
(* A request, from Authenticate to the controller *)

(* The goroutine goes on, knowing what v says. *)
Goto(q, label, v) ==
  /\ pc' = [pc EXCEPT ![q] = label]
  /\ local' = [local EXCEPT ![q] = v]
  /\ UNCHANGED <<core, queue, listening, now>>

(* It has answered the request. *)
Finish(q, outcome) == Goto(q, outcome, NoLocals)

(* Authenticate, and Require up to the lookup.  VerifyToken panics on a    *)
(* claim that is missing, and net/http closes the connection.  RoleName is *)
(* a role unless the request is an administrator's, who is not looked up.  *)
Arrive(q) ==
  /\ pc[q] = "unsent"
  /\ \/ q.token = "none" /\ Finish(q, "401")
     \/ q.token = "partial" /\ Finish(q, "aborted")
     \/ q.token = "valid" /\ q.role = Admin /\ Finish(q, "served")
     \/ q.token = "valid" /\ q.role # Admin /\ Goto(q, "lookup", NoLocals)
  /\ UNCHANGED cache

(* Mutant of Fresh: a cached entry is good for ever. *)
FreshForEver(entry) == entry # NoEntry

Fresh(entry) == entry # NoEntry /\ now - entry.cachedAt < TTL

(* GetPermissions finds a fresh entry under the read lock. *)
Hit(q) ==
  LET entry == cache[q.at][RoleName(q)]
  IN  /\ pc[q] = "lookup"
      /\ Fresh(entry)
      /\ Goto(q, "decide", Locals(entry.grant, 0, 0, FALSE))
      /\ UNCHANGED cache

(* It finds none and calls the core service, without a lock: any number of *)
(* requests may look the same role up at once.                             *)
Miss(q) ==
  /\ pc[q] = "lookup"
  /\ ~Fresh(cache[q.at][RoleName(q)])
  /\ Goto(q, "call", Locals("missing", 0, now, FALSE))
  /\ UNCHANGED cache

(* The core service answers with what it holds at this moment; the answer  *)
(* is still on its way.                                                    *)
Answer(q) ==
  /\ pc[q] = "call"
  /\ Goto(q, "answered", Locals(grant[RoleName(q)], local[q].attempt,
                                local[q].sentAt, FALSE))
  /\ UNCHANGED cache

Calling(q) == pc[q] \in {"call", "answered"}

(* Mutant of CallFails: one attempt too many. *)
CallFailsOnceMore(q) ==
  /\ Calling(q)
  /\ LET failed == local[q].attempt + 1
     IN  \/ /\ failed <= Attempts
            /\ Goto(q, "backoff", Locals("missing", failed, 0, FALSE))
         \/ /\ failed > Attempts
            /\ Finish(q, "500")
  /\ UNCHANGED cache

(* Mutant of CallFails: failed attempts are not counted. *)
CallFailsUncounted(q) ==
  /\ Calling(q)
  /\ Goto(q, "backoff", local[q])
  /\ UNCHANGED cache

(* A refused connection, a timeout, a lost answer or a status of 500 and   *)
(* more: Get sleeps and tries again, up to three calls in all.             *)
CallFails(q) ==
  /\ Calling(q)
  /\ LET failed == local[q].attempt + 1
     IN  \/ /\ failed < Attempts
            /\ Goto(q, "backoff", Locals("missing", failed, 0, FALSE))
         \/ /\ failed = Attempts
            /\ Finish(q, "500")
  /\ UNCHANGED cache

Resend(q) ==
  /\ pc[q] = "backoff"
  /\ Goto(q, "call", Locals("missing", local[q].attempt, now, FALSE))
  /\ UNCHANGED cache

(* A status of 400 to 499, a body that breaks off or does not decode: Get  *)
(* returns the error at once.                                              *)
CallRefused(q) ==
  /\ Calling(q)
  /\ Finish(q, "500")
  /\ UNCHANGED cache

(* Get has the answer, and GetPermissions stores the entry under the lock, *)
(* over whatever is there.                                                 *)
Store(q) ==
  /\ pc[q] = "answered"
  /\ cache' = [cache EXCEPT ![q.at][RoleName(q)] =
                 [grant |-> local[q].grant, cachedAt |-> now,
                  crossed |-> local[q].crossed]]
  /\ Goto(q, "decide", Locals(local[q].grant, 0, 0, FALSE))

(* Require lets the request through or answers FORBIDDEN. *)
Decide(q) ==
  /\ pc[q] = "decide"
  /\ Finish(q, IF local[q].grant = "held" THEN "served" ELSE "403")
  /\ UNCHANGED cache

-----------------------------------------------------------------------------
(* The core service and its events *)

Opposite(g) == IF g = "held" THEN "missing" ELSE "held"

(* An administrator grants the permission to a role or takes it away, and  *)
(* the event goes to core's outbox.                                        *)
Change(r, n) ==
  /\ place[n] = "unsent"
  /\ grant' = [grant EXCEPT ![r] = Opposite(@)]
  /\ last' = [last EXCEPT ![r] = [@ EXCEPT ![Opposite(grant[r])] = now]]
  /\ place' = [place EXCEPT ![n] = "outbox"]
  /\ about' = [about EXCEPT ![n] = r]
  /\ UNCHANGED <<purged, listening, cache, request, now>>

(* Some other event under rbac.#, which names no role. *)
Unrelated(n) ==
  /\ place[n] = "unsent"
  /\ place' = [place EXCEPT ![n] = "outbox"]
  /\ UNCHANGED <<core, about, purged, listening, cache, request, now>>

Publish(n) ==
  /\ place[n] = "outbox"
  /\ place' = [place EXCEPT ![n] = "ready"]
  /\ UNCHANGED <<core, about, purged, listening, cache, request, now>>

(* Prefetch is 1: an instance has one event at a time. *)
Deliver(n, i) ==
  /\ place[n] = "ready"
  /\ listening[i]
  /\ \A m \in Events : place[m] # i
  /\ place' = [place EXCEPT ![n] = i]
  /\ UNCHANGED <<core, about, purged, listening, cache, request, now>>

(* Mutant of Invalidate: the entry stays. *)
EntryKept(n, i) ==
  /\ place[n] = i
  /\ ~purged[n]
  /\ purged' = [purged EXCEPT ![n] = TRUE]
  /\ UNCHANGED <<core, place, about, listening, cache, request, now>>

(* The handler deletes the role's entry; a payload that names no role is   *)
(* skipped.                                                                *)
Invalidate(n, i) ==
  /\ place[n] = i
  /\ ~purged[n]
  /\ purged' = [purged EXCEPT ![n] = TRUE]
  /\ cache' = [cache EXCEPT ![i] =
                 [r \in Roles |-> IF r = about[n] THEN NoEntry ELSE @[r]]]
  /\ local' = [q \in Requests |->
                 IF pc[q] = "answered" /\ q.at = i /\ RoleName(q) = about[n]
                   THEN Locals(local[q].grant, local[q].attempt,
                               local[q].sentAt, TRUE)
                   ELSE local[q]]
  /\ UNCHANGED <<core, place, about, listening, pc, now>>

Ack(n, i) ==
  /\ place[n] = i
  /\ purged[n]
  /\ place' = [place EXCEPT ![n] = "acked"]
  /\ UNCHANGED <<core, about, purged, listening, cache, request, now>>

-----------------------------------------------------------------------------
(* The process and its connection, and time *)

(* The events an instance had not acked go back to the queue. *)
Requeue(i) ==
  /\ place' = [n \in Events |-> IF place[n] = i THEN "ready" ELSE place[n]]
  /\ purged' = [n \in Events |-> purged[n] /\ place[n] # i]

(* The core-events connection is lost; nothing dials again.  A handler at  *)
(* work when that happens may still delete its entry: like any deletion    *)
(* without a change this is one more miss, and it is left out.             *)
DropConnection(i) ==
  /\ listening[i]
  /\ listening' = [listening EXCEPT ![i] = FALSE]
  /\ Requeue(i)
  /\ UNCHANGED <<core, about, cache, request, now>>

(* The core-events consumer of a process that starts.                      *)
Subscribe(i) ==
  /\ ~listening[i]
  /\ listening' = [listening EXCEPT ![i] = TRUE]
  /\ UNCHANGED <<core, queue, cache, request, now>>

(* The process ends, by itself or killed: its cache is empty and the       *)
(* requests it was working on get no answer.                               *)
ProcessGone(i) ==
  /\ Requeue(i)
  /\ listening' = [listening EXCEPT ![i] = FALSE]
  /\ cache' = [cache EXCEPT ![i] = [r \in Roles |-> NoEntry]]
  /\ pc' = [q \in Requests |->
              IF q.at = i /\ pc[q] \notin Outcomes \cup {"unsent"}
                THEN "lost" ELSE pc[q]]
  /\ local' = [q \in Requests |-> IF q.at = i THEN NoLocals ELSE local[q]]
  /\ UNCHANGED <<core, about, now>>

(* No call outlasts the client's timeout. *)
Tick ==
  /\ now < Horizon
  /\ \A q \in Requests :
       /\ pc[q] # "decide"
       /\ Calling(q) => now - local[q].sentAt < Timeout
  /\ now' = now + 1
  /\ last' = [r \in Roles |-> [last[r] EXCEPT ![grant[r]] = now + 1]]
  /\ UNCHANGED <<grant, queue, listening, cache, request>>

-----------------------------------------------------------------------------
Handler(q) ==
  \/ Hit(q) \/ Miss(q) \/ Answer(q) \/ CallFails(q) \/ Resend(q)
  \/ CallRefused(q) \/ Store(q) \/ Decide(q)

(* Core, its events on their way through the broker, and the clock.        *)
CoreStep ==
  \/ \E n \in Events, r \in Roles : Change(r, n)
  \/ \E n \in Events : Unrelated(n) \/ Publish(n)
  \/ \E n \in Events, i \in Instances :
       Deliver(n, i) \/ Invalidate(n, i) \/ Ack(n, i)
  \/ \E i \in Instances : DropConnection(i)
  \/ Tick

Next ==
  \/ \E q \in Requests : Arrive(q) \/ Handler(q)
  \/ CoreStep
  \/ \E i \in Instances : Subscribe(i) \/ ProcessGone(i)

Spec == Init /\ [][Next]_vars

(* Goroutines that can run do, and a call ends: with an answer, an error,  *)
(* or the client's timeout.  Clients, core's events, the process and the   *)
(* clock owe nothing.                                                      *)
FairSpec == Spec /\ \A q \in Requests : WF_vars(Handler(q))

-----------------------------------------------------------------------------
(* A decision agrees with what the core service held at some moment of the *)
(* last TTL and one call: whatever events are lost, delayed or consumed by *)
(* another instance, whatever calls fail or overlap, nobody is served with *)
(* a permission taken away longer ago, nor refused one granted longer ago  *)
(* (cache.go:31-50, middleware.go:20-41).                                  *)
BoundedStaleness ==
  [][\A q \in Requests :
       LET age(g) == now - last[RoleName(q)][g]
       IN  /\ pc[q] # "served" /\ pc'[q] = "served" /\ q.role # Admin
                => age("held") < TTL + Timeout
           /\ pc[q] # "403" /\ pc'[q] = "403"
                => age("missing") < TTL + Timeout]_vars

(* Every change of a role has been published, consumed and acked. *)
Notified(r) == \A n \in Events : about[n] = r => place[n] = "acked"

(* With one instance, once every change of a role is notified its entry is *)
(* right, unless an Invalidate fell between the answer of the core service *)
(* and the store of that entry: redelivery, a lost connection and a        *)
(* restart do no harm (boot.go:110-126, cache.go:40-47).                   *)
OnlyCrossedStale ==
  \A i \in Instances, r \in Roles :
    LET entry == cache[i][r]
    IN  Notified(r) /\ entry # NoEntry /\ ~entry.crossed
          => entry.grant = grant[r]

(* "Change permission in core, verify analytics serves/denies immediately" *)
(* (docs/implementation-plan.md:88): once a change is notified, no fresh   *)
(* entry disagrees with the core service.  A lookup answered before the    *)
(* change may be stored after the invalidation (cache.go:40-47).           *)
ImmediateOnceNotified ==
  \A i \in Instances, r \in Roles :
    Notified(r) /\ Fresh(cache[i][r]) => cache[i][r].grant = grant[r]

(* Every request that is looked up gets an answer, or its process dies:    *)
(* three failed calls end in RBAC_LOOKUP_FAILED (client.go:46-77).         *)
Answered ==
  \A q \in Requests : pc[q] = "lookup" ~> pc[q] \in Outcomes
=============================================================================
