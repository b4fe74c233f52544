----------------------- MODULE PermissionCacheProofs -----------------------
(***************************************************************************)
(* Every decision agrees with what the core service held not long ago, for *)
(* any number of instances, roles, requests and events and any bounds.     *)
(*                                                                         *)
(* The argument carries the age of an answer along its way: from the core  *)
(* service to the goroutine that asked (CallInv), into the cache           *)
(* (EntryInv) and out of it to the request that decides on it (DecideInv). *)
(***************************************************************************)
EXTENDS PermissionCache, TLAPS

(* The state an answer passes through; the other variables do not matter.  *)
answers == <<grant, last, cache, pc, local, now>>

(* Whoever is looked up has a role to look up. *)
RoleInv ==
  \A q \in Requests :
    pc[q] \in {"lookup", "call", "backoff", "answered", "decide"}
      => RoleName(q) \in Roles

(* Core held now what it holds now, and last never runs ahead of the clock.*)
ClockInv ==
  \A r \in Roles : /\ last[r][grant[r]] = now
                   /\ \A g \in Grants : last[r][g] <= now

(* A call is at most Timeout old, and its answer younger than the call. *)
CallInv ==
  \A q \in Requests :
    /\ Calling(q) => /\ local[q].sentAt <= now
                     /\ now - local[q].sentAt <= Timeout
    /\ pc[q] = "answered"
         => local[q].sentAt <= last[RoleName(q)][local[q].grant]

(* The answer an entry holds was given at most one call before its store. *)
EntryInv ==
  \A i \in Instances, r \in Roles :
    cache[i][r] # NoEntry
      => /\ cache[i][r].cachedAt - Timeout <= last[r][cache[i][r].grant]
         /\ cache[i][r] \in Entry

(* A request about to be decided knows an answer young enough. *)
DecideInv ==
  \A q \in Requests :
    pc[q] = "decide" => now - last[RoleName(q)][local[q].grant] < TTL + Timeout

Inv == TypeOK /\ RoleInv /\ ClockInv /\ CallInv /\ EntryInv /\ DecideInv

-----------------------------------------------------------------------------
(* The locals of a request, and the two verdicts. *)
LEMMA LocalsType ==
  /\ \A g \in Grants, k \in 0..(Attempts - 1), t \in Nat, b \in BOOLEAN :
       /\ Locals(g, k, t, b) \in Local
       /\ Locals(g, k, t, b).grant = g
       /\ Locals(g, k, t, b).sentAt = t
       /\ Locals(g, k, t, b).attempt = k
       /\ Locals(g, k, t, b).crossed = b
  /\ NoLocals \in Local
  /\ "held" \in Grants /\ "missing" \in Grants
BY DEF Locals, Local, NoLocals, Grants, Attempts

(* A step of a goroutine that leaves the cache alone, or stores an entry,  *)
(* keeps the types.                                                        *)
LEMMA GotoType ==
  ASSUME TypeOK, NEW q \in Requests, NEW label \in PcValues, NEW v \in Local,
         Goto(q, label, v),
         cache' \in [Instances -> [Roles -> Entry \cup {NoEntry}]]
  PROVE  TypeOK'
BY DEF TypeOK, Goto, core, queue

(* A request that is no administrator's names a role. *)
LEMMA RequestRole ==
  ASSUME NEW q \in Requests
  PROVE  /\ q.at \in Instances
         /\ q.role # Admin => RoleName(q) \in Roles
BY RequestAssumption, NamesAssumption DEF Request, RoleName

(* The types hold initially. *)
LEMMA TypeInit == Init => TypeOK
BY LocalsType, TimeAssumption
   DEF Init, TypeOK, PcValues, BrokerPlaces, Never

(* The steps of a request keep the types. *)
LEMMA HandlerType ==
  ASSUME TypeOK, RoleInv, NEW q \in Requests, Arrive(q) \/ Handler(q)
  PROVE  TypeOK'
<1> USE LocalsType
<1>1. local[q] \in Local /\ now \in Nat
  BY DEF TypeOK
<1>2. /\ local[q].grant \in Grants /\ local[q].attempt \in 0..(Attempts - 1)
      /\ local[q].sentAt \in Nat /\ local[q].crossed \in BOOLEAN
  BY <1>1 DEF Local
<1>3. cache \in [Instances -> [Roles -> Entry \cup {NoEntry}]]
  BY DEF TypeOK
<1>4. FALSE \in BOOLEAN /\ 0 \in 0..(Attempts - 1) /\ 0 \in Nat
  BY DEF Attempts
<1>5. CASE Arrive(q)
  BY <1>3, <1>5, GotoType DEF Arrive, Finish, PcValues, Outcomes
<1>6. CASE Hit(q)
  <2>1. cache[q.at][RoleName(q)] \in Entry
    BY <1>3, <1>6, RequestRole DEF Hit, Fresh, RoleInv
  <2>2. cache[q.at][RoleName(q)].grant \in Grants
    BY <2>1 DEF Entry
  <2> QED BY <2>2, <1>3, <1>4, <1>6, GotoType DEF Hit, PcValues
<1>7. CASE Miss(q)
  BY <1>1, <1>3, <1>4, <1>7, GotoType DEF Miss, PcValues
<1>8. CASE Answer(q)
  <2>1. grant[RoleName(q)] \in Grants
    BY <1>8 DEF Answer, RoleInv, TypeOK
  <2> QED BY <2>1, <1>2, <1>3, <1>4, <1>8, GotoType DEF Answer, PcValues
<1>9. CASE CallFails(q)
  <2>1. local[q].attempt + 1 < Attempts
          => local[q].attempt + 1 \in 0..(Attempts - 1)
    BY <1>2 DEF Attempts
  <2> QED BY <2>1, <1>3, <1>4, <1>9, GotoType
          DEF CallFails, Finish, PcValues, Outcomes
<1>10. CASE Resend(q)
  BY <1>1, <1>2, <1>3, <1>4, <1>10, GotoType DEF Resend, PcValues
<1>11. CASE CallRefused(q)
  BY <1>3, <1>11, GotoType DEF CallRefused, Finish, PcValues, Outcomes
<1>12. CASE Store(q)
  <2>1. [grant |-> local[q].grant, cachedAt |-> now, crossed |-> local[q].crossed]
          \in Entry
    BY <1>1, <1>2 DEF Entry
  <2>2. cache' \in [Instances -> [Roles -> Entry \cup {NoEntry}]]
    BY <2>1, <1>3, <1>12 DEF Store
  <2> QED BY <2>2, <1>2, <1>4, <1>12, GotoType DEF Store, PcValues
<1>13. CASE Decide(q)
  BY <1>3, <1>13, GotoType DEF Decide, Finish, PcValues, Outcomes
<1> QED BY <1>5, <1>6, <1>7, <1>8, <1>9, <1>10, <1>11, <1>12, <1>13 DEF Handler

(* The steps of the queue and the loss of a connection touch none of the   *)
(* answers.                                                                *)
QueueStep ==
  \/ \E n \in Events : Unrelated(n) \/ Publish(n)
  \/ \E n \in Events, i \in Instances : Deliver(n, i) \/ Ack(n, i)
  \/ \E i \in Instances : DropConnection(i) \/ Subscribe(i)

LEMMA QueueStepQuiet == QueueStep => UNCHANGED answers
BY DEF QueueStep, Unrelated, Publish, Deliver, Ack, DropConnection, Subscribe,
       Requeue, answers, core, request

(* They keep the types. *)
LEMMA QueueStepType ==
  ASSUME TypeOK, QueueStep
  PROVE  TypeOK'
<1>1. UNCHANGED answers
  BY QueueStepQuiet
<1>2. place' \in [Events -> BrokerPlaces \cup Instances]
  <2>1. /\ place \in [Events -> BrokerPlaces \cup Instances]
        /\ {"outbox", "ready", "acked"} \subseteq BrokerPlaces
    BY DEF TypeOK, BrokerPlaces
  <2>2. \A n \in Events : Unrelated(n) \/ Publish(n)
          => place' \in [Events -> BrokerPlaces \cup Instances]
    BY <2>1 DEF Unrelated, Publish
  <2>3. \A n \in Events, i \in Instances : Deliver(n, i) \/ Ack(n, i)
          => place' \in [Events -> BrokerPlaces \cup Instances]
    BY <2>1 DEF Deliver, Ack
  <2>4. \A i \in Instances : DropConnection(i) \/ Subscribe(i)
          => place' \in [Events -> BrokerPlaces \cup Instances]
    BY <2>1 DEF DropConnection, Subscribe, Requeue, queue
  <2> QED BY <2>2, <2>3, <2>4 DEF QueueStep
<1>3. /\ about' \in [Events -> Roles \cup {NoRole}]
      /\ purged' \in [Events -> BOOLEAN]
  BY DEF TypeOK, QueueStep, Unrelated, Publish, Deliver, Ack, DropConnection,
         Subscribe, Requeue, queue
<1>4. listening' \in [Instances -> BOOLEAN]
  BY DEF TypeOK, QueueStep, Unrelated, Publish, Deliver, Ack, DropConnection,
         Subscribe
<1> QED BY <1>1, <1>2, <1>3, <1>4 DEF TypeOK, answers

(* So does a change at the core service, *)
LEMMA ChangeType ==
  ASSUME TypeOK, NEW n \in Events, NEW r \in Roles, Change(r, n)
  PROVE  TypeOK'
<1>1. grant' \in [Roles -> Grants]
  BY DEF TypeOK, Change, Opposite, Grants
<1>2. last' \in [Roles -> [Grants -> Int]]
  <2>1. last[r] \in [Grants -> Int] /\ now \in Int
    BY DEF TypeOK
  <2>2. [last[r] EXCEPT ![Opposite(grant[r])] = now] \in [Grants -> Int]
    BY <2>1
  <2> QED BY <2>2 DEF TypeOK, Change
<1>3. place' \in [Events -> BrokerPlaces \cup Instances]
      /\ about' \in [Events -> Roles \cup {NoRole}]
  BY DEF TypeOK, Change, BrokerPlaces
<1> QED BY <1>1, <1>2, <1>3 DEF TypeOK, Change, request

(* an invalidation, *)
LEMMA InvalidateType ==
  ASSUME TypeOK, NEW n \in Events, NEW i \in Instances, Invalidate(n, i)
  PROVE  TypeOK'
<1>1. cache' \in [Instances -> [Roles -> Entry \cup {NoEntry}]]
  BY DEF TypeOK, Invalidate
<1>2. local' \in [Requests -> Local]
  <2>1. \A q \in Requests :
          Locals(local[q].grant, local[q].attempt, local[q].sentAt, TRUE) \in Local
    BY LocalsType DEF TypeOK, Local
  <2> QED BY <2>1 DEF TypeOK, Invalidate
<1>3. purged' \in [Events -> BOOLEAN]
  BY DEF TypeOK, Invalidate
<1> QED BY <1>1, <1>2, <1>3 DEF TypeOK, Invalidate, core

(* the end of a process, *)
LEMMA GoneType ==
  ASSUME TypeOK, NEW i \in Instances, ProcessGone(i)
  PROVE  TypeOK'
<1>1. cache' \in [Instances -> [Roles -> Entry \cup {NoEntry}]]
  BY DEF TypeOK, ProcessGone
<1>2. local' \in [Requests -> Local] /\ pc' \in [Requests -> PcValues]
  BY LocalsType DEF TypeOK, ProcessGone, PcValues, Outcomes
<1>3. /\ place' \in [Events -> BrokerPlaces \cup Instances]
      /\ purged' \in [Events -> BOOLEAN]
  BY DEF TypeOK, ProcessGone, Requeue, BrokerPlaces
<1>4. listening' \in [Instances -> BOOLEAN]
  BY DEF TypeOK, ProcessGone
<1> QED BY <1>1, <1>2, <1>3, <1>4 DEF TypeOK, ProcessGone, core

(* and the clock. *)
LEMMA TickType ==
  ASSUME TypeOK, Tick
  PROVE  TypeOK'
<1>1. last' \in [Roles -> [Grants -> Int]] /\ now' \in Nat
  <2>1. \A r \in Roles : [last[r] EXCEPT ![grant[r]] = now + 1] \in [Grants -> Int]
    BY DEF TypeOK
  <2> QED BY <2>1 DEF Tick, TypeOK
<1> QED BY <1>1 DEF TypeOK, Tick, queue, request

(* The disjuncts of Next, as the proofs below tell them apart. *)
LEMMA NextCases ==
  ASSUME [Next]_vars
  PROVE  \/ \E q \in Requests : Arrive(q) \/ Handler(q)
         \/ QueueStep
         \/ \E n \in Events, r \in Roles : Change(r, n)
         \/ \E n \in Events, i \in Instances : Invalidate(n, i)
         \/ \E i \in Instances : ProcessGone(i)
         \/ Tick
         \/ UNCHANGED vars
BY DEF Next, CoreStep, QueueStep

(* Every step keeps the types. *)
LEMMA TypeStep == TypeOK /\ RoleInv /\ [Next]_vars => TypeOK'
<1> SUFFICES ASSUME TypeOK, RoleInv, [Next]_vars
             PROVE  TypeOK'
  OBVIOUS
<1>1. CASE UNCHANGED vars
  BY <1>1 DEF TypeOK, vars
<1> QED BY <1>1, NextCases, HandlerType, QueueStepType, ChangeType,
           InvalidateType, GoneType, TickType

(* Every step keeps the roles that are looked up. *)
LEMMA RoleStep == TypeOK /\ RoleInv /\ [Next]_vars => RoleInv'
<1> SUFFICES ASSUME TypeOK, RoleInv, [Next]_vars
             PROVE  RoleInv'
  OBVIOUS
<1>1. ASSUME NEW q \in Requests, Arrive(q) \/ Handler(q)
      PROVE  RoleInv'
  BY <1>1, RequestRole DEF TypeOK, RoleInv, Arrive, Handler, Hit, Miss, Answer,
     CallFails, Resend, CallRefused, Store, Decide, Calling, Goto, Finish
<1>2. ASSUME NEW i \in Instances, ProcessGone(i)
      PROVE  RoleInv'
  BY <1>2 DEF TypeOK, RoleInv, ProcessGone, Outcomes
<1>3. CASE UNCHANGED pc
  BY <1>3 DEF RoleInv
<1>4. QueueStep \/ Tick \/ UNCHANGED vars
        \/ (\E n \in Events, r \in Roles : Change(r, n))
        \/ (\E n \in Events, i \in Instances : Invalidate(n, i))
      => UNCHANGED pc
  BY QueueStepQuiet DEF answers, Tick, Change, Invalidate, request, vars
<1> QED BY <1>1, <1>2, <1>3, <1>4, NextCases

-----------------------------------------------------------------------------
(* Steps other than changes and ticks leave core and the clock alone. *)
LEMMA CoreKept ==
  ASSUME [Next]_vars, ~Tick, ~\E n \in Events, r \in Roles : Change(r, n)
  PROVE  UNCHANGED <<grant, last, now>>
<1>1. (\E q \in Requests : Arrive(q) \/ Handler(q)) => UNCHANGED <<grant, last, now>>
  BY DEF Arrive, Handler, Hit, Miss, Answer, CallFails, Resend, CallRefused,
         Store, Decide, Goto, Finish, core
<1>2. (\E n \in Events, i \in Instances : Invalidate(n, i))
        \/ (\E i \in Instances : ProcessGone(i)) \/ UNCHANGED vars
      => UNCHANGED <<grant, last, now>>
  BY DEF Invalidate, ProcessGone, core, vars
<1> QED BY <1>1, <1>2, NextCases, QueueStepQuiet DEF answers

(* What a change does to the history of the grants. *)
LEMMA ChangeLast ==
  ASSUME TypeOK, NEW n \in Events, NEW r \in Roles, Change(r, n)
  PROVE  \A s \in Roles :
           /\ last'[s][grant'[s]] = IF s = r THEN now ELSE last[s][grant[s]]
           /\ \A g \in Grants :
                last'[s][g] = IF s = r /\ g # grant[r] THEN now ELSE last[s][g]
<1>1. /\ last[r] \in [Grants -> Int] /\ grant[r] \in Grants
      /\ Opposite(grant[r]) \in Grants /\ Opposite(grant[r]) # grant[r]
      /\ \A g \in Grants : g # grant[r] => g = Opposite(grant[r])
  BY DEF TypeOK, Opposite, Grants
<1>2. /\ grant' = [grant EXCEPT ![r] = Opposite(grant[r])]
      /\ last' = [last EXCEPT ![r] =
                    [last[r] EXCEPT ![Opposite(grant[r])] = now]]
  BY DEF Change
<1> QED BY <1>1, <1>2 DEF TypeOK

(* What the clock does to it. *)
LEMMA TickLast ==
  ASSUME TypeOK, Tick
  PROVE  \A r \in Roles, g \in Grants :
           last'[r][g] = IF g = grant[r] THEN now + 1 ELSE last[r][g]
BY DEF TypeOK, Tick

(* Every step keeps the history and the clock together. *)
LEMMA ClockStep == TypeOK /\ ClockInv /\ [Next]_vars => ClockInv'
<1> SUFFICES ASSUME TypeOK, ClockInv, [Next]_vars
             PROVE  ClockInv'
  OBVIOUS
<1>1. ASSUME NEW n \in Events, NEW r \in Roles, Change(r, n)
      PROVE  ClockInv'
  <2>1. now' = now /\ now \in Nat
    BY <1>1 DEF Change, TypeOK
  <2> QED BY <1>1, <2>1, ChangeLast DEF ClockInv
<1>2. CASE Tick
  <2>1. now' = now + 1 /\ now \in Nat /\ grant' = grant
    BY <1>2 DEF Tick, TypeOK
  <2>2. \A r \in Roles, g \in Grants : last[r][g] \in Int /\ grant[r] \in Grants
    BY DEF TypeOK
  <2>3. \A r \in Roles : last'[r][grant[r]] = now + 1
    BY <1>2, <2>2 DEF Tick, TypeOK
  <2>4. \A r \in Roles, g \in Grants : last'[r][g] <= now + 1
    BY <1>2, <2>1, <2>2, TickLast DEF ClockInv
  <2> QED BY <2>1, <2>3, <2>4 DEF ClockInv
<1>3. CASE UNCHANGED <<grant, last, now>>
  BY <1>3 DEF ClockInv
<1> QED BY <1>1, <1>2, <1>3, CoreKept

(* last never goes back. *)
LEMMA LastGrows ==
  ASSUME TypeOK, ClockInv, [Next]_vars
  PROVE  \A r \in Roles, g \in Grants : last'[r][g] >= last[r][g]
<1>0. \A r \in Roles, g \in Grants : /\ last[r][g] \in Int /\ now \in Nat
                                     /\ last[r][g] <= now
  BY DEF TypeOK, ClockInv
<1>1. ASSUME NEW n \in Events, NEW s \in Roles, Change(s, n)
      PROVE  \A r \in Roles, g \in Grants : last'[r][g] >= last[r][g]
  BY <1>0, <1>1, ChangeLast
<1>2. CASE Tick
  BY <1>0, <1>2, TickLast
<1>3. CASE UNCHANGED <<grant, last, now>>
  BY <1>0, <1>3
<1> QED BY <1>1, <1>2, <1>3, CoreKept

-----------------------------------------------------------------------------
(* Every step keeps the age of calls and answers: Answer is given now. *)
LEMMA CallStep ==
  TypeOK /\ RoleInv /\ ClockInv /\ CallInv /\ [Next]_vars => CallInv'
<1> SUFFICES ASSUME TypeOK, RoleInv, ClockInv, CallInv, [Next]_vars,
                    NEW q \in Requests
             PROVE  /\ Calling(q)' => /\ local'[q].sentAt <= now'
                                      /\ now' - local'[q].sentAt <= Timeout
                    /\ pc'[q] = "answered"
                         => local'[q].sentAt <= last'[RoleName(q)][local'[q].grant]
  BY DEF CallInv, Calling
<1>1. /\ local[q] \in Local /\ local[q].sentAt \in Nat /\ local[q].grant \in Grants
      /\ now \in Nat /\ Timeout \in Nat \ {0}
  BY TimeAssumption DEF TypeOK, Local
<1>2. CASE pc'[q] = pc[q] /\ local'[q].sentAt = local[q].sentAt
           /\ local'[q].grant = local[q].grant /\ now' = now
  <2>1. pc[q] = "answered" =>
          /\ RoleName(q) \in Roles
          /\ last'[RoleName(q)][local[q].grant] >= last[RoleName(q)][local[q].grant]
          /\ last[RoleName(q)][local[q].grant] \in Int
          /\ last'[RoleName(q)][local[q].grant] \in Int
    BY <1>1, LastGrows, TypeStep DEF RoleInv, TypeOK
  <2> QED BY <1>1, <1>2, <2>1 DEF CallInv, Calling
<1>3. CASE Tick
  <2>1. /\ pc' = pc /\ local' = local /\ now' = now + 1
        /\ Calling(q) => now - local[q].sentAt < Timeout
    BY <1>3 DEF Tick, request
  <2>2. pc[q] = "answered" =>
          /\ RoleName(q) \in Roles
          /\ last'[RoleName(q)][local[q].grant] >= last[RoleName(q)][local[q].grant]
          /\ last[RoleName(q)][local[q].grant] \in Int
          /\ last'[RoleName(q)][local[q].grant] \in Int
    BY <1>1, LastGrows, TypeStep DEF RoleInv, TypeOK
  <2> QED BY <1>1, <2>1, <2>2 DEF CallInv, Calling
<1>4. ASSUME NEW p \in Requests, Arrive(p) \/ Handler(p)
      PROVE  \/ /\ pc'[q] = pc[q] /\ local'[q].sentAt = local[q].sentAt
                /\ local'[q].grant = local[q].grant
             \/ p = q
  BY <1>4 DEF TypeOK, Arrive, Handler, Hit, Miss, Answer, CallFails, Resend,
              CallRefused, Store, Decide, Goto, Finish
<1>5. CASE Arrive(q) \/ Handler(q)
  <2>1. now' = now /\ last' = last
    BY <1>5 DEF Arrive, Handler, Hit, Miss, Answer, CallFails, Resend,
                CallRefused, Store, Decide, Goto, Finish, core
  <2>2. CASE Answer(q)
    <3>1. /\ pc[q] = "call" /\ RoleName(q) \in Roles
          /\ grant[RoleName(q)] \in Grants
      BY <2>2 DEF Answer, RoleInv, TypeOK
    <3>2. local'[q] = Locals(grant[RoleName(q)], local[q].attempt,
                             local[q].sentAt, FALSE)
      BY <2>2 DEF Answer, Goto, TypeOK
    <3>3. /\ local'[q].sentAt = local[q].sentAt
          /\ local'[q].grant = grant[RoleName(q)]
      BY <3>2 DEF Locals
    <3>4. last[RoleName(q)][grant[RoleName(q)]] = now
      BY <3>1 DEF ClockInv
    <3> QED BY <1>1, <2>1, <3>1, <3>3, <3>4 DEF CallInv, Calling
  <2>3. CASE Miss(q) \/ Resend(q)
    <3>1. PICK k : /\ pc' = [pc EXCEPT ![q] = "call"]
                   /\ local' = [local EXCEPT ![q] = Locals("missing", k, now, FALSE)]
      BY <2>3 DEF Miss, Resend, Goto
    <3>2. local'[q] = Locals("missing", k, now, FALSE) /\ pc'[q] = "call"
      BY <3>1 DEF TypeOK
    <3>3. local'[q].sentAt = now
      BY <3>2 DEF Locals
    <3>4. now <= now /\ now - now <= Timeout
      BY <1>1
    <3>5. local'[q].sentAt <= now' /\ now' - local'[q].sentAt <= Timeout
      BY <2>1, <3>3, <3>4
    <3>6. pc'[q] # "answered"
      BY <3>2
    <3> QED BY <3>5, <3>6
  <2>4. CASE Arrive(q) \/ Hit(q) \/ CallFails(q) \/ CallRefused(q) \/ Store(q)
             \/ Decide(q)
    <3>1. ~Calling(q)'
      BY <2>4 DEF TypeOK, Arrive, Hit, CallFails, CallRefused, Store, Decide,
                  Goto, Finish, Calling
    <3> QED BY <3>1 DEF Calling
  <2> QED BY <1>5, <2>2, <2>3, <2>4 DEF Handler
<1>6. ASSUME NEW n \in Events, NEW i \in Instances, Invalidate(n, i)
      PROVE  /\ pc'[q] = pc[q] /\ local'[q].sentAt = local[q].sentAt
             /\ local'[q].grant = local[q].grant
  <2>1. /\ Locals(local[q].grant, local[q].attempt, local[q].sentAt, TRUE).sentAt
             = local[q].sentAt
        /\ Locals(local[q].grant, local[q].attempt, local[q].sentAt, TRUE).grant
             = local[q].grant
    BY DEF Locals
  <2> QED BY <1>6, <2>1 DEF Invalidate
<1>7. ASSUME NEW i \in Instances, ProcessGone(i)
      PROVE  \/ ~Calling(q)'
             \/ pc'[q] = pc[q] /\ local'[q] = local[q]
  BY <1>7 DEF ProcessGone, TypeOK, Calling, Outcomes
<1>8. QueueStep \/ (\E n \in Events, r \in Roles : Change(r, n)) \/ UNCHANGED vars
        => pc' = pc /\ local' = local /\ now' = now
  BY QueueStepQuiet DEF answers, Change, request, vars
<1>9. (\E n \in Events, i \in Instances : Invalidate(n, i))
        \/ (\E i \in Instances : ProcessGone(i))
        \/ (\E p \in Requests : Arrive(p) \/ Handler(p)) => now' = now
  BY DEF Invalidate, ProcessGone, Arrive, Handler, Hit, Miss, Answer, CallFails, Resend,
         CallRefused, Store, Decide, Goto, Finish
<1>10. CASE ~Calling(q)'
  BY <1>10 DEF Calling
<1> QED BY <1>2, <1>3, <1>4, <1>5, <1>6, <1>7, <1>8, <1>9, <1>10, NextCases

-----------------------------------------------------------------------------
(* Every step keeps the age of entries: Store adds at most one call. *)
LEMMA EntryStep ==
  TypeOK /\ RoleInv /\ ClockInv /\ CallInv /\ EntryInv /\ [Next]_vars => EntryInv'
<1> SUFFICES ASSUME TypeOK, RoleInv, ClockInv, CallInv, EntryInv, [Next]_vars,
                    NEW i \in Instances, NEW r \in Roles, cache'[i][r] # NoEntry
             PROVE  /\ cache'[i][r].cachedAt - Timeout
                         <= last'[r][cache'[i][r].grant]
                    /\ cache'[i][r] \in Entry
  BY DEF EntryInv
<1>1. cache'[i][r] \in Entry
  BY TypeStep DEF TypeOK
<1>2. /\ cache'[i][r].grant \in Grants /\ cache'[i][r].cachedAt \in Nat
      /\ Timeout \in Nat
  BY <1>1, TimeAssumption DEF Entry
<1>3. \A g \in Grants : /\ last[r][g] \in Int /\ last'[r][g] \in Int
                        /\ last[r][g] <= last'[r][g]
  BY LastGrows, TypeStep DEF TypeOK
<1>4. CASE cache'[i][r] = cache[i][r]
  BY <1>1, <1>2, <1>3, <1>4 DEF EntryInv
<1>5. ASSUME NEW q \in Requests, Store(q), cache'[i][r] # cache[i][r]
      PROVE  cache'[i][r].cachedAt - Timeout <= last'[r][cache'[i][r].grant]
  <2>1. r = RoleName(q) /\ q.at = i
    BY <1>5 DEF Store, TypeOK
  <2>2. /\ cache'[i][r].cachedAt = now
        /\ cache'[i][r].grant = local[q].grant
    BY <1>5, <2>1 DEF Store, TypeOK
  <2>3. /\ local[q].sentAt <= last[r][local[q].grant]
        /\ now - local[q].sentAt <= Timeout
        /\ local[q].sentAt \in Nat /\ now \in Nat
    BY <1>5, <2>1 DEF Store, CallInv, Calling, TypeOK, Local
  <2> QED BY <1>2, <1>3, <2>2, <2>3
<1>6. ASSUME NEW q \in Requests, Arrive(q) \/ Handler(q), ~Store(q)
      PROVE  cache' = cache
  BY <1>6 DEF Arrive, Handler, Hit, Miss, Answer, CallFails, Resend, CallRefused,
              Decide
<1>7. ASSUME NEW n \in Events, NEW j \in Instances, Invalidate(n, j)
      PROVE  cache'[i][r] = cache[i][r]
  BY <1>7 DEF Invalidate, TypeOK
<1>8. ASSUME NEW j \in Instances, ProcessGone(j)
      PROVE  cache'[i][r] = cache[i][r]
  BY <1>8 DEF ProcessGone, TypeOK
<1>9. QueueStep \/ (\E n \in Events, s \in Roles : Change(s, n)) \/ Tick
        \/ UNCHANGED vars
      => cache' = cache
  BY QueueStepQuiet DEF answers, Change, Tick, vars
<1> QED BY <1>1, <1>4, <1>5, <1>6, <1>7, <1>8, <1>9, NextCases

-----------------------------------------------------------------------------
(* Every step keeps the age of what is decided on: Hit adds less than TTL. *)
LEMMA DecideStep ==
  ASSUME TTL > 0
  PROVE  Inv /\ [Next]_vars => DecideInv'
<1> SUFFICES ASSUME Inv, [Next]_vars, NEW q \in Requests, pc'[q] = "decide"
             PROVE  now' - last'[RoleName(q)][local'[q].grant] < TTL + Timeout
  BY DEF DecideInv
<1> USE DEF Inv
<1>1. RoleName(q) \in Roles
  BY RoleStep DEF RoleInv
<1>2. \A g \in Grants : /\ last[RoleName(q)][g] \in Int
                        /\ last'[RoleName(q)][g] \in Int
                        /\ last[RoleName(q)][g] <= last'[RoleName(q)][g]
  BY <1>1, LastGrows, TypeStep DEF TypeOK
<1>3. /\ local'[q].grant \in Grants /\ local[q].grant \in Grants
      /\ now \in Nat /\ TTL \in Nat /\ Timeout \in Nat
      /\ local[q].sentAt \in Nat
  BY TypeStep, TimeAssumption DEF TypeOK, Local
<1>4. CASE pc[q] = "decide" /\ local'[q].grant = local[q].grant /\ now' = now
  BY <1>2, <1>3, <1>4 DEF DecideInv
<1>5. CASE Hit(q)
  <2> DEFINE entry == cache[q.at][RoleName(q)]
  <2>1. entry # NoEntry /\ now - entry.cachedAt < TTL
    BY <1>5 DEF Hit, Fresh
  <2>2. /\ entry \in Entry
        /\ entry.cachedAt - Timeout <= last[RoleName(q)][entry.grant]
    BY <1>1, <2>1, RequestRole DEF EntryInv
  <2>3. local'[q].grant = entry.grant
    BY <1>5 DEF Hit, Goto, TypeOK, Locals
  <2>4. now' = now /\ entry.grant \in Grants /\ entry.cachedAt \in Nat
    BY <1>5, <2>2 DEF Hit, Goto, Entry
  <2> HIDE DEF entry
  <2> QED BY <1>2, <1>3, <2>1, <2>2, <2>3, <2>4
<1>6. CASE Store(q)
  <2>1. local'[q].grant = local[q].grant /\ now' = now /\ pc[q] = "answered"
    BY <1>6 DEF Store, Goto, TypeOK, Locals
  <2>2. /\ now - local[q].sentAt <= Timeout
        /\ local[q].sentAt <= last[RoleName(q)][local[q].grant]
    BY <2>1 DEF CallInv, Calling
  <2> QED BY <1>2, <1>3, <2>1, <2>2
<1>7. ASSUME NEW p \in Requests, Arrive(p) \/ Handler(p)
      PROVE  \/ Hit(q) \/ Store(q)
             \/ pc[q] = "decide" /\ local'[q].grant = local[q].grant /\ now' = now
  <2>1. CASE p = q
    BY <1>7, <2>1 DEF TypeOK, Arrive, Handler, Miss, Answer, CallFails, Resend,
                      CallRefused, Decide, Goto, Finish
  <2>2. CASE p # q
    BY <1>7, <2>2 DEF TypeOK, Arrive, Handler, Hit, Miss, Answer, CallFails,
                      Resend, CallRefused, Store, Decide, Goto, Finish
  <2> QED BY <2>1, <2>2
<1>8. ASSUME NEW n \in Events, NEW i \in Instances, Invalidate(n, i)
      PROVE  pc[q] = "decide" /\ local'[q].grant = local[q].grant /\ now' = now
  BY <1>8 DEF Invalidate
<1>9. ASSUME NEW i \in Instances, ProcessGone(i)
      PROVE  pc[q] = "decide" /\ local'[q].grant = local[q].grant /\ now' = now
  BY <1>9 DEF ProcessGone, TypeOK, Outcomes
<1>10. QueueStep \/ (\E n \in Events, r \in Roles : Change(r, n)) \/ UNCHANGED vars
         => pc[q] = "decide" /\ local'[q].grant = local[q].grant /\ now' = now
  BY QueueStepQuiet DEF answers, Change, request, vars
<1>11. ~Tick
  BY DEF Tick, request
<1> QED BY <1>4, <1>5, <1>6, <1>7, <1>8, <1>9, <1>10, <1>11, NextCases

-----------------------------------------------------------------------------
(* The inductive invariant holds initially. *)
LEMMA InvInit == Init => Inv
<1> SUFFICES ASSUME Init
             PROVE  Inv
  OBVIOUS
<1>1. TypeOK
  BY TypeInit
<1>2. RoleInv /\ CallInv /\ EntryInv /\ DecideInv
  BY DEF Init, RoleInv, CallInv, Calling, EntryInv, DecideInv
<1>3. ClockInv
  BY <1>1, TimeAssumption DEF Init, ClockInv, Never, TypeOK
<1> QED BY <1>1, <1>2, <1>3 DEF Inv

(* Every step keeps it. *)
LEMMA InvStep ==
  ASSUME TTL > 0
  PROVE  Inv /\ [Next]_vars => Inv'
BY TypeStep, RoleStep, ClockStep, CallStep, EntryStep, DecideStep DEF Inv

(* Every variable keeps its type, and in particular no request ever makes  *)
(* a fourth call (client.go:46).                                           *)
THEOREM PermissionTypes == Spec => []TypeOK
<1>1. Init => TypeOK /\ RoleInv
  BY InvInit DEF Inv
<1>2. TypeOK /\ RoleInv /\ [Next]_vars => (TypeOK /\ RoleInv)'
  BY TypeStep, RoleStep
<1> QED BY <1>1, <1>2, PTL DEF Spec

(* What a step does when it serves or forbids: Decide, on what it knows.   *)
LEMMA DecisionStep ==
  ASSUME Inv, [Next]_vars, NEW q \in Requests
  PROVE  LET age(g) == now - last[RoleName(q)][g]
         IN  /\ pc[q] # "served" /\ pc'[q] = "served" /\ q.role # Admin
                  => age("held") < TTL + Timeout
             /\ pc[q] # "403" /\ pc'[q] = "403"
                  => age("missing") < TTL + Timeout
<1> USE DEF Inv
<1>1. local[q].grant \in Grants
  BY DEF TypeOK, Local
<1>2. CASE Decide(q)
  <2>1. now - last[RoleName(q)][local[q].grant] < TTL + Timeout
    BY <1>2 DEF Decide, DecideInv
  <2>2. pc'[q] = IF local[q].grant = "held" THEN "served" ELSE "403"
    BY <1>2 DEF Decide, Finish, Goto, TypeOK
  <2> QED BY <1>1, <2>1, <2>2 DEF Grants
<1>3. ASSUME NEW p \in Requests, Arrive(p) \/ Handler(p), ~Decide(q),
             pc'[q] # pc[q]
      PROVE  (pc'[q] = "served" => q.role = Admin) /\ pc'[q] # "403"
  <2>1. p = q
    BY <1>3 DEF TypeOK, Arrive, Handler, Hit, Miss, Answer, CallFails, Resend,
                CallRefused, Store, Decide, Goto, Finish
  <2> QED BY <1>3, <2>1 DEF TypeOK, Arrive, Handler, Hit, Miss, Answer, CallFails,
                            Resend, CallRefused, Store, Goto, Finish
<1>4. ASSUME NEW i \in Instances, ProcessGone(i)
      PROVE  pc'[q] = pc[q] \/ pc'[q] = "lost"
  BY <1>4 DEF ProcessGone
<1>5. QueueStep \/ Tick \/ UNCHANGED vars
        \/ (\E n \in Events, r \in Roles : Change(r, n))
        \/ (\E n \in Events, i \in Instances : Invalidate(n, i))
      => pc'[q] = pc[q]
  BY QueueStepQuiet DEF answers, Tick, Change, Invalidate, request, vars
<1> QED BY <1>2, <1>3, <1>4, <1>5, NextCases

(* Nobody is served on a permission taken away, nor refused one granted,   *)
(* more than TTL and one call ago (cache.go:31-50, middleware.go:20-41),   *)
(* when the cache is on.                                                   *)
THEOREM BoundedStalenessHolds ==
  ASSUME TTL > 0
  PROVE  Spec => BoundedStaleness
<1>1. Inv /\ [Next]_vars =>
        [\A q \in Requests :
           LET age(g) == now - last[RoleName(q)][g]
           IN  /\ pc[q] # "served" /\ pc'[q] = "served" /\ q.role # Admin
                    => age("held") < TTL + Timeout
               /\ pc[q] # "403" /\ pc'[q] = "403"
                    => age("missing") < TTL + Timeout]_vars
  BY DecisionStep
<1> QED BY <1>1, InvInit, InvStep, PTL DEF Spec, BoundedStaleness

-----------------------------------------------------------------------------
(* Invalidation by events.  An event still has to be handled for r, *)
Pending(r) ==
  \E n \in Events : about[n] = r /\ place[n] # "acked" /\ ~purged[n]

(* and no event counts as handled before an instance has it. *)
EventInv ==
  \A n \in Events :
    /\ place[n] \in BrokerPlaces \ {"acked"} => ~purged[n]
    /\ place[n] = "unsent" => about[n] = NoRole

(* An answer that is out of date, and that no Invalidate has crossed, is   *)
(* one an event still has to reach: on its way to the cache, and in it.    *)
StaleInv ==
  /\ \A q \in Requests :
       pc[q] = "answered" /\ local[q].grant # grant[RoleName(q)]
         => local[q].crossed \/ Pending(RoleName(q))
  /\ \A i \in Instances, r \in Roles :
       cache[i][r] # NoEntry /\ cache[i][r].grant # grant[r]
         => cache[i][r].crossed \/ Pending(r)

(* Every step keeps the events in order. *)
LEMMA EventStep == TypeOK /\ EventInv /\ [Next]_vars => EventInv'
<1> SUFFICES ASSUME TypeOK, EventInv, [Next]_vars
             PROVE  EventInv'
  OBVIOUS
<1> USE NamesAssumption DEF BrokerPlaces
<1>1. CASE QueueStep
  <2>1. ASSUME NEW n \in Events, Unrelated(n) \/ Publish(n)
        PROVE  EventInv'
    BY <2>1 DEF TypeOK, EventInv, Unrelated, Publish
  <2>2. ASSUME NEW n \in Events, NEW i \in Instances, Deliver(n, i)
        PROVE  EventInv'
    BY <2>2 DEF TypeOK, EventInv, Deliver
  <2>3. ASSUME NEW n \in Events, NEW i \in Instances, Ack(n, i)
        PROVE  EventInv'
    BY <2>3 DEF TypeOK, EventInv, Ack
  <2>4. ASSUME NEW i \in Instances, DropConnection(i)
        PROVE  EventInv'
    BY <2>4 DEF TypeOK, EventInv, DropConnection, Requeue
  <2>5. ASSUME NEW i \in Instances, Subscribe(i)
        PROVE  EventInv'
    BY <2>5 DEF EventInv, Subscribe, queue
  <2> QED BY <1>1, <2>1, <2>2, <2>3, <2>4, <2>5 DEF QueueStep
<1>2. ASSUME NEW n \in Events, NEW r \in Roles, Change(r, n)
      PROVE  EventInv'
  BY <1>2 DEF TypeOK, EventInv, Change
<1>3. ASSUME NEW n \in Events, NEW i \in Instances, Invalidate(n, i)
      PROVE  EventInv'
  BY <1>3 DEF TypeOK, EventInv, Invalidate
<1>4. ASSUME NEW i \in Instances, ProcessGone(i)
      PROVE  EventInv'
  BY <1>4 DEF TypeOK, EventInv, ProcessGone, Requeue
<1>5. (\E q \in Requests : Arrive(q) \/ Handler(q)) \/ Tick \/ UNCHANGED vars
        => UNCHANGED queue
  BY DEF Arrive, Handler, Hit, Miss, Answer, CallFails, Resend, CallRefused,
         Store, Decide, Goto, Finish, Tick, queue, vars
<1>6. CASE UNCHANGED queue
  BY <1>6 DEF EventInv, queue
<1> QED BY <1>1, <1>2, <1>3, <1>4, <1>5, <1>6, NextCases

(* Only its Invalidate makes an event stop being pending. *)
LEMMA PendingKept ==
  ASSUME TypeOK, EventInv, [Next]_vars, NEW r \in Roles, Pending(r),
         ~\E n \in Events, i \in Instances : Invalidate(n, i) /\ about[n] = r
  PROVE  Pending(r)'
<1>1. PICK m \in Events : about[m] = r /\ place[m] # "acked" /\ ~purged[m]
  BY DEF Pending
<1>2. place[m] # "unsent"
  BY <1>1, NamesAssumption DEF EventInv
<1> SUFFICES about'[m] = r /\ place'[m] # "acked" /\ ~purged'[m]
  BY DEF Pending
<1>3. CASE QueueStep
  <2>1. ASSUME NEW n \in Events, Unrelated(n) \/ Publish(n)
        PROVE  about'[m] = r /\ place'[m] # "acked" /\ ~purged'[m]
    BY <1>1, <2>1 DEF TypeOK, Unrelated, Publish
  <2>2. ASSUME NEW n \in Events, NEW i \in Instances, Deliver(n, i)
        PROVE  about'[m] = r /\ place'[m] # "acked" /\ ~purged'[m]
    BY <1>1, <2>2, NamesAssumption DEF TypeOK, Deliver, BrokerPlaces
  <2>3. ASSUME NEW n \in Events, NEW i \in Instances, Ack(n, i)
        PROVE  about'[m] = r /\ place'[m] # "acked" /\ ~purged'[m]
    BY <1>1, <2>3 DEF TypeOK, Ack
  <2>4. ASSUME NEW i \in Instances, DropConnection(i) \/ Subscribe(i)
        PROVE  about'[m] = r /\ place'[m] # "acked" /\ ~purged'[m]
    BY <1>1, <2>4 DEF TypeOK, DropConnection, Subscribe, Requeue, queue
  <2> QED BY <1>3, <2>1, <2>2, <2>3, <2>4 DEF QueueStep
<1>4. ASSUME NEW n \in Events, NEW s \in Roles, Change(s, n)
      PROVE  about'[m] = r /\ place'[m] # "acked" /\ ~purged'[m]
  BY <1>1, <1>2, <1>4 DEF TypeOK, Change
<1>5. ASSUME NEW n \in Events, NEW i \in Instances, Invalidate(n, i)
      PROVE  about'[m] = r /\ place'[m] # "acked" /\ ~purged'[m]
  BY <1>1, <1>5 DEF TypeOK, Invalidate
<1>6. ASSUME NEW i \in Instances, ProcessGone(i)
      PROVE  about'[m] = r /\ place'[m] # "acked" /\ ~purged'[m]
  BY <1>1, <1>6 DEF TypeOK, ProcessGone, Requeue
<1>7. (\E q \in Requests : Arrive(q) \/ Handler(q)) \/ Tick \/ UNCHANGED vars
        => UNCHANGED queue
  BY DEF Arrive, Handler, Hit, Miss, Answer, CallFails, Resend, CallRefused,
         Store, Decide, Goto, Finish, Tick, queue, vars
<1>8. CASE UNCHANGED queue
  BY <1>1, <1>8 DEF queue
<1> QED BY <1>3, <1>4, <1>5, <1>6, <1>7, <1>8, NextCases

(* A change of r leaves an event for r to handle. *)
LEMMA ChangePending ==
  ASSUME TypeOK, EventInv, NEW n \in Events, NEW r \in Roles, Change(r, n)
  PROVE  Pending(r)'
<1>1. ~purged[n] /\ place[n] = "unsent"
  BY DEF Change, EventInv, BrokerPlaces
<1>2. about'[n] = r /\ place'[n] # "acked" /\ ~purged'[n]
  BY <1>1 DEF Change, TypeOK
<1> QED BY <1>2 DEF Pending

(* What is out of date after a step was so before, or has just become so   *)
(* by a change.                                                            *)
LEMMA GrantStep ==
  ASSUME TypeOK, EventInv, [Next]_vars, NEW r \in Roles, grant'[r] # grant[r]
  PROVE  Pending(r)' /\ cache' = cache /\ pc' = pc /\ local' = local
<1>1. PICK n \in Events, s \in Roles : Change(s, n)
  BY CoreKept DEF Tick
<1>2. s = r /\ cache' = cache /\ pc' = pc /\ local' = local
  BY <1>1 DEF Change, TypeOK, request
<1> QED BY <1>1, <1>2, ChangePending

(* With one instance, every step keeps stale answers crossed or pending. *)
LEMMA StaleStep ==
  ASSUME \A i, j \in Instances : i = j
  PROVE  TypeOK /\ RoleInv /\ EventInv /\ StaleInv /\ [Next]_vars => StaleInv'
<1> SUFFICES ASSUME TypeOK, RoleInv, EventInv, StaleInv, [Next]_vars
             PROVE  StaleInv'
  OBVIOUS
<1>1. ASSUME NEW q \in Requests, pc'[q] = "answered",
             local'[q].grant # grant'[RoleName(q)]
      PROVE  local'[q].crossed \/ Pending(RoleName(q))'
  <2>1. RoleName(q) \in Roles
    BY <1>1, RoleStep DEF RoleInv
  <2>2. CASE grant'[RoleName(q)] # grant[RoleName(q)]
    BY <2>1, <2>2, GrantStep
  <2>3. CASE /\ grant'[RoleName(q)] = grant[RoleName(q)]
             /\ pc[q] = "answered" /\ local'[q] = local[q]
             /\ ~\E n \in Events, i \in Instances :
                   Invalidate(n, i) /\ about[n] = RoleName(q)
    BY <1>1, <2>1, <2>3, PendingKept DEF StaleInv
  <2>4. ASSUME NEW n \in Events, NEW i \in Instances, Invalidate(n, i)
        PROVE  /\ about[n] = RoleName(q) => local'[q].crossed
               /\ about[n] # RoleName(q) => pc[q] = "answered" /\ local'[q] = local[q]
    <3>1. q.at = i /\ pc[q] = "answered"
      BY <1>1, <2>4, RequestRole DEF Invalidate
    <3>2. Locals(local[q].grant, local[q].attempt, local[q].sentAt, TRUE).crossed
      BY DEF Locals
    <3> QED BY <2>4, <3>1, <3>2 DEF Invalidate
  <2>5. ASSUME NEW p \in Requests, Arrive(p) \/ Handler(p)
        PROVE  \/ pc[q] = "answered" /\ local'[q] = local[q]
               \/ Answer(q)
    <3>1. CASE p = q
      BY <1>1, <2>5, <3>1 DEF TypeOK, Arrive, Handler, Hit, Miss, CallFails, Resend,
                              CallRefused, Store, Decide, Goto, Finish
    <3>2. CASE p # q
      BY <1>1, <2>5, <3>2 DEF TypeOK, Arrive, Handler, Hit, Miss, Answer, CallFails,
                              Resend, CallRefused, Store, Decide, Goto, Finish
    <3> QED BY <3>1, <3>2
  <2>6. CASE Answer(q)
    BY <1>1, <2>6 DEF Answer, Goto, core, TypeOK, Locals
  <2>7. ASSUME NEW i \in Instances, ProcessGone(i)
        PROVE  FALSE
    BY <1>1, <2>7, RequestRole DEF ProcessGone, TypeOK, Outcomes
  <2>8. QueueStep \/ Tick \/ UNCHANGED vars
          \/ (\E n \in Events, r \in Roles : Change(r, n))
        => pc' = pc /\ local' = local
    BY QueueStepQuiet DEF answers, Tick, Change, request, vars
  <2>9. CASE \E n \in Events, i \in Instances :
               Invalidate(n, i) /\ about[n] = RoleName(q)
    BY <2>4, <2>9
  <2> QED BY <1>1, <2>2, <2>3, <2>4, <2>5, <2>6, <2>7, <2>8, <2>9, NextCases
<1>2. ASSUME NEW i \in Instances, NEW r \in Roles,
             cache'[i][r] # NoEntry, cache'[i][r].grant # grant'[r]
      PROVE  cache'[i][r].crossed \/ Pending(r)'
  <2>1. CASE grant'[r] # grant[r]
    BY <2>1, GrantStep
  <2>2. CASE /\ grant'[r] = grant[r] /\ cache'[i][r] = cache[i][r]
             /\ ~\E n \in Events, j \in Instances : Invalidate(n, j) /\ about[n] = r
    BY <1>2, <2>2, PendingKept DEF StaleInv
  <2>3. ASSUME NEW n \in Events, NEW j \in Instances, Invalidate(n, j)
        PROVE  about[n] # r /\ cache'[i][r] = cache[i][r]
    BY <1>2, <2>3 DEF Invalidate, TypeOK
  <2>4. ASSUME NEW q \in Requests, Store(q), cache'[i][r] # cache[i][r],
               grant'[r] = grant[r]
        PROVE  cache'[i][r].crossed \/ Pending(r)'
    <3>1. r = RoleName(q) /\ q.at = i
      BY <2>4 DEF Store, TypeOK
    <3>2. /\ cache'[i][r].grant = local[q].grant
          /\ cache'[i][r].crossed = local[q].crossed
          /\ pc[q] = "answered"
      BY <2>4, <3>1 DEF Store, TypeOK
    <3>3. local[q].crossed \/ Pending(r)
      BY <1>2, <2>4, <3>1, <3>2 DEF StaleInv
    <3>4. ~\E n \in Events, j \in Instances : Invalidate(n, j) /\ about[n] = r
      BY <2>3, <2>4
    <3> QED BY <3>2, <3>3, <3>4, PendingKept
  <2>5. ASSUME NEW q \in Requests, Arrive(q) \/ Handler(q), ~Store(q)
        PROVE  cache' = cache
    BY <2>5 DEF Arrive, Handler, Hit, Miss, Answer, CallFails, Resend, CallRefused,
                Decide
  <2>6. ASSUME NEW j \in Instances, ProcessGone(j)
        PROVE  cache'[i][r] = cache[i][r]
    BY <1>2, <2>6 DEF ProcessGone, TypeOK
  <2>7. QueueStep \/ Tick \/ UNCHANGED vars
          \/ (\E n \in Events, s \in Roles : Change(s, n))
        => cache' = cache
    BY QueueStepQuiet DEF answers, Tick, Change, vars
  <2>8. ~\E n \in Events, j \in Instances : Invalidate(n, j) /\ about[n] = r
    BY <2>3
  <2> QED BY <2>1, <2>2, <2>3, <2>4, <2>5, <2>6, <2>7, <2>8, NextCases
<1> QED BY <1>1, <1>2 DEF StaleInv, Pending

(* With one instance, an entry of a role whose changes are all notified is *)
(* right unless an Invalidate crossed its lookup (boot.go:110-126,         *)
(* cache.go:40-47).                                                        *)
THEOREM OnlyCrossedStaleHolds ==
  ASSUME \A i, j \in Instances : i = j
  PROVE  Spec => []OnlyCrossedStale
<1> DEFINE IInv == TypeOK /\ RoleInv /\ EventInv /\ StaleInv
<1>1. Init => IInv
  <2>1. Init => TypeOK /\ RoleInv
    BY InvInit DEF Inv
  <2>2. Init => EventInv /\ StaleInv
    BY DEF Init, EventInv, StaleInv
  <2> QED BY <2>1, <2>2
<1>2. IInv /\ [Next]_vars => IInv'
  BY TypeStep, RoleStep, EventStep, StaleStep
<1>3. IInv => OnlyCrossedStale
  BY DEF StaleInv, OnlyCrossedStale, Notified, Pending
<1> QED BY <1>1, <1>2, <1>3, PTL DEF Spec
=============================================================================
