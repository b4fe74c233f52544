----------------------- MODULE ServiceLifecycleProofs -----------------------
(***************************************************************************)
(* The process keeps what the permission cache promises, consumes only     *)
(* with its database and queue in place, and costs no request its answer   *)
(* when it drains: for any number of instances, roles, requests and events.*)
(*                                                                         *)
(* The argument is a table of where Run is: which calls have succeeded,    *)
(* which closes are deferred, whether requests are admitted, and whether   *)
(* one can be in flight.                                                   *)
(***************************************************************************)
EXTENDS ServiceLifecycle, PermissionCacheProofs, SequenceTheorems, TLAPS

(* The deferred closes after n calls of Boot. *)
Stack(n) ==
  CASE n < 2             -> <<>>
    [] n \in 2..3        -> <<"mongo">>
    [] n \in 4..11       -> <<"broker", "mongo">>
    [] OTHER             -> <<"coreBroker", "broker", "mongo">>

Stacks == { <<>>, <<"mongo">>, <<"broker", "mongo">>,
            <<"coreBroker", "broker", "mongo">> }

(* The variables of the process are functions of the instances. *)
ProcessTypes ==
  /\ phase \in [Instances -> Phases]
  /\ calls \in [Instances -> 0..14]
  /\ live \in [Instances -> BOOLEAN]
  /\ defers \in [Instances -> Stacks]
  /\ attached \in [Instances -> BOOLEAN]
  /\ server \in [Instances -> Servers]
  /\ reply \in [Requests -> Replies]
  /\ cut \subseteq Requests

(* Where Run is, and what it has deferred. *)
RunInv ==
  \A i \in Instances :
    /\ phase[i] = "down" => calls[i] = 0
    /\ phase[i] = "boot" => calls[i] < 14
    /\ phase[i] \in {"serve", "drain"} => calls[i] = 14
    /\ phase[i] # "return" => defers[i] = Stack(calls[i])

(* The consumer is attached after all of the declarations, and before the  *)
(* broker is closed.                                                       *)
ConsumerInv ==
  \A i \in Instances :
    /\ \A k \in 1..calls[i] : Boot[k] \in Durable => Boot[k] \in built
    /\ attached[i] => /\ calls[i] >= 11
                      /\ defers[i] # <<>> /\ defers[i] # <<"mongo">>

(* Requests are admitted while serving, and one that is still in flight    *)
(* when Run returns is one the drain gave up.                              *)
FlightInv ==
  /\ \A i \in Instances : server[i] = "listening" => phase[i] = "serve"
  /\ \A q \in Requests :
       InFlight(q) => /\ phase[q.at] \in {"serve", "drain", "return"}
                      /\ phase[q.at] = "return" => q \in cut

ProcessInv == ProcessTypes /\ RunInv /\ ConsumerInv /\ FlightInv /\ DrainAnswers

-----------------------------------------------------------------------------
(* The service runs the permission cache *)

(* Every step of the service is one of the cache, or leaves it alone.      *)
LEMMA CacheStep == [ServiceNext]_svars => [Next]_vars
<1>1. ASSUME NEW i \in Instances, CallReturns(i)
      PROVE  [Next]_vars
  BY <1>1 DEF CallReturns, Next
<1>2. ASSUME NEW i \in Instances, Close(i)
      PROVE  [Next]_vars
  BY <1>2 DEF Close, Next, CoreStep
<1>3. ASSUME NEW i \in Instances, Exit(i) \/ Kill(i)
      PROVE  [Next]_vars
  BY <1>3 DEF Exit, Kill, Ends, Next
<1>4. ASSUME NEW q \in Requests, Admit(q) \/ ServeStep(q) \/ Query(q)
      PROVE  [Next]_vars
  BY <1>4 DEF Admit, ServeStep, Query, Next
<1>5. ASSUME NEW i \in Instances,
             \/ Launch(i) \/ Listen(i) \/ LoseBroker(i) \/ Signal(i)
             \/ CallErrs(i) \/ Shutdown(i) \/ Drained(i) \/ DrainTimesOut(i)
      PROVE  UNCHANGED vars
  BY <1>5 DEF Launch, Listen, LoseBroker, Signal, CallErrs, Shutdown, Drained,
              DrainTimesOut
<1>6. UNCHANGED svars => UNCHANGED vars
  BY DEF svars
<1> QED BY <1>1, <1>2, <1>3, <1>4, <1>5, <1>6 DEF ServiceNext, Run, Next

(* The service is a permission cache whose process boots and drains: what  *)
(* PermissionCache promises holds of it (boot.go:71-163).                  *)
THEOREM ServiceIsCache == ServiceSpec => Spec
<1>1. ServiceInit => Init
  BY DEF ServiceInit
<1> QED BY <1>1, CacheStep, PTL DEF ServiceSpec, Spec

(* So no request of the composed service is decided on an answer older     *)
(* than the cache's lifetime and one call, when the cache is on            *)
(* (cache.go:31-50).                                                       *)
THEOREM ServiceBoundedStaleness ==
  ASSUME TTL > 0
  PROVE  ServiceSpec => BoundedStaleness
BY ServiceIsCache, BoundedStalenessHolds, PTL

-----------------------------------------------------------------------------
(* The table of calls *)

LEMMA BootLength == Len(Boot) = 14
BY DEF Boot

(* Each call adds its close on top of those deferred before. *)
LEMMA StackGrows ==
  ASSUME NEW n \in 0..13
  PROVE  /\ Boot[n + 1] \in Connections => Stack(n + 1) = <<Boot[n + 1]>> \o Stack(n)
         /\ Boot[n + 1] \notin Connections => Stack(n + 1) = Stack(n)
<1>1. CASE n \in {0, 2, 4, 5, 6, 7, 8, 9, 10, 12, 13}
  BY <1>1 DEF Boot, Connections, Stack
<1>2. CASE n = 1
  BY <1>2 DEF Boot, Connections, Stack
<1>3. CASE n = 3
  BY <1>3 DEF Boot, Connections, Stack
<1>4. CASE n = 11
  BY <1>4 DEF Boot, Connections, Stack
<1> QED BY <1>1, <1>2, <1>3, <1>4

LEMMA StackType == \A n \in 0..14 : Stack(n) \in Stacks
BY DEF Stack, Stacks

(* What is left of a stack when its first close is done: MongoDB is the    *)
(* last, and closed after the broker.                                      *)
LEMMA StackShrinks ==
  ASSUME NEW s \in Stacks, s # <<>>
  PROVE  /\ Tail(s) \in Stacks
         /\ Tail(s) \in {<<>>, <<"mongo">>}
              => s = <<"mongo">> \/ Head(s) = "broker"
<1>1. CASE s = <<"mongo">>
  <2>1. Tail(s) = <<>>
    BY <1>1
  <2> QED BY <1>1, <2>1 DEF Stacks
<1>2. CASE s = <<"broker", "mongo">>
  <2>1. Tail(s) = <<"mongo">> /\ Head(s) = "broker"
    BY <1>2
  <2> QED BY <2>1 DEF Stacks
<1>3. CASE s = <<"coreBroker", "broker", "mongo">>
  <2>1. Tail(s) = <<"broker", "mongo">>
    BY <1>3
  <2>2. <<"broker", "mongo">> # <<>> /\ <<"broker", "mongo">> # <<"mongo">>
    OBVIOUS
  <2> QED BY <2>1, <2>2 DEF Stacks
<1> QED BY <1>1, <1>2, <1>3 DEF Stacks

-----------------------------------------------------------------------------
(* The connections that are made and those that are left to close *)

(* What Made computes is the table: both are <<>> at the start, and go on  *)
(* alike.                                                                  *)
LEMMA MadeIsStack == \A n \in 0..14 : Made[n] = Stack(n)
<1> DEFINE Body(f) ==
             [n \in 0..14 |->
                IF n = 0 THEN <<>>
                ELSE (IF Boot[n] \in Connections THEN <<Boot[n]>> ELSE <<>>) \o f[n - 1]]
           table == [n \in 0..14 |-> Stack(n)]
<1>1. ASSUME NEW n \in 1..14
      PROVE  Stack(n) = (IF Boot[n] \in Connections THEN <<Boot[n]>> ELSE <<>>) \o Stack(n - 1)
  <2>1. n - 1 \in 0..13 /\ (n - 1) + 1 = n /\ Stack(n - 1) \in Stacks
    BY StackType
  <2>2. \A s \in Stacks : <<>> \o s = s
    BY DEF Stacks
  <2> QED BY <2>1, <2>2, StackGrows
<1>2. table = Body(table)
  <2>1. Stack(0) = <<>>
    BY DEF Stack
  <2>2. \A n \in 1..14 : n - 1 \in 0..14
    OBVIOUS
  <2>3. \A n \in 0..14 : n # 0 => n \in 1..14
    OBVIOUS
  <2> QED BY <1>1, <2>1, <2>2, <2>3
<1>3. Made = CHOOSE f : f = Body(f)
  BY BootLength DEF Made
<1>4. Made = Body(Made)
  <2> HIDE DEF Body, table
  <2> QED BY <1>2, <1>3
<1>5. /\ Made[0] = Stack(0)
      /\ \A n \in 1..14 : Made[n - 1] = Stack(n - 1) => Made[n] = Stack(n)
  <2>1. \A n \in 0..14 :
          Made[n] = IF n = 0 THEN <<>>
                    ELSE (IF Boot[n] \in Connections THEN <<Boot[n]>> ELSE <<>>) \o Made[n - 1]
    <3> DEFINE f == Made
    <3>1. f = Body(f)
      BY <1>4
    <3> HIDE DEF f
    <3> QED BY <3>1 DEF f
  <2>2. Made[0] = Stack(0)
    BY <2>1 DEF Stack
  <2> HIDE DEF Made, Stack, Boot
  <2>3. ASSUME NEW n \in 1..14, Made[n - 1] = Stack(n - 1) PROVE Made[n] = Stack(n)
    <3>1. n \in 0..14 /\ n # 0
      OBVIOUS
    <3>2. Made[n] = (IF Boot[n] \in Connections THEN <<Boot[n]>> ELSE <<>>) \o Made[n - 1]
      BY <2>1, <3>1, Zenon
    <3> QED BY <1>1, <2>3, <3>2, Zenon
  <2> QED BY <2>2, <2>3
<1> HIDE DEF Made, Stack
<1>6. /\ Made[1] = Stack(1) /\ Made[2] = Stack(2) /\ Made[3] = Stack(3)
      /\ Made[4] = Stack(4) /\ Made[5] = Stack(5) /\ Made[6] = Stack(6)
  BY <1>5
<1>7. /\ Made[7] = Stack(7) /\ Made[8] = Stack(8) /\ Made[9] = Stack(9)
      /\ Made[10] = Stack(10)
  BY <1>5, <1>6
<1>8. /\ Made[11] = Stack(11) /\ Made[12] = Stack(12) /\ Made[13] = Stack(13)
      /\ Made[14] = Stack(14)
  BY <1>5, <1>7
<1> QED BY <1>5, <1>6, <1>7, <1>8

(* Of two stacks the shorter one is what is left of the longer one. *)
LEMMA StacksNest ==
  ASSUME NEW s \in Stacks, NEW t \in Stacks, Len(s) <= Len(t)
  PROVE  IsSuffix(s, t)
<1> DEFINE s3 == <<"mongo", "broker", "coreBroker">>
<1>1. /\ Len(Reverse(s)) = Len(s) /\ Len(Reverse(t)) = Len(t)
      /\ \A k \in 1..Len(s) : Reverse(s)[k] = s3[k]
      /\ \A k \in 1..Len(t) : Reverse(t)[k] = s3[k]
  <2>1. ASSUME NEW x \in Stacks
        PROVE  /\ Len(Reverse(x)) = Len(x)
               /\ \A k \in 1..Len(x) : Reverse(x)[k] = s3[k]
    <3>1. x \in Seq(Connections) /\ Len(x) \in Nat
      <4>1. /\ <<>> \in Seq(Connections) /\ <<"mongo">> \in Seq(Connections)
            /\ <<"broker", "mongo">> \in Seq(Connections)
            /\ <<"coreBroker", "broker", "mongo">> \in Seq(Connections)
        BY DEF Connections
      <4> QED BY <4>1 DEF Stacks
    <3>2. Len(Reverse(x)) = Len(x)
      BY <3>1 DEF Reverse
    <3>3. \A k \in 1..Len(x) : Reverse(x)[k] = x[(Len(x) - k) + 1]
      BY DEF Reverse
    <3>4. CASE x = <<>>
      BY <3>2, <3>4
    <3>5. CASE x = <<"mongo">>
      BY <3>2, <3>3, <3>5
    <3>6. CASE x = <<"broker", "mongo">>
      BY <3>2, <3>3, <3>6
    <3>7. CASE x = <<"coreBroker", "broker", "mongo">>
      BY <3>2, <3>3, <3>7
    <3> QED BY <3>4, <3>5, <3>6, <3>7 DEF Stacks
  <2> QED BY <2>1
<1>2. Reverse(s) \in Seq(Connections) /\ Reverse(t) \in Seq(Connections) /\ Len(s) \in Nat
  BY DEF Stacks, Reverse, Connections
<1>3. SubSeq(Reverse(s), 1, Len(s)) = SubSeq(Reverse(t), 1, Len(s))
  <2> DEFINE a == Reverse(s)
             b == Reverse(t)
             n == Len(s)
  <2>1. /\ a \in Seq(Connections) /\ b \in Seq(Connections) /\ n \in Nat
        /\ n <= Len(a) /\ n <= Len(b) /\ \A k \in 1..n : a[k] = b[k]
    BY <1>1, <1>2
  <2> HIDE DEF a, b, n
  <2>2. /\ \A k \in 1..n : a[k] \in Connections /\ b[k] \in Connections
        /\ 1 \in Int /\ n \in Int
    BY <2>1
  <2>3. /\ SubSeq(a, 1, n) \in Seq(Connections) /\ SubSeq(b, 1, n) \in Seq(Connections)
        /\ Len(SubSeq(a, 1, n)) = IF 1 <= n THEN n - 1 + 1 ELSE 0
        /\ Len(SubSeq(b, 1, n)) = IF 1 <= n THEN n - 1 + 1 ELSE 0
        /\ \A k \in 1..n - 1 + 1 : SubSeq(a, 1, n)[k] = a[1 + k - 1]
        /\ \A k \in 1..n - 1 + 1 : SubSeq(b, 1, n)[k] = b[1 + k - 1]
    BY <2>2, SubSeqProperties
  <2>4. /\ Len(SubSeq(a, 1, n)) = n /\ Len(SubSeq(b, 1, n)) = n
        /\ \A k \in 1..n : SubSeq(a, 1, n)[k] = SubSeq(b, 1, n)[k]
    BY <2>1, <2>3
  <2> DEFINE x == SubSeq(a, 1, n)
             y == SubSeq(b, 1, n)
  <2>5. /\ x \in Seq(Connections) /\ y \in Seq(Connections)
        /\ Len(x) = Len(y) /\ \A k \in 1..Len(x) : x[k] = y[k]
    BY <2>3, <2>4
  <2> HIDE DEF x, y
  <2>6. x = y
    BY <2>5, SeqEqual
  <2> QED BY <2>6 DEF a, b, n, x, y
<1> QED BY <1>1, <1>3 DEF IsSuffix, IsPrefix

-----------------------------------------------------------------------------
(* What the steps do to a request *)

(* A handler works on a request that has arrived, moves that one only, and *)
(* never loses it.                                                         *)
LEMMA HandlerMoves ==
  ASSUME TypeOK, NEW q \in Requests, Handler(q)
  PROVE  /\ pc[q] \notin Outcomes \cup {"unsent"}
         /\ \A p \in Requests : p # q => pc'[p] = pc[p]
         /\ pc'[q] # "lost"
BY DEF TypeOK, Handler, Hit, Miss, Answer, CallFails, Resend, CallRefused,
       Store, Decide, Calling, Goto, Finish, Outcomes

(* So does the admission of one that has not arrived. *)
LEMMA ArriveMoves ==
  ASSUME TypeOK, NEW q \in Requests, Arrive(q)
  PROVE  /\ \A p \in Requests : p # q => pc'[p] = pc[p]
         /\ pc'[q] # "lost"
BY DEF TypeOK, Arrive, Goto, Finish

(* Neither core nor the calls of Run touch a request. *)
LEMMA NobodyMoves ==
  ASSUME CoreStep \/ \E i \in Instances : Subscribe(i) \/ DropConnection(i)
  PROVE  pc' = pc
BY DEF CoreStep, Change, Unrelated, Publish, Deliver, Invalidate, Ack,
       DropConnection, Subscribe, Tick, request

(* When a process ends, its requests in flight are lost and no others.     *)
LEMMA EndsRequests ==
  ASSUME TypeOK, ProcessTypes, NEW i \in Instances, Ends(i)
  PROVE  /\ \A q \in Requests : q.at # i => pc'[q] = pc[q] /\ reply'[q] = reply[q]
         /\ \A q \in Requests :
              q.at = i => /\ ~InFlight(q)'
                          /\ ~InFlight(q) => pc'[q] = pc[q] /\ reply'[q] = reply[q]
BY DEF TypeOK, ProcessTypes, Ends, ProcessGone, InFlight, Outcomes

-----------------------------------------------------------------------------
(* The invariant *)

(* It holds of processes that are down. *)
LEMMA ProcessInit == ServiceInit => ProcessInv
<1> SUFFICES ASSUME ServiceInit
             PROVE  ProcessInv
  OBVIOUS
<1>1. ProcessTypes
  BY DEF ServiceInit, ProcessTypes, Phases, Servers, Replies, Stacks
<1>2. RunInv
  BY DEF ServiceInit, RunInv, Stack
<1>3. ConsumerInv
  BY DEF ServiceInit, ConsumerInv
<1>4. FlightInv /\ DrainAnswers
  BY DEF ServiceInit, Init, FlightInv, DrainAnswers, InFlight, Outcomes
<1> QED BY <1>1, <1>2, <1>3, <1>4 DEF ProcessInv

(* The types, step by step. *)
LEMMA ProcessTypesStep ==
  ASSUME ProcessInv, [ServiceNext]_svars
  PROVE  ProcessTypes'
<1> USE DEF ProcessInv, ProcessTypes, Phases, Servers, Replies
<1>1. ASSUME NEW i \in Instances, CallReturns(i)
      PROVE  ProcessTypes'
  <2>1. calls[i] \in 0..13 /\ calls[i] + 1 \in 0..14
    BY <1>1 DEF CallReturns, RunInv
  <2>2. defers' = [defers EXCEPT ![i] = Stack(calls[i] + 1)]
    BY <1>1, <2>1, StackGrows DEF CallReturns, RunInv
  <2>3. defers' \in [Instances -> Stacks]
    BY <2>1, <2>2, StackType
  <2> QED BY <1>1, <2>1, <2>3, BootLength DEF CallReturns
<1>2. ASSUME NEW i \in Instances, Close(i)
      PROVE  ProcessTypes'
  BY <1>2, StackShrinks DEF Close
<1>3. ASSUME NEW i \in Instances, Exit(i) \/ Kill(i)
      PROVE  ProcessTypes'
  <2>1. <<>> \in Stacks
    BY DEF Stacks
  <2>2. cut' \subseteq Requests
    BY <1>3 DEF Exit, Kill, InFlightAt
  <2>3. Ends(i)
    BY <1>3 DEF Exit, Kill
  <2>4. reply' \in [Requests -> Replies]
    BY <2>3 DEF Ends
  <2>5. defers' \in [Instances -> Stacks]
    BY <2>1, <2>3 DEF Ends
  <2> QED BY <2>2, <2>3, <2>4, <2>5 DEF Ends
<1>4. ASSUME NEW q \in Requests, Admit(q) \/ ServeStep(q) \/ Query(q)
      PROVE  ProcessTypes'
  BY <1>4 DEF Admit, ServeStep, Query, process
<1>5. ASSUME NEW i \in Instances, Launch(i) \/ Listen(i) \/ LoseBroker(i) \/ Signal(i)
      PROVE  ProcessTypes'
  BY <1>5 DEF Launch, Listen, LoseBroker, Signal
<1>6. ASSUME NEW i \in Instances,
             CallErrs(i) \/ Shutdown(i) \/ Drained(i) \/ DrainTimesOut(i)
      PROVE  ProcessTypes'
  BY <1>6 DEF CallErrs, Shutdown, Drained, DrainTimesOut, InFlightAt
<1>7. CASE UNCHANGED svars \/ (CoreStep /\ UNCHANGED <<process, built, reply, cut>>)
  BY <1>7 DEF svars, process
<1> QED BY <1>1, <1>2, <1>3, <1>4, <1>5, <1>6, <1>7 DEF ServiceNext, Run

(* Run and its stack of closes go together. *)
LEMMA RunStep ==
  ASSUME ProcessInv, [ServiceNext]_svars
  PROVE  RunInv'
<1> USE DEF ProcessInv, ProcessTypes
<1>1. ASSUME NEW i \in Instances, CallReturns(i)
      PROVE  RunInv'
  <2>1. calls[i] \in 0..13
    BY <1>1 DEF CallReturns, RunInv
  <2>2. defers' = [defers EXCEPT ![i] = Stack(calls[i] + 1)]
    BY <1>1, <2>1, StackGrows DEF CallReturns, RunInv
  <2>3. /\ phase[i] = "boot" /\ calls' = [calls EXCEPT ![i] = @ + 1]
        /\ phase' = [phase EXCEPT ![i] = IF calls[i] + 1 = 14 THEN "serve" ELSE @]
    BY <1>1, BootLength DEF CallReturns
  <2>4. \A j \in Instances : j # i => /\ phase'[j] = phase[j]
                                     /\ calls'[j] = calls[j]
                                     /\ defers'[j] = defers[j]
    BY <2>2, <2>3
  <2>5. calls'[i] = calls[i] + 1 /\ defers'[i] = Stack(calls'[i])
    BY <2>1, <2>2, <2>3
  <2> QED BY <2>1, <2>3, <2>4, <2>5 DEF RunInv
<1>2. ASSUME NEW i \in Instances, Close(i)
      PROVE  RunInv'
  BY <1>2 DEF Close, RunInv
<1>3. ASSUME NEW i \in Instances, Exit(i) \/ Kill(i)
      PROVE  RunInv'
  <2>1. Stack(0) = <<>>
    BY DEF Stack
  <2> QED BY <1>3, <2>1 DEF Exit, Kill, Ends, RunInv
<1>4. ASSUME NEW i \in Instances, Launch(i)
      PROVE  RunInv'
  <2>1. phase[i] = "down" /\ UNCHANGED <<calls, defers>>
    BY <1>4 DEF Launch
  <2>2. phase' = [phase EXCEPT ![i] = "boot"]
    BY <1>4 DEF Launch
  <2>3. calls[i] < 14
    BY <2>1 DEF RunInv
  <2> QED BY <2>1, <2>2, <2>3 DEF RunInv
<1>5. ASSUME NEW i \in Instances,
             CallErrs(i) \/ Shutdown(i) \/ Drained(i) \/ DrainTimesOut(i)
      PROVE  RunInv'
  BY <1>5 DEF CallErrs, Shutdown, Drained, DrainTimesOut, RunInv
<1>6. (\E i \in Instances : Listen(i) \/ LoseBroker(i) \/ Signal(i))
        \/ (\E q \in Requests : Admit(q) \/ ServeStep(q) \/ Query(q))
        \/ (CoreStep /\ UNCHANGED <<process, built, reply, cut>>)
        \/ UNCHANGED svars
      => UNCHANGED <<phase, calls, defers>>
  BY DEF Listen, LoseBroker, Signal, Admit, ServeStep, Query, process, svars
<1>7. UNCHANGED <<phase, calls, defers>> => RunInv'
  BY DEF RunInv
<1> QED BY <1>1, <1>2, <1>3, <1>4, <1>5, <1>6, <1>7 DEF ServiceNext, Run

(* The consumer has what it needs, whatever happens. *)
LEMMA ConsumerStep ==
  ASSUME ProcessInv, [ServiceNext]_svars
  PROVE  ConsumerInv'
<1> USE DEF ProcessInv, ProcessTypes
<1>1. ASSUME NEW i \in Instances, CallReturns(i)
      PROVE  ConsumerInv'
  <2>1. calls[i] \in 0..13 /\ calls' = [calls EXCEPT ![i] = @ + 1]
    BY <1>1 DEF CallReturns, RunInv
  <2>2. defers' = [defers EXCEPT ![i] = Stack(calls[i] + 1)]
    BY <1>1, <2>1, StackGrows DEF CallReturns, RunInv
  <2>3. \A j \in Instances : \A k \in 1..calls'[j] :
          Boot[k] \in Durable => Boot[k] \in built'
    <3>1. built' = built \cup ({Boot[calls[i] + 1]} \cap Durable)
      BY <1>1 DEF CallReturns
    <3>2. \A j \in Instances : \A k \in 1..calls'[j] :
            k \in 1..calls[j] \/ (j = i /\ k = calls[i] + 1)
      BY <2>1
    <3> QED BY <3>1, <3>2 DEF ConsumerInv
  <2>4. attached'[i] => calls'[i] >= 11
    <3>1. Boot[calls[i] + 1] = "consume" => calls[i] = 10
      BY <2>1 DEF Boot
    <3> QED BY <1>1, <2>1, <3>1 DEF CallReturns, ConsumerInv
  <2>5. calls'[i] >= 11 => defers'[i] # <<>> /\ defers'[i] # <<"mongo">>
    BY <2>1, <2>2 DEF Stack
  <2> QED BY <1>1, <2>1, <2>2, <2>3, <2>4, <2>5 DEF CallReturns, ConsumerInv
<1>2. ASSUME NEW i \in Instances, Close(i)
      PROVE  ConsumerInv'
  <2>1. attached'[i] => Tail(defers[i]) # <<>> /\ Tail(defers[i]) # <<"mongo">>
    BY <1>2, StackShrinks DEF Close, ConsumerInv
  <2> QED BY <1>2, <2>1 DEF Close, ConsumerInv
<1>3. ASSUME NEW i \in Instances, Exit(i) \/ Kill(i)
      PROVE  ConsumerInv'
  BY <1>3 DEF Exit, Kill, Ends, ConsumerInv
<1>4. ASSUME NEW i \in Instances, LoseBroker(i)
      PROVE  ConsumerInv'
  BY <1>4 DEF LoseBroker, ConsumerInv
<1>5. (\E i \in Instances :
         \/ Launch(i) \/ Listen(i) \/ Signal(i)
         \/ CallErrs(i) \/ Shutdown(i) \/ Drained(i) \/ DrainTimesOut(i))
        \/ (\E q \in Requests : Admit(q) \/ ServeStep(q) \/ Query(q))
        \/ (CoreStep /\ UNCHANGED <<process, built, reply, cut>>)
        \/ UNCHANGED svars
      => UNCHANGED <<calls, defers, attached, built>>
  BY DEF Launch, Listen, Signal, CallErrs, Shutdown, Drained, DrainTimesOut,
         Admit, ServeStep, Query, process, svars
<1>6. UNCHANGED <<calls, defers, attached, built>> => ConsumerInv'
  BY DEF ConsumerInv
<1> QED BY <1>1, <1>2, <1>3, <1>4, <1>5, <1>6 DEF ServiceNext, Run

(* The server admits requests while Run waits for the signal only. *)
LEMMA ServerStep ==
  ASSUME ProcessInv, [ServiceNext]_svars
  PROVE  \A i \in Instances : server'[i] = "listening" => phase'[i] = "serve"
<1> DEFINE P == \A i \in Instances : server[i] = "listening" => phase[i] = "serve"
<1> USE DEF ProcessInv, ProcessTypes, FlightInv
<1>1. ASSUME NEW i \in Instances,
             \/ CallReturns(i) \/ CallErrs(i) \/ Launch(i) \/ Listen(i)
             \/ Shutdown(i) \/ Drained(i) \/ DrainTimesOut(i)
      PROVE  P'
  BY <1>1 DEF CallReturns, CallErrs, Launch, Listen, Shutdown, Drained, DrainTimesOut
<1>2. ASSUME NEW i \in Instances, Exit(i) \/ Kill(i)
      PROVE  P'
  BY <1>2 DEF Exit, Kill, Ends
<1>3. (\E i \in Instances : Close(i) \/ LoseBroker(i) \/ Signal(i))
        \/ (\E q \in Requests : Admit(q) \/ ServeStep(q) \/ Query(q))
        \/ (CoreStep /\ UNCHANGED <<process, built, reply, cut>>)
        \/ UNCHANGED svars
      => UNCHANGED <<phase, server>>
  BY DEF Close, LoseBroker, Signal, Admit, ServeStep, Query, process, svars
<1>4. UNCHANGED <<phase, server>> => P'
  OBVIOUS
<1> QED BY <1>1, <1>2, <1>3, <1>4 DEF ServiceNext, Run

(* MongoDB is connected as long as Run serves or drains. *)
LEMMA MongoWhileServing ==
  ASSUME ProcessInv, NEW i \in Instances, phase[i] \in {"serve", "drain"}
  PROVE  Contains(defers[i], "mongo")
<1>1. defers[i] = <<"coreBroker", "broker", "mongo">>
  BY DEF ProcessInv, RunInv, Stack
<1>2. Len(defers[i]) = 3 /\ defers[i][3] = "mongo"
  BY <1>1
<1> QED BY <1>2 DEF Contains

(* A request in flight finds its process serving, draining, or returning   *)
(* after a drain that gave it up; so none is lost that was not cut.        *)
LEMMA FlightStep ==
  ASSUME TypeOK, ProcessInv, [ServiceNext]_svars
  PROVE  FlightInv' /\ DrainAnswers'
<1> DEFINE Placed(q) == InFlight(q) => /\ phase[q.at] \in {"serve", "drain", "return"}
                                       /\ phase[q.at] = "return" => q \in cut
           Excused(q) == pc[q] = "lost" \/ reply[q] \in {"lost", "disconnected"}
                           => q \in cut
<1>0. SUFFICES \A q \in Requests : Placed(q)' /\ Excused(q)'
  BY ServerStep DEF FlightInv, DrainAnswers
<1> USE DEF ProcessInv, ProcessTypes, FlightInv, DrainAnswers
<1>1. \A q \in Requests : q.at \in Instances
  BY RequestAssumption DEF Request
<1>2. ASSUME NEW i \in Instances,
             \/ CallReturns(i) \/ CallErrs(i) \/ Close(i) \/ Launch(i)
             \/ Listen(i) \/ LoseBroker(i) \/ Signal(i)
             \/ Shutdown(i) \/ Drained(i) \/ DrainTimesOut(i)
      PROVE  \A q \in Requests : Placed(q)' /\ Excused(q)'
  <2>1. pc' = pc
    BY <1>2, NobodyMoves
       DEF CallReturns, CallErrs, Close, Launch, Listen, LoseBroker, Signal,
           Shutdown, Drained, DrainTimesOut, vars
  <2>2. reply' = reply /\ cut \subseteq cut'
    BY <1>2 DEF CallReturns, CallErrs, Close, Launch, Listen, LoseBroker, Signal,
                Shutdown, Drained, DrainTimesOut
  <2>3. \A q \in Requests : InFlight(q)' = InFlight(q)
    BY <2>1, <2>2 DEF InFlight
  <2>4. \A q \in Requests : Excused(q)'
    BY <2>1, <2>2
  <2>5. ASSUME NEW q \in Requests, InFlight(q)
        PROVE  /\ phase'[q.at] \in {"serve", "drain", "return"}
               /\ phase'[q.at] = "return" => q \in cut'
    <3>1. CASE CallReturns(i) \/ CallErrs(i) \/ Launch(i) \/ Shutdown(i)
      BY <1>1, <2>2, <2>5, <3>1 DEF CallReturns, CallErrs, Launch, Shutdown
    <3>2. CASE Close(i) \/ Listen(i) \/ LoseBroker(i) \/ Signal(i)
      <4>1. phase' = phase
        BY <3>2 DEF Close, Listen, LoseBroker, Signal
      <4> QED BY <2>2, <2>5, <4>1
    <3>3. CASE Drained(i) \/ DrainTimesOut(i)
      <4>1. q.at = i => q \in InFlightAt(i)
        BY <2>5 DEF InFlightAt
      <4> QED BY <1>1, <2>2, <2>5, <3>3, <4>1 DEF Drained, DrainTimesOut
    <3> QED BY <1>2, <3>1, <3>2, <3>3
  <2> QED BY <2>3, <2>4, <2>5
<1>3. ASSUME NEW i \in Instances, Exit(i) \/ Kill(i)
      PROVE  \A q \in Requests : Placed(q)' /\ Excused(q)'
  <2>1. Ends(i) /\ cut \subseteq cut'
    BY <1>3 DEF Exit, Kill
  <2>2. \A q \in Requests : q.at = i /\ InFlight(q) => q \in cut'
    BY <1>3, <2>1 DEF Exit, Kill, InFlightAt
  <2>3. \A q \in Requests : q.at # i => InFlight(q)' = InFlight(q)
    BY <2>1, EndsRequests DEF InFlight
  <2>4. phase' = [phase EXCEPT ![i] = "down"]
    BY <2>1 DEF Ends
  <2>5. \A q \in Requests : Placed(q)'
    BY <1>1, <2>1, <2>3, <2>4, EndsRequests
  <2>6. \A q \in Requests : Excused(q)'
    BY <2>1, <2>2, EndsRequests
  <2> QED BY <2>5, <2>6
<1>4. ASSUME NEW q \in Requests, Admit(q) \/ ServeStep(q)
      PROVE  \A p \in Requests : Placed(p)' /\ Excused(p)'
  <2>1. UNCHANGED <<phase, reply, cut>>
    BY <1>4 DEF Admit, ServeStep, process
  <2>2. /\ \A p \in Requests : p # q => pc'[p] = pc[p]
        /\ pc'[q] # "lost"
    BY <1>4, ArriveMoves, HandlerMoves DEF Admit, ServeStep
  <2>3. /\ phase[q.at] \in {"serve", "drain", "return"}
        /\ phase[q.at] = "return" => q \in cut
    <3>1. CASE Admit(q)
      BY <1>1, <3>1 DEF Admit
    <3>2. CASE ServeStep(q)
      BY <3>2, HandlerMoves DEF ServeStep, InFlight
    <3> QED BY <1>4, <3>1, <3>2
  <2>4. \A p \in Requests : p # q => InFlight(p)' = InFlight(p)
    BY <2>1, <2>2 DEF InFlight
  <2> QED BY <2>1, <2>2, <2>3, <2>4
<1>5. ASSUME NEW q \in Requests, Query(q)
      PROVE  \A p \in Requests : Placed(p)' /\ Excused(p)'
  <2>1. UNCHANGED <<phase, cut, pc>> /\ InFlight(q)
    BY <1>5 DEF Query, vars, process, InFlight
  <2>2. reply'[q] = "disconnected" => q \in cut
    BY <1>1, <1>5, <2>1, MongoWhileServing DEF Query
  <2>3. reply'[q] \in {"rows", "error", "disconnected"}
    BY <1>5 DEF Query
  <2>4. \A p \in Requests : p # q => reply'[p] = reply[p]
    BY <1>5 DEF Query
  <2>5. \A p \in Requests : InFlight(p)' => InFlight(p)
    BY <2>1, <2>4 DEF InFlight
  <2> QED BY <2>1, <2>2, <2>3, <2>4, <2>5
<1>6. ASSUME UNCHANGED svars \/ (CoreStep /\ UNCHANGED <<process, built, reply, cut>>)
      PROVE  \A q \in Requests : Placed(q)' /\ Excused(q)'
  <2>1. UNCHANGED <<phase, reply, cut, pc>>
    BY <1>6, NobodyMoves DEF svars, process, vars
  <2>2. \A q \in Requests : InFlight(q)' = InFlight(q)
    BY <2>1 DEF InFlight
  <2> QED BY <2>1, <2>2
<1> QED BY <1>2, <1>3, <1>4, <1>5, <1>6 DEF ServiceNext, Run

-----------------------------------------------------------------------------
(* In every reachable state the table holds. *)
LEMMA ProcessInvariant == ServiceSpec => []ProcessInv
<1>1. TypeOK /\ ProcessInv /\ [ServiceNext]_svars => ProcessInv'
  BY ProcessTypesStep, RunStep, ConsumerStep, FlightStep DEF ProcessInv
<1>2. ServiceSpec => []TypeOK
  BY ServiceIsCache, PermissionTypes, PTL
<1> QED BY <1>1, <1>2, ProcessInit, PTL DEF ServiceSpec

(* A signal costs no request its answer unless the drain times out or the  *)
(* process is killed (boot.go:154-163).                                    *)
THEOREM DrainAnswersHolds == ServiceSpec => []DrainAnswers
BY ProcessInvariant, PTL DEF ProcessInv

(* A consumer is attached only with MongoDB connected, its indexes and the *)
(* queue's topology in place (boot.go:45-95, amqp.go:92-128).              *)
THEOREM ReadyToConsumeHolds == ServiceSpec => []ReadyToConsume
<1>1. ASSUME ProcessInv
      PROVE  ReadyToConsume
  <2>1. ASSUME NEW i \in Instances, attached[i]
        PROVE  Contains(defers[i], "mongo") /\ Durable \subseteq built
    <3>1. defers[i] \in {<<"broker", "mongo">>, <<"coreBroker", "broker", "mongo">>}
      BY <1>1, <2>1 DEF ProcessInv, ProcessTypes, ConsumerInv, Stacks
    <3>2. \E k \in 1..Len(defers[i]) : defers[i][k] = "mongo"
      <4>1. CASE defers[i] = <<"broker", "mongo">>
        <5>1. Len(defers[i]) = 2 /\ defers[i][2] = "mongo"
          BY <4>1
        <5> QED BY <5>1
      <4>2. CASE defers[i] = <<"coreBroker", "broker", "mongo">>
        <5>1. Len(defers[i]) = 3 /\ defers[i][3] = "mongo"
          BY <4>2
        <5> QED BY <5>1
      <4> QED BY <3>1, <4>1, <4>2
    <3>3. \A k \in 1..10 : Boot[k] \in Durable => Boot[k] \in built
      BY <1>1, <2>1 DEF ProcessInv, ProcessTypes, ConsumerInv
    <3>4. Durable \subseteq {Boot[3], Boot[5], Boot[6], Boot[7], Boot[8], Boot[9], Boot[10]}
      BY DEF Durable, Boot
    <3>5. Durable \subseteq built
      BY <3>3, <3>4
    <3> QED BY <3>2, <3>5 DEF Contains
  <2> QED BY <2>1 DEF ReadyToConsume
<1> QED BY <1>1, ProcessInvariant, PTL

-----------------------------------------------------------------------------
(* The types of the service *)

(* There is never more to close than was made, and nothing is built that   *)
(* is not durable.                                                         *)
LeftInv ==
  /\ \A i \in Instances : Len(defers[i]) <= Len(Stack(calls[i]))
  /\ built \subseteq Durable

(* A close that is done leaves one less. *)
LEMMA TailShortens ==
  ASSUME NEW s \in Stacks, s # <<>>
  PROVE  Len(Tail(s)) \in Nat /\ Len(s) \in Nat /\ Len(Tail(s)) < Len(s)
BY DEF Stacks

LEMMA LeftInit == ServiceInit => LeftInv
<1>1. \A n \in {0} : Stack(n) = <<>>
  BY DEF Stack
<1> QED BY <1>1 DEF ServiceInit, LeftInv

LEMMA LeftStep ==
  ASSUME ProcessInv, LeftInv, [ServiceNext]_svars
  PROVE  LeftInv'
<1> USE DEF ProcessInv, ProcessTypes, LeftInv
<1>1. ASSUME NEW i \in Instances, CallReturns(i)
      PROVE  LeftInv'
  <2>1. calls[i] \in 0..13 /\ calls[i] + 1 \in 0..14
    BY <1>1 DEF CallReturns, RunInv
  <2>2. /\ defers' = [defers EXCEPT ![i] = Stack(calls[i] + 1)]
        /\ calls' = [calls EXCEPT ![i] = calls[i] + 1]
    BY <1>1, <2>1, StackGrows DEF CallReturns, RunInv
  <2>3. built' \subseteq Durable
    BY <1>1 DEF CallReturns
  <2>4. Len(Stack(calls[i] + 1)) \in Nat
    BY <2>1, StackType DEF Stacks
  <2>5. ASSUME NEW j \in Instances
        PROVE  Len(defers'[j]) <= Len(Stack(calls'[j]))
    <3>1. CASE j = i
      BY <2>2, <2>4, <3>1
    <3>2. CASE j # i
      <4>1. defers'[j] = defers[j] /\ calls'[j] = calls[j]
        BY <2>2, <3>2
      <4> QED BY <4>1
    <3> QED BY <3>1, <3>2
  <2> QED BY <2>3, <2>5
<1>2. ASSUME NEW i \in Instances, Close(i)
      PROVE  LeftInv'
  <2>1. /\ defers' = [defers EXCEPT ![i] = Tail(defers[i])] /\ defers[i] # <<>>
        /\ calls' = calls /\ built' = built
    BY <1>2 DEF Close
  <2>2. ASSUME NEW j \in Instances
        PROVE  Len(defers'[j]) <= Len(Stack(calls[j]))
    <3>1. CASE j = i
      <4>1. Len(Stack(calls[i])) \in Nat
        BY StackType DEF Stacks
      <4>2. Len(defers[i]) <= Len(Stack(calls[i]))
        OBVIOUS
      <4>3. Len(Tail(defers[i])) \in Nat /\ Len(defers[i]) \in Nat
              /\ Len(Tail(defers[i])) < Len(defers[i])
        BY <2>1, TailShortens
      <4>4. defers'[j] = Tail(defers[i])
        BY <2>1, <3>1
      <4> HIDE DEF ProcessInv, ProcessTypes, LeftInv
      <4> QED BY <3>1, <4>1, <4>2, <4>3, <4>4
    <3>2. CASE j # i
      <4>1. defers'[j] = defers[j]
        BY <2>1, <3>2
      <4> QED BY <4>1
    <3> QED BY <3>1, <3>2
  <2> QED BY <2>1, <2>2
<1>3. ASSUME NEW i \in Instances, Exit(i) \/ Kill(i)
      PROVE  LeftInv'
  <2>1. /\ defers' = [defers EXCEPT ![i] = <<>>]
        /\ calls' = [calls EXCEPT ![i] = 0] /\ built' = built
    BY <1>3 DEF Exit, Kill, Ends
  <2>2. Len(<<>>) <= Len(Stack(0))
    BY DEF Stack
  <2>3. ASSUME NEW j \in Instances
        PROVE  Len(defers'[j]) <= Len(Stack(calls'[j]))
    <3>1. CASE j = i
      <4>1. defers'[j] = <<>> /\ calls'[j] = 0
        BY <2>1, <3>1
      <4> QED BY <2>2, <4>1
    <3>2. CASE j # i
      <4>1. defers'[j] = defers[j] /\ calls'[j] = calls[j]
        BY <2>1, <3>2
      <4> QED BY <4>1
    <3> QED BY <3>1, <3>2
  <2> QED BY <2>1, <2>3
<1>4. ASSUME UNCHANGED <<calls, defers, built>>
      PROVE  LeftInv'
  BY <1>4
<1>5. ASSUME NEW i \in Instances,
             \/ CallErrs(i) \/ Launch(i) \/ Listen(i) \/ LoseBroker(i)
             \/ Signal(i) \/ Shutdown(i) \/ Drained(i) \/ DrainTimesOut(i)
      PROVE  UNCHANGED <<calls, defers, built>>
  BY <1>5 DEF CallErrs, Launch, Listen, LoseBroker, Signal, Shutdown, Drained,
              DrainTimesOut
<1>6. (\E q \in Requests : Admit(q) \/ ServeStep(q) \/ Query(q))
        \/ (CoreStep /\ UNCHANGED <<process, built, reply, cut>>)
        \/ UNCHANGED svars
      => UNCHANGED <<calls, defers, built>>
  BY DEF Admit, ServeStep, Query, process, svars
<1> HIDE DEF ProcessInv, ProcessTypes, LeftInv
<1> QED BY <1>1, <1>2, <1>3, <1>4, <1>5, <1>6 DEF ServiceNext, Run

(* Every variable has its type, and a deferred close belongs to a          *)
(* connection that was made: those left, once Run returns, are the first   *)
(* that were made, and until then none is missing (boot.go:45-103).        *)
THEOREM ServiceTypes == ServiceSpec => []ServiceTypeOK
<1>1. ASSUME TypeOK, ProcessInv, LeftInv
      PROVE  ServiceTypeOK
  <2>1. ASSUME NEW i \in Instances
        PROVE  /\ IsSuffix(defers[i], Made[calls[i]])
               /\ phase[i] # "return" => defers[i] = Made[calls[i]]
    <3>1. calls[i] \in 0..14 /\ defers[i] \in Stacks
      BY <1>1 DEF ProcessInv, ProcessTypes
    <3>2. Made[calls[i]] = Stack(calls[i]) /\ Stack(calls[i]) \in Stacks
      BY <3>1, MadeIsStack, StackType
    <3>3. Len(defers[i]) <= Len(Stack(calls[i]))
      BY <1>1 DEF LeftInv
    <3>4. IsSuffix(defers[i], Stack(calls[i]))
      BY <3>1, <3>2, <3>3, StacksNest
    <3>5. phase[i] # "return" => defers[i] = Stack(calls[i])
      BY <1>1 DEF ProcessInv, RunInv
    <3> HIDE DEF Made, Stack, IsSuffix
    <3> QED BY <3>2, <3>4, <3>5
  <2> QED BY <1>1, <2>1, BootLength
          DEF ServiceTypeOK, ProcessInv, ProcessTypes, LeftInv
<1>2. ProcessInv /\ LeftInv /\ [ServiceNext]_svars => LeftInv'
  BY LeftStep
<1>3. ServiceSpec => []LeftInv
  BY <1>2, LeftInit, ProcessInvariant, PTL DEF ServiceSpec
<1> QED BY <1>1, <1>3, ProcessInvariant, ServiceIsCache, PermissionTypes, PTL
=============================================================================
