------------------------ MODULE PipelineTotalsProofs ------------------------
(***************************************************************************)
(* The totals of PipelineTotals, for any number of instances, copies,      *)
(* events and faults.                                                      *)
(*                                                                         *)
(* Every proof rests on what one update does to a sum (UpdateTotal): a sum *)
(* over a set of documents grows by the increment if the document that is  *)
(* changed is one of them, and stays otherwise.  From it:                  *)
(*                                                                         *)
(*   - a ledger of the rows (RowLedger): the sum of a field over any set   *)
(*     of documents is what the updates that were made of each event are   *)
(*     worth to it.  While no marker expires an event makes each of its    *)
(*     updates once at most (AtMostOnceProofs), hence NeverOvercounts, and *)
(*     all of them when nothing fails; and a row exists only with an order *)
(*     in it (BegunInv); hence ExactWhenQuiet;                             *)
(*   - what the handlers at work will add next is in the rows before       *)
(*     (CascadeInv), by the order of the upserts alone, hence Cascade;     *)
(*   - a row begins with an order, and each order taken back is a          *)
(*     cancellation's that made that update (CancelInv), hence             *)
(*     CancelledOnce;                                                      *)
(*   - where no amount is negative no revenue is ever lowered (RisingInv,  *)
(*     RowFloor), which is what a reader of changing rows relies on        *)
(*     (QueryProofs);                                                      *)
(*   - an update of a branch comes right after the like one of its         *)
(*     restaurant, and finds no row where that one found none; likewise    *)
(*     the platform's after a sole branch's (LedInv, WithinInv), hence     *)
(*     BranchesWithinRestaurant.                                           *)
(***************************************************************************)
EXTENDS PipelineTotals, FailureProofs, SumTheorems

-----------------------------------------------------------------------------
(* What one update does to a total *)

Fields == {"orders_count", "revenue_sum", "delivery_ms_sum", "delivery_ms_count",
           "quantity_sold"}

(* The sum of a field over the documents of D that exist. *)
SumIn(rws, field, D) == SumFunctionOnSet(Column(rws, field), DOMAIN rws \cap D)

(* What an increment adds to the sum over D when it is made to d. *)
Added(n, field, d, D) == IF d \in D THEN n[field] ELSE 0

LEMMA CounterFields ==
  ASSUME NEW m \in Counters, NEW n \in Counters, NEW field \in Fields
  PROVE  m[field] \in Int /\ AddCounters(m, n)[field] = m[field] + n[field]
BY DEF Counters, Fields, AddCounters, Inc

(* The update changes one document, or finds none and does nothing; every  *)
(* sum over a set with that document grows by the increment, every other   *)
(* stays.                                                                  *)
LEMMA UpdateTotal ==
  ASSUME NEW rws, IsRows(rws), IsFiniteSet(DOMAIN rws), NEW u \in Update,
         NEW after \in UpdateOne(rws, u)
  PROVE  \/ after = rws /\ ~u.upsert /\ Matches(rws, u) = {}
         \/ \E d \in u.filter :
              /\ DOMAIN after = DOMAIN rws \cup {d}
              /\ d \notin DOMAIN rws => u.upsert /\ Matches(rws, u) = {}
              /\ \A field \in Fields, D \in SUBSET Docs :
                   SumIn(after, field, D)
                     = SumIn(rws, field, D) + Added(u.inc, field, d, D)
<1> DEFINE Old(d, field) == IF d \in DOMAIN rws THEN rws[d].n[field] ELSE 0
<1>1. ASSUME NEW d \in u.filter, NEW row, after = Put(rws, d, row),
             d \notin DOMAIN rws => u.upsert /\ Matches(rws, u) = {},
             \A field \in Fields : row.n[field] = Old(d, field) + u.inc[field]
      PROVE  /\ DOMAIN after = DOMAIN rws \cup {d}
             /\ \A field \in Fields, D \in SUBSET Docs :
                  SumIn(after, field, D)
                    = SumIn(rws, field, D) + Added(u.inc, field, d, D)
  <2>1. /\ DOMAIN after = DOMAIN rws \cup {d}
        /\ after[d] = row /\ \A x \in DOMAIN rws \ {d} : after[x] = rws[x]
    BY <1>1 DEF Put
  <2>2. ASSUME NEW field \in Fields, NEW D \in SUBSET Docs
        PROVE  SumIn(after, field, D) = SumIn(rws, field, D) + Added(u.inc, field, d, D)
    <3> DEFINE f == Column(rws, field)
               g == Column(after, field)
               S == DOMAIN rws \cap D
               T == DOMAIN after \cap D
    <3>1. \A x \in DOMAIN rws : rws[x].n \in Counters /\ rws[x].n[field] \in Int
      BY CounterFields DEF IsRows, Row
    <3>2. u.inc[field] \in Int
      BY CounterFields DEF Update
    <3>3. Old(d, field) \in Int
      BY <3>1
    <3>4. /\ \A x \in DOMAIN rws : f[x] = rws[x].n[field]
          /\ g[d] = Old(d, field) + u.inc[field]
          /\ \A x \in DOMAIN rws \ {d} : g[x] = rws[x].n[field]
      BY <1>1, <2>1 DEF Column
    <3>5. IntOn(f, S) /\ IntOn(g, T)
      BY <2>1, <3>1, <3>2, <3>3, <3>4 DEF IntOn
    <3>6. S \ {d} = T \ {d} /\ IsFiniteSet(S)
      BY <2>1, FS_Subset
    <3>7. Share(g, T, d) = Share(f, S, d) + Added(u.inc, field, d, D)
      BY <2>1, <3>1, <3>2, <3>4 DEF Share, Added
    <3>8. SumFunctionOnSet(g, T) - Share(g, T, d) = SumFunctionOnSet(f, S) - Share(f, S, d)
      <4>1. \A x \in S \ {d} : f[x] = g[x]
        BY <3>4
      <4> HIDE DEF f, g, S, T
      <4> QED BY <3>5, <3>6, <4>1, SumExcept
    <3>9. SumFunctionOnSet(f, S) \in Int /\ SumFunctionOnSet(g, T) \in Int
      BY <3>5, <3>6, <2>1, SumType, FS_AddElement, FS_Subset
    <3>10. Share(f, S, d) \in Int /\ Added(u.inc, field, d, D) \in Int
      BY <3>2, <3>5 DEF Share, IntOn, Added
    <3> HIDE DEF f, g, S, T
    <3>11. SumFunctionOnSet(g, T) = SumFunctionOnSet(f, S) + Added(u.inc, field, d, D)
      BY <3>7, <3>8, <3>9, <3>10
    <3> QED BY <3>11 DEF f, g, S, T, SumIn
  <2> QED BY <2>1, <2>2
<1> HIDE DEF Old
<1>2. CASE Matches(rws, u) # {}
  <2>1. PICK d \in u.filter : d \in DOMAIN rws /\ after = Put(rws, d, IncRow(rws[d], u))
    BY <1>2 DEF UpdateOne, Matches
  <2> DEFINE row == IncRow(rws[d], u)
  <2>2. \A field \in Fields : row.n[field] = Old(d, field) + u.inc[field]
    BY <2>1, CounterFields DEF IncRow, IsRows, Row, Update, Old
  <2>3. after = Put(rws, d, row)
    BY <2>1
  <2> HIDE DEF row
  <2> QED BY <1>1, <2>1, <2>2, <2>3
<1>3. CASE Matches(rws, u) = {} /\ u.upsert
  <2>1. PICK d \in u.filter : after = Put(rws, d, [n |-> u.inc, currency |-> u.currency])
    BY <1>3 DEF UpdateOne
  <2>2. d \notin DOMAIN rws
    BY <1>3 DEF Matches
  <2> DEFINE row == [n |-> u.inc, currency |-> u.currency]
  <2>3. \A field \in Fields : row.n[field] = Old(d, field) + u.inc[field]
    BY <2>2, CounterFields DEF Update, Old
  <2> HIDE DEF row
  <2> QED BY <1>1, <1>3, <2>1, <2>3 DEF row
<1>4. CASE Matches(rws, u) = {} /\ ~u.upsert
  BY <1>4 DEF UpdateOne
<1> QED BY <1>2, <1>3, <1>4

-----------------------------------------------------------------------------
(* Rows, copies and events are finite in number *)

PublishedCopies == {c \in Copies : Published(c)}

FiniteInv == IsFiniteSet(PublishedCopies) /\ IsFiniteSet(DOMAIN rows)

(* Only a handler's update changes rows. *)
LEMMA RowSteps ==
  ASSUME PipelineInv, [Next]_vars
  PROVE  UNCHANGED rows \/ \E i \in Instances : Makes(i)
BY StepKinds DEF LeavesLedger, Claims, Abandons, ExpireMarker

(* The next update of a handler is an update. *)
LEMMA NextUpdate ==
  ASSUME PipelineInv, NEW i \in Instances, pc[i] = "update"
  PROVE  plan[i] \in Seq(Update) /\ plan[i] # <<>> /\ Head(plan[i]) \in Update
BY DEF PipelineInv, TypeOK, LoopInv

(* A step publishes one copy at most. *)
LEMMA PublishesOne ==
  ASSUME PipelineInv, [Next]_vars
  PROVE  \E c : PublishedCopies' \subseteq PublishedCopies \cup {c}
<1> DEFINE Stays == \A d \in Copies : ~Published(d) => ~Published(d)'
<1>1. ASSUME Stays PROVE PublishedCopies' \subseteq PublishedCopies
  BY <1>1 DEF PublishedCopies
<1>2. ASSUME UNCHANGED place \/ \E i \in Instances : place' = Requeued(i)
      PROVE  Stays
  BY <1>2, InstancesAssumption DEF Published, Requeued, BrokerPlaces, PipelineInv, TypeOK
<1>3. ASSUME NEW i \in Instances, Loop(i) PROVE Stays
  <2>1. CASE Ack(i) \/ Nack(i)
    <3>1. PICK outcome : Settle(i, outcome)
      BY <2>1 DEF Ack, Nack
    <3> QED BY <3>1, InstancesAssumption DEF Settle, Published, BrokerPlaces, PipelineInv, TypeOK
  <2>2. CASE ~Ack(i) /\ ~Nack(i)
    <3>1. UNCHANGED place
      BY <1>3, <2>2 DEF Loop, Take, Return, Duplicate, FirstTime, MarkSeenFails, ApplyUpdate,
         SkipItem, UpdateFails, broker
    <3> QED BY <1>2, <3>1
  <2> QED BY <2>1, <2>2
<1>4. ASSUME NEW i \in Instances, Process(i) PROVE Stays
  <2>1. UNCHANGED place \/ place' = Requeued(i)
    BY <1>4 DEF Process, Start, Terminate, CloseBroker, Exit, Kill, Gone, DropConnection, broker
  <2> QED BY <1>2, <2>1
<1>5. ASSUME NEW c \in Copies, NEW i \in Instances, Deliver(c, i) PROVE Stays
  BY <1>5 DEF Deliver, Published, PipelineInv, TypeOK
<1>6. ASSUME Tick \/ (\E e \in EventIds : ExpireMarker(e)) \/ UNCHANGED vars PROVE Stays
  <2>1. UNCHANGED place
    BY <1>6 DEF Tick, ExpireMarker, broker, vars
  <2> QED BY <1>2, <2>1
<1>7. ASSUME NEW c \in Copies, Publish(c)
      PROVE  PublishedCopies' \subseteq PublishedCopies \cup {c}
  BY <1>7 DEF Publish, PublishedCopies, Published, PipelineInv, TypeOK
<1> QED
  <2> HIDE DEF Stays
  <2> QED BY <1>1, <1>3, <1>4, <1>5, <1>6, <1>7 DEF Next

LEMMA FiniteInit == Init => FiniteInv
<1> SUFFICES ASSUME Init PROVE FiniteInv
  OBVIOUS
<1>1. DOMAIN rows = {} /\ PublishedCopies = {}
  BY DEF Init, PublishedCopies, Published
<1> QED BY <1>1, FS_EmptySet DEF FiniteInv

LEMMA FiniteStep ==
  ASSUME PipelineInv, FiniteInv, [Next]_vars
  PROVE  FiniteInv'
<1>1. IsFiniteSet(PublishedCopies')
  <2>1. PICK c : PublishedCopies' \subseteq PublishedCopies \cup {c}
    BY PublishesOne
  <2> QED BY <2>1, FS_AddElement, FS_Subset DEF FiniteInv
<1>2. IsFiniteSet(DOMAIN rows')
  <2>1. CASE UNCHANGED rows
    BY <2>1 DEF FiniteInv
  <2>2. ASSUME NEW i \in Instances, Makes(i) PROVE IsFiniteSet(DOMAIN rows')
    <3>1. PICK u \in Update : rows' \in UpdateOne(rows, u)
      BY <2>2, NextUpdate DEF Makes
    <3>2. rows' = rows \/ \E d : DOMAIN rows' = DOMAIN rows \cup {d}
      <4>1. IsRows(rows) /\ IsFiniteSet(DOMAIN rows)
        BY DEF FiniteInv, PipelineInv, TypeOK
      <4> QED BY <3>1, <4>1, UpdateTotal
    <3> QED BY <3>2, FS_AddElement DEF FiniteInv
  <2> QED BY <2>1, <2>2, RowSteps
<1> QED BY <1>1, <1>2 DEF FiniteInv

(* The events published are messages, finite in number, and only get more. *)
EventsInv ==
  /\ IsFiniteSet(Placed) /\ IsFiniteSet(Cancelled)
  /\ Placed \subseteq Events /\ Cancelled \subseteq Events
  /\ \A m \in Events : m \in Messages /\ Handled(m) /\ m.id \in EventIds

LEMMA EventsAre == PipelineInv /\ FiniteInv => EventsInv
<1> SUFFICES ASSUME PipelineInv, FiniteInv PROVE EventsInv
  OBVIOUS
<1>1. IsFiniteSet({c \in Copies : Published(c) /\ Handled(body[c])})
  BY FS_Subset DEF FiniteInv, PublishedCopies
<1>2. IsFiniteSet(Events)
  BY <1>1, ImageFinite DEF Events
<1>3. \A m \in Events : m \in Messages /\ Handled(m) /\ m.id \in EventIds
  BY MessagesAssumption DEF Events, PipelineInv, BodyInv, Handled, Message
<1> QED BY <1>2, <1>3, FS_Subset DEF Placed, Cancelled, EventsInv

LEMMA EventsGrow == ASSUME BodiesKept PROVE Events \subseteq Events'
BY DEF BodiesKept, Events

-----------------------------------------------------------------------------
(* The updates of an event *)

(* The day an event was first handled on, and the updates it stands for.   *)
ClaimDay(e) == claims[e][1] \div DayLength

UpdatesOf(m) == Handle(m.key, m.payload, ClaimDay(m.id))

(* What was counted was claimed, what was claimed is marked, and what is   *)
(* marked was published.                                                   *)
MarkedInv ==
  \A e \in EventIds :
    /\ effects[e] # 0 => claims[e] # <<>>
    /\ claims[e] # <<>> => seen[e] # NotSeen
    /\ seen[e] # NotSeen => \E c \in PublishedCopies : body[c].id = e

(* A handler still has to make the updates it has not made, in order.      *)
RestInv ==
  \A i \in Instances, m \in Messages : pc[i] = "update" /\ Msg(i) = m =>
    /\ claims[m.id] # <<>>
    /\ \A k \in 1..Len(plan[i]) : plan[i][k] = UpdatesOf(m)[effects[m.id] + k]

LEMMA MarkedInit == Init => MarkedInv /\ RestInv
BY DEF Init, MarkedInv, RestInv

(* The message an instance is at work on. *)
LEMMA AtWork ==
  ASSUME PipelineInv, NEW i \in Instances, pc[i] \in {"markSeen", "update"}
  PROVE  /\ hand[i] \in PublishedCopies /\ body[hand[i]] = Msg(i)
         /\ Msg(i) \in Messages /\ Msg(i).id = Event(i) /\ Event(i) \in EventIds
BY DEF PipelineInv, LoopInv, BodyInv, Busy, Msg, Event, PublishedCopies

(* A marker outlives every step, its copy stays published. *)
LEMMA MarkedStep ==
  ASSUME DedupTTL > Horizon, PipelineInv, LedgerInv, MarkedInv, RestInv, [Next]_vars
  PROVE  MarkedInv'
<1> DEFINE Known(e) == \E c \in PublishedCopies : body[c].id = e
<1>1. /\ seen \in [EventIds -> Nat \cup {NotSeen}] /\ now \in Nat
      /\ effects \in [EventIds -> Nat] /\ claims \in [EventIds -> Seq(Nat)]
  BY DEF PipelineInv, TypeOK
<1>2. ASSUME BodiesKept, NEW e \in EventIds, Known(e) PROVE Known(e)'
  BY <1>2 DEF BodiesKept, PublishedCopies
<1>3. CASE LeavesLedger
  BY <1>2, <1>3 DEF LeavesLedger, MarkedInv
<1>4. ASSUME NEW i \in Instances, Claims(i) PROVE MarkedInv'
  <2>1. PICK e \in EventIds : e = Event(i) /\ Known(e)
    BY <1>4, AtWork DEF Claims
  <2>2. /\ seen' = [seen EXCEPT ![e] = now] /\ UNCHANGED effects /\ BodiesKept
        /\ claims' = claims \/ claims' = [claims EXCEPT ![e] = Append(@, now)]
    BY <1>4, <2>1 DEF Claims, Others
  <2>3. ASSUME NEW f \in EventIds
        PROVE  /\ effects'[f] # 0 => claims'[f] # <<>>
               /\ claims'[f] # <<>> => seen'[f] # NotSeen
               /\ seen'[f] # NotSeen => Known(f)'
    <3>1. CASE f = e
      <4>1. seen'[f] # NotSeen /\ Known(f)'
        <5>1. Known(e)'
          BY <1>2, <2>1, <2>2
        <5> QED BY <1>1, <2>2, <3>1, <5>1 DEF NotSeen
      <4>2. claims[f] # <<>> => claims'[f] # <<>>
        <5>1. claims[f] \in Seq(Nat) /\ now \in Nat
          BY <1>1
        <5>2. Len(Append(claims[f], now)) = Len(claims[f]) + 1 /\ Len(claims[f]) \in Nat
          BY <5>1, LenProperties
        <5>3. Append(claims[f], now) # <<>>
          <6>1. Len(<<>>) = 0 /\ Len(Append(claims[f], now)) # 0
            BY <5>2
          <6> QED BY <6>1, Zenon
        <5> QED BY <1>1, <2>2, <3>1, <5>3
      <4> QED BY <2>2, <4>1, <4>2 DEF MarkedInv
    <3>2. CASE f # e
      <4>1. seen'[f] = seen[f] /\ claims'[f] = claims[f] /\ effects'[f] = effects[f]
        BY <1>1, <2>2, <3>2
      <4> QED BY <1>2, <2>2, <4>1 DEF MarkedInv
    <3> QED BY <3>1, <3>2
  <2> QED BY <2>3 DEF MarkedInv
<1>5. ASSUME NEW i \in Instances, Makes(i) PROVE MarkedInv'
  <2>1. PICK m \in Messages : m = Msg(i) /\ m.id = Event(i) /\ m.id \in EventIds
    BY <1>5, AtWork DEF Makes
  <2>2. /\ effects' = [effects EXCEPT ![m.id] = @ + 1] /\ UNCHANGED <<seen, claims>>
        /\ BodiesKept
    BY <1>5, <2>1 DEF Makes, Others
  <2>3. claims[m.id] # <<>>
    BY <1>5, <2>1 DEF Makes, RestInv
  <2> QED BY <1>1, <1>2, <2>2, <2>3 DEF MarkedInv
<1>6. ASSUME NEW i \in Instances, Abandons(i) PROVE MarkedInv'
  BY <1>2, <1>6 DEF Abandons, Others, MarkedInv
<1> QED BY <1>3, <1>4, <1>5, <1>6, StepKinds, NoExpiry

(* An update made is the first of those that were left. *)
LEMMA RestStep ==
  ASSUME DedupTTL > Horizon, PipelineInv, LedgerInv, MarkedInv, RestInv, [Next]_vars
  PROVE  RestInv'
<1> DEFINE Good(i, m) ==
      /\ claims[m.id] # <<>>
      /\ \A k \in 1..Len(plan[i]) : plan[i][k] = UpdatesOf(m)[effects[m.id] + k]
<1>1. /\ seen \in [EventIds -> Nat \cup {NotSeen}] /\ now \in Nat
      /\ effects \in [EventIds -> Nat] /\ claims \in [EventIds -> Seq(Nat)]
  BY DEF PipelineInv, TypeOK
<1>2. ASSUME BodiesKept, NEW j \in Instances, Kept(j), pc'[j] = "update", NEW m \in Messages,
             Msg(j)' = m, claims'[m.id] = claims[m.id], effects'[m.id] = effects[m.id]
      PROVE  Good(j, m)'
  <2>1. pc[j] = "update" /\ Msg(j) = m /\ plan'[j] = plan[j]
    BY <1>2, KeptEvent DEF Kept
  <2>2. Good(j, m)
    BY <2>1 DEF RestInv
  <2> QED BY <1>2, <2>1, <2>2 DEF UpdatesOf, ClaimDay
<1>3. ASSUME BodiesKept, NEW j \in Instances, Kept(j), pc'[j] = "update", NEW m \in Messages,
             Msg(j)' = m
      PROVE  pc[j] = "update" /\ Event(j) = m.id /\ m.id \in EventIds
  BY <1>3, KeptEvent DEF Kept, Event
<1>4. CASE LeavesLedger \/ \E i \in Instances : Abandons(i)
  BY <1>2, <1>4 DEF LeavesLedger, Abandons, Others, RestInv
<1>5. ASSUME NEW i \in Instances, Claims(i),
             NEW j \in Instances, NEW m \in Messages, pc'[j] = "update", Msg(j)' = m
      PROVE  Good(j, m)'
  <2>1. /\ Event(i) \in EventIds /\ pc[i] = "markSeen" /\ Msg(i)' = Msg(i)
        /\ Msg(i).id = Event(i)
    BY <1>5, OwnEvent, AtWork DEF Claims, Others
  <2>2. PICK e \in EventIds : e = Event(i)
    BY <2>1
  <2>3. /\ seen[e] = NotSeen /\ UNCHANGED effects
        /\ \/ UNCHANGED claims /\ pc'[i] # "update"
           \/ claims' = [claims EXCEPT ![e] = Append(@, now)]
        /\ BodiesKept
    BY <1>5, <2>2 DEF Claims, Others
  <2>4. CASE j # i
    <3>1. /\ Kept(j) /\ pc[j] = "update"
          /\ Event(j) = m.id /\ m.id \in EventIds
      BY <1>3, <1>5, <2>4 DEF Claims, Others
    <3>2. m.id # e
      BY <2>3, <3>1 DEF LedgerInv, HandledIsMarked
    <3>3. claims'[m.id] = claims[m.id] /\ effects'[m.id] = effects[m.id]
      BY <1>1, <2>3, <3>1, <3>2
    <3> QED BY <1>2, <1>5, <2>3, <3>1, <3>3
  <2>5. CASE j = i
    <3>1. m = Msg(i) /\ m.id = e
      BY <1>5, <2>1, <2>2, <2>5
    <3>2. claims[e] = <<>> /\ effects[e] = 0
      BY <2>3 DEF MarkedInv
    <3>3. claims'[e] = <<now>>
      <4>1. claims'[e] = Append(claims[e], now)
        BY <1>1, <1>5, <2>3, <2>5
      <4> QED BY <3>2, <4>1
    <3>4. UpdatesOf(m)' = Handle(m.key, m.payload, Today)
      BY <3>1, <3>3 DEF UpdatesOf, ClaimDay, Today
    <3>5. plan'[i] = Handle(m.key, m.payload, Today)
      BY <1>5, <2>5, <3>1 DEF Claims
    <3>6. effects'[m.id] = 0
      BY <2>3, <3>1, <3>2
    <3>7. \A k \in 1..Len(plan'[i]) : plan'[i][k] = UpdatesOf(m)'[effects'[m.id] + k]
      BY <3>4, <3>5, <3>6
    <3> QED BY <2>5, <3>1, <3>3, <3>7
  <2> QED BY <2>4, <2>5
<1>6. ASSUME NEW i \in Instances, Makes(i),
             NEW j \in Instances, NEW m \in Messages, pc'[j] = "update", Msg(j)' = m
      PROVE  Good(j, m)'
  <2>1. /\ Event(i) \in EventIds /\ pc[i] = "update" /\ Msg(i)' = Msg(i)
        /\ Msg(i).id = Event(i)
    BY <1>6, OwnEvent, AtWork DEF Makes, Others
  <2>2. PICK e \in EventIds : e = Event(i)
    BY <2>1
  <2>3. /\ effects' = [effects EXCEPT ![e] = @ + 1] /\ UNCHANGED claims
        /\ BodiesKept
    BY <1>6, <2>2 DEF Makes, Others
  <2>4. CASE j # i
    <3>1. /\ Kept(j) /\ pc[j] = "update"
          /\ Event(j) = m.id /\ m.id \in EventIds
      BY <1>3, <1>6, <2>4 DEF Makes, Others
    <3>2. m.id # e
      BY <2>1, <2>2, <2>4, <3>1 DEF LedgerInv, OneHandler
    <3>3. claims'[m.id] = claims[m.id] /\ effects'[m.id] = effects[m.id]
      BY <1>1, <2>3, <3>1, <3>2
    <3> QED BY <1>2, <1>6, <2>3, <3>1, <3>3
  <2>5. CASE j = i
    <3>1. m = Msg(i) /\ m.id = e
      BY <1>6, <2>1, <2>2, <2>5
    <3>2. Good(i, m)
      BY <2>1, <3>1 DEF RestInv
    <3>3. plan'[i] = Tail(plan[i]) /\ Len(plan'[i]) = Len(plan[i]) - 1
      BY <1>6, <2>5 DEF Makes
    <3>4. effects'[m.id] = effects[m.id] + 1 /\ effects[m.id] \in Nat
      BY <1>1, <2>3, <3>1
    <3>5. UpdatesOf(m)' = UpdatesOf(m) /\ claims'[m.id] # <<>>
      BY <2>3, <3>2 DEF UpdatesOf, ClaimDay
    <3>6. ASSUME NEW k \in 1..Len(plan'[i])
          PROVE  plan'[i][k] = UpdatesOf(m)[effects'[m.id] + k]
      <4>1. plan[i] \in Seq(Update) /\ plan[i] # <<>> /\ Len(plan[i]) \in Nat
        BY <2>1, NextUpdate, LenProperties
      <4>2. k + 1 \in 1..Len(plan[i]) /\ plan'[i][k] = plan[i][k + 1]
        BY <3>3, <4>1
      <4>3. effects'[m.id] + k = effects[m.id] + (k + 1)
        BY <3>3, <3>4, <4>1
      <4> QED BY <3>2, <4>2, <4>3
    <3> QED BY <2>5, <3>5, <3>6
  <2> QED BY <2>4, <2>5
<1> QED
  <2> HIDE DEF Good
  <2> QED BY <1>4, <1>5, <1>6, StepKinds, NoExpiry DEF RestInv, Good

-----------------------------------------------------------------------------
(* The ledger of rows *)

(* What an update adds to the sum of a field over D, when its filter names *)
(* one document or none.                                                   *)
Gain(u, field, D) == IF u.filter \subseteq D THEN u.inc[field] ELSE 0

Gains(m, field, D) ==
  [k \in 1..Len(UpdatesOf(m)) |-> Gain(UpdatesOf(m)[k], field, D)]

(* What the updates made for m have added. *)
Worth(m, field, D) == SumFunctionOnSet(Gains(m, field, D), 1..effects[m.id])

Worths(field, D) == [m \in Placed |-> Worth(m, field, D)]

(* No event has added more updates than it stands for, *)
EffectsInv ==
  \A m \in Messages : m.id \in EventIds => effects[m.id] <= Steps(m)

(* and every sum over the rows is that of what the events have added. *)
RowLedger ==
  \A field \in Fields, D \in SUBSET Docs :
    SumIn(rows, field, D) = SumFunctionOnSet(Worths(field, D), Placed)

PlacedOnly == \A m \in Messages : Handled(m) => m.key = "order.placed"

(* The updates a placed order stands for. *)
LEMMA PlacedShape ==
  ASSUME NEW in \in Input, NEW today \in Nat
  PROVE  LET h   == Handle("order.placed", in, today)
             day == parseEventDate(in.at, today)
             cur == IF in.currency = NoCurrency THEN DefaultCurrency ELSE in.currency
         IN  /\ Len(h) = 3 + Len(in.items) /\ Len(in.items) \in Nat
             /\ h[1] = RestaurantDayUpsert(in.restaurant, day, cur, in.amount)
             /\ h[2] = BranchDayUpsert(in.branch, day, cur, in.amount)
             /\ h[3] = PlatformDayUpsert(day, cur, in.amount)
             /\ \A k \in 1..Len(in.items) :
                  h[3 + k] = ItemUpdate(in.items[k], in.restaurant, day)
<1>1. Len(in.items) \in Nat
  BY LenProperties DEF Input
<1> QED BY <1>1 DEF Handle, HandleOrderPlaced

(* Each names one document, which it inserts if need be, or is no call. *)
LEMMA PlacedUpdates ==
  ASSUME NEW in \in Input, NEW today \in Nat,
         NEW k \in 1..Len(Handle("order.placed", in, today))
  PROVE  LET u == Handle("order.placed", in, today)[k]
         IN  u = NoCall \/ (u.upsert /\ \E d : u.filter = {d})
<1> DEFINE h   == Handle("order.placed", in, today)
           day == parseEventDate(in.at, today)
           cur == IF in.currency = NoCurrency THEN DefaultCurrency ELSE in.currency
<1>1. /\ Len(h) = 3 + Len(in.items) /\ Len(in.items) \in Nat
      /\ h[1] = RestaurantDayUpsert(in.restaurant, day, cur, in.amount)
      /\ h[2] = BranchDayUpsert(in.branch, day, cur, in.amount)
      /\ h[3] = PlatformDayUpsert(day, cur, in.amount)
      /\ \A j \in 1..Len(in.items) : h[3 + j] = ItemUpdate(in.items[j], in.restaurant, day)
  BY PlacedShape
<1>2. k \in 1..Len(h)
  OBVIOUS
<1> HIDE DEF h, day, cur
<1>3. h[k] = NoCall \/ (h[k].upsert /\ \E d : h[k].filter = {d})
  <2> DEFINE Names(u) == u.upsert /\ \E d : u.filter = {d}
  <2>3. ASSUME NEW doc, NEW inc, NEW c PROVE Names(Upsert(doc, inc, c))
    <3>1. Upsert(doc, inc, c).upsert /\ Upsert(doc, inc, c).filter = {doc}
      BY DEF Upsert
    <3> QED BY <3>1, Zenon
  <2> HIDE DEF Names
  <2>1. CASE k \in 1..3
    <3>1. Names(h[1]) /\ Names(h[2]) /\ Names(h[3])
      BY <1>1, <2>3 DEF RestaurantDayUpsert, BranchDayUpsert, PlatformDayUpsert
    <3>2. Names(h[k])
      BY <2>1, <3>1
    <3> QED BY <3>2 DEF Names
  <2>2. CASE k \notin 1..3
    <3>1. k - 3 \in 1..Len(in.items) /\ k = 3 + (k - 3)
      BY <1>1, <1>2, <2>2
    <3>2. h[k] = ItemUpdate(in.items[k - 3], in.restaurant, day)
      BY <1>1, <3>1
    <3>3. h[k] = NoCall \/ Names(h[k])
      BY <2>3, <3>2 DEF ItemUpdate, ProductDayUpsert
    <3> QED BY <3>3 DEF Names
  <2> QED BY <2>1, <2>2
<1> QED BY <1>3 DEF h

(* Such an update adds its gain. *)
LEMMA UpdateGain ==
  ASSUME NEW rws, IsRows(rws), IsFiniteSet(DOMAIN rws), NEW u \in Update,
         u = NoCall \/ (u.upsert /\ \E d : u.filter = {d}),
         NEW after \in UpdateOne(rws, u), NEW field \in Fields, NEW D \in SUBSET Docs
  PROVE  SumIn(after, field, D) = SumIn(rws, field, D) + Gain(u, field, D)
<1>1. SumIn(rws, field, D) \in Int
  <2>1. IsFiniteSet(DOMAIN rws \cap D)
    BY FS_Subset
  <2>2. IntOn(Column(rws, field), DOMAIN rws \cap D)
    BY CounterFields DEF IntOn, Column, IsRows, Row
  <2> QED BY <2>1, <2>2, SumType DEF SumIn
<1>2. CASE u = NoCall
  <2>1. after = rws
    BY <1>2 DEF UpdateOne, NoCall, Modify, Matches
  <2>2. Gain(u, field, D) = 0
    BY <1>2 DEF Gain, NoCall, Modify, Inc, Fields
  <2> QED BY <1>1, <2>1, <2>2
<1>3. CASE u.upsert /\ \E d : u.filter = {d}
  <2>1. PICK d : u.filter = {d}
    BY <1>3
  <2>2. PICK x \in u.filter :
          \A f \in Fields, E \in SUBSET Docs :
            SumIn(after, f, E) = SumIn(rws, f, E) + Added(u.inc, f, x, E)
    <3>1. \/ after = rws /\ ~u.upsert /\ Matches(rws, u) = {}
          \/ \E x \in u.filter :
               /\ DOMAIN after = DOMAIN rws \cup {x}
               /\ x \notin DOMAIN rws => u.upsert /\ Matches(rws, u) = {}
               /\ \A f \in Fields, E \in SUBSET Docs :
                    SumIn(after, f, E) = SumIn(rws, f, E) + Added(u.inc, f, x, E)
      BY UpdateTotal
    <3> QED BY <1>3, <3>1
  <2>3. SumIn(after, field, D) = SumIn(rws, field, D) + Added(u.inc, field, x, D)
    BY <2>2
  <2> QED BY <2>1, <2>3 DEF Gain, Added
<1> QED BY <1>2, <1>3

(* The updates of an event that was claimed are known. *)
LEMMA UpdatesType ==
  ASSUME PipelineInv, NEW m \in Messages, Handled(m), claims[m.id] # <<>>
  PROVE  /\ m.id \in EventIds /\ m.key \in HandlerFor /\ m.payload \in Input
         /\ ClaimDay(m.id) \in Nat
         /\ UpdatesOf(m) \in Seq(Update) /\ Len(UpdatesOf(m)) = Steps(m)
         /\ Steps(m) \in Nat
<1>1. m.id \in EventIds /\ m.key \in HandlerFor /\ m.payload \in Input
  BY MessagesAssumption DEF Handled, Message
<1>2. claims[m.id] \in Seq(Nat)
  BY <1>1 DEF PipelineInv, TypeOK
<1>3. claims[m.id][1] \in Nat
  <2>1. \A s \in Seq(Nat) : s # <<>> => s[1] \in Nat
    OBVIOUS
  <2> QED BY <1>2, <2>1
<1>4. ClaimDay(m.id) \in Nat
  BY <1>3, BoundsAssumption, DivType DEF ClaimDay
<1>5. UpdatesOf(m) \in Seq(Update) /\ Len(UpdatesOf(m)) = Steps(m)
  BY <1>1, <1>4, HandleType, HandleLength DEF UpdatesOf, Steps
<1>6. Steps(m) \in Nat
  BY <1>5, LenProperties
<1> QED BY <1>1, <1>4, <1>5, <1>6

LEMMA EffectsStep ==
  ASSUME DedupTTL > Horizon, PipelineInv, LedgerInv, EffectsInv, [Next]_vars
  PROVE  EffectsInv'
<1>1. effects \in [EventIds -> Nat]
  BY DEF PipelineInv, TypeOK
<1>2. CASE UNCHANGED effects
  BY <1>2 DEF EffectsInv
<1>3. ASSUME NEW i \in Instances, Makes(i) PROVE EffectsInv'
  <2>1. PICK m \in Messages : m = Msg(i) /\ m.id = Event(i) /\ m.id \in EventIds
    BY <1>3, AtWork DEF Makes
  <2>2. effects[m.id] + Len(plan[i]) = Steps(m)
    BY <1>3, <2>1 DEF Makes, LedgerInv, NothingTwice
  <2>3. Len(plan[i]) \in Nat /\ Len(plan[i]) # 0
    BY <1>3, NextUpdate, EmptySeq DEF Makes
  <2>4. effects' = [effects EXCEPT ![m.id] = @ + 1]
    BY <1>3, <2>1 DEF Makes
  <2>5. effects[m.id] + 1 <= Steps(m)
    BY <1>1, <2>1, <2>2, <2>3
  <2>6. ASSUME NEW n \in Messages, n.id \in EventIds
        PROVE  effects'[n.id] <= Steps(n)
    <3>1. CASE n.id = m.id
      <4>1. n = m
        BY <2>1, <3>1, IdsAssumption
      <4> QED BY <1>1, <2>1, <2>4, <2>5, <4>1
    <3>2. CASE n.id # m.id
      BY <1>1, <2>4, <2>6, <3>2 DEF EffectsInv
    <3> QED BY <3>1, <3>2
  <2> QED BY <2>6 DEF EffectsInv
<1> QED
  BY <1>2, <1>3, StepKinds, NoExpiry DEF LeavesLedger, Claims, Abandons

(* An event that is not published has added nothing. *)
LEMMA NothingAdded ==
  ASSUME PipelineInv, MarkedInv, NEW m \in Messages, Handled(m), effects[m.id] # 0
  PROVE  m \in Events /\ claims[m.id] # <<>>
<1>1. m.id \in EventIds
  BY MessagesAssumption DEF Handled, Message
<1>2. claims[m.id] # <<>>
  BY <1>1 DEF MarkedInv
<1>3. PICK c \in PublishedCopies : body[c].id = m.id
  BY <1>1, <1>2 DEF MarkedInv
<1>4. body[c] = m
  BY <1>1, <1>3, IdsAssumption DEF PublishedCopies, PipelineInv, BodyInv
<1> QED BY <1>2, <1>3, <1>4 DEF Events, PublishedCopies

(* What an event has added is a number, and nothing before its first update.*)
LEMMA WorthType ==
  ASSUME PipelineInv, MarkedInv, EffectsInv, NEW m \in Messages, Handled(m),
         NEW field \in Fields, NEW D
  PROVE  /\ Worth(m, field, D) \in Int
         /\ IntOn(Gains(m, field, D), 1..effects[m.id])
         /\ effects[m.id] = 0 => Worth(m, field, D) = 0
<1>1. m.id \in EventIds /\ effects[m.id] \in Nat
  BY MessagesAssumption DEF Handled, Message, PipelineInv, TypeOK
<1>2. IsFiniteSet(1..effects[m.id])
  BY <1>1, FS_Interval
<1>3. CASE effects[m.id] = 0
  <2>1. 1..effects[m.id] = {}
    BY <1>3
  <2>2. Worth(m, field, D) = SumFunctionOnSet(Gains(m, field, D), {})
    BY <2>1, Zenon DEF Worth
  <2> QED BY <2>1, <2>2, SumEmpty DEF IntOn
<1>4. CASE effects[m.id] # 0
  <2>1. UpdatesOf(m) \in Seq(Update) /\ effects[m.id] <= Len(UpdatesOf(m))
    BY <1>1, <1>4, NothingAdded, UpdatesType DEF EffectsInv
  <2>2. \A u \in Update : Gain(u, field, D) \in Int
    BY CounterFields DEF Gain, Update
  <2>3. IntOn(Gains(m, field, D), 1..effects[m.id])
    <3>1. ASSUME NEW k \in 1..effects[m.id] PROVE Gains(m, field, D)[k] \in Int
      <4>1. k \in 1..Len(UpdatesOf(m)) /\ UpdatesOf(m)[k] \in Update
        BY <1>1, <2>1, LenProperties
      <4> QED BY <2>2, <4>1 DEF Gains
    <3> QED BY <3>1 DEF IntOn
  <2> QED BY <1>2, <1>4, <2>3, SumType DEF Worth
<1> QED BY <1>3, <1>4

(* It stays while the event is left alone. *)
LEMMA WorthKept ==
  ASSUME PipelineInv, MarkedInv, EffectsInv, NEW m \in Messages, Handled(m),
         NEW field \in Fields, NEW D,
         effects'[m.id] = effects[m.id],
         effects[m.id] # 0 => claims'[m.id] = claims[m.id]
  PROVE  Worth(m, field, D)' = Worth(m, field, D)
<1>1. CASE effects[m.id] = 0
  <2>1. Worth(m, field, D) = 0
    BY <1>1, WorthType
  <2>2. 1..effects'[m.id] = {}
    BY <1>1
  <2>3. Worth(m, field, D)' = SumFunctionOnSet(Gains(m, field, D)', {})
    BY <2>2, Zenon DEF Worth
  <2> QED BY <2>1, <2>3, SumEmpty
<1>2. CASE effects[m.id] # 0
  BY <1>2 DEF Worth, Gains, UpdatesOf, ClaimDay
<1> QED BY <1>1, <1>2

(* UpdateGain, for the update that a step makes. *)
LEMMA GainMade ==
  ASSUME PipelineInv, FiniteInv, NEW i \in Instances, Makes(i),
         Head(plan[i]) = NoCall
           \/ (Head(plan[i]).upsert /\ \E d : Head(plan[i]).filter = {d}),
         NEW field \in Fields, NEW D \in SUBSET Docs
  PROVE  SumIn(rows', field, D) = SumIn(rows, field, D) + Gain(Head(plan[i]), field, D)
<1> DEFINE u == Head(plan[i])
           after == rows'
<1>1. /\ IsRows(rows) /\ IsFiniteSet(DOMAIN rows) /\ u \in Update
      /\ after \in UpdateOne(rows, u) /\ (u = NoCall \/ (u.upsert /\ \E d : u.filter = {d}))
  BY NextUpdate DEF PipelineInv, TypeOK, FiniteInv, Makes
<1> HIDE DEF u, after
<1>2. SumIn(after, field, D) = SumIn(rows, field, D) + Gain(u, field, D)
  BY <1>1, UpdateGain
<1> QED BY <1>2 DEF u, after

(* What the events have added stays or grows by the next update of one. *)
LEMMA WorthsStep ==
  ASSUME DedupTTL > Horizon, PipelineInv, FiniteInv, EventsInv, EventsInv', LedgerInv,
         MarkedInv, MarkedInv', RestInv, EffectsInv, [Next]_vars,
         NEW field \in Fields, NEW D \in SUBSET Docs
  PROVE  LET sum  == SumFunctionOnSet(Worths(field, D), Placed)
             sum2 == SumFunctionOnSet(Worths(field, D)', Placed')
         IN  /\ sum \in Int
             /\ \/ UNCHANGED rows /\ sum2 = sum
                \/ \E i \in Instances :
                     /\ Makes(i)
                     /\ \/ Msg(i).key # "order.placed" /\ sum2 = sum
                        \/ /\ Head(plan[i]) = NoCall
                              \/ (Head(plan[i]).upsert /\ \E d : Head(plan[i]).filter = {d})
                           /\ sum2 = sum + Gain(Head(plan[i]), field, D)
<1> DEFINE old == Worths(field, D)
           new == Worths(field, D)'
           sum == SumFunctionOnSet(old, Placed)
           sum2 == SumFunctionOnSet(new, Placed')
           Goal(i) == \/ Msg(i).key # "order.placed" /\ sum2 = sum
                      \/ /\ Head(plan[i]) = NoCall
                            \/ (Head(plan[i]).upsert /\ \E d : Head(plan[i]).filter = {d})
                         /\ sum2 = sum + Gain(Head(plan[i]), field, D)
<1>1. effects \in [EventIds -> Nat]
  BY DEF PipelineInv, TypeOK
<1>2. /\ IsFiniteSet(Placed) /\ IsFiniteSet(Placed')
      /\ \A m \in Placed : m \in Messages /\ Handled(m) /\ m.id \in EventIds
  BY DEF EventsInv
<1>3. \A m \in Placed' : m \in Messages /\ Handled(m) /\ m.id \in EventIds
  BY DEF EventsInv
<1>4. /\ \A m \in Placed : old[m] = Worth(m, field, D) /\ old[m] \in Int
      /\ \A m \in Placed' : new[m] = Worth(m, field, D)'
  BY <1>2, WorthType DEF Worths
<1>5. ASSUME BodiesKept PROVE Placed \subseteq Placed'
  BY <1>5, EventsGrow DEF Placed
<1>6. ASSUME NEW m \in Messages, Handled(m), m \notin Events,
             effects'[m.id] = effects[m.id]
      PROVE  Worth(m, field, D)' = 0
  <2>1. effects[m.id] = 0
    BY <1>6, NothingAdded
  <2>2. Worth(m, field, D)' = Worth(m, field, D)
    BY <1>6, <2>1, WorthKept
  <2> QED BY <1>6, <2>1, <2>2, WorthType
<1>7. ASSUME BodiesKept,
             \A m \in Messages : Handled(m) /\ (m \in Placed \/ m \notin Events) =>
               /\ effects'[m.id] = effects[m.id]
               /\ effects[m.id] # 0 => claims'[m.id] = claims[m.id]
      PROVE  sum2 = sum
  <2>1. \A m \in Placed : old[m] = new[m]
    BY <1>2, <1>4, <1>5, <1>7, WorthKept
  <2>2. \A m \in Placed' \ Placed : new[m] = 0
    <3>1. \A m \in Placed' \ Placed : m \notin Events
      BY DEF Placed
    <3> QED BY <1>3, <1>4, <1>6, <1>7, <3>1
  <2>3. IntOn(old, Placed)
    BY <1>4 DEF IntOn
  <2> HIDE DEF old, new
  <2> QED BY <1>2, <1>5, <1>7, <2>1, <2>2, <2>3, SumWider
<1>8. ASSUME LeavesLedger \/ \E i \in Instances : Abandons(i)
      PROVE  UNCHANGED rows /\ sum2 = sum
  <2>1. UNCHANGED <<rows, effects, claims>> /\ BodiesKept
    BY <1>8 DEF LeavesLedger, Abandons, Others
  <2> HIDE DEF sum, sum2
  <2> QED BY <1>7, <2>1
<1>9. ASSUME NEW i \in Instances, Claims(i)
      PROVE  UNCHANGED rows /\ sum2 = sum
  <2>1. PICK e \in EventIds : e = Event(i) /\ seen[e] = NotSeen
    BY <1>9, AtWork DEF Claims
  <2>2. claims' = claims \/ claims' = [claims EXCEPT ![e] = Append(@, now)]
    BY <1>9, <2>1 DEF Claims
  <2>3. effects[e] = 0
    BY <2>1 DEF MarkedInv
  <2>4. \A f \in EventIds : effects[f] # 0 => claims'[f] = claims[f]
    BY <2>2, <2>3 DEF PipelineInv, TypeOK
  <2>5. UNCHANGED <<rows, effects>> /\ BodiesKept
    BY <1>9 DEF Claims, Others
  <2>6. \A m \in Messages : Handled(m) => m.id \in EventIds
    BY MessagesAssumption DEF Handled, Message
  <2> HIDE DEF sum, sum2
  <2> QED BY <1>7, <2>4, <2>5, <2>6
<1>10. ASSUME NEW i \in Instances, Makes(i), Msg(i).key = "order.placed"
       PROVE  Goal(i)
  <2>1. PICK m \in Messages : m = Msg(i) /\ m.id = Event(i) /\ m.id \in EventIds
    BY <1>10, AtWork DEF Makes
  <2>2. /\ pc[i] = "update" /\ rows' \in UpdateOne(rows, Head(plan[i])) /\ BodiesKept
        /\ effects' = [effects EXCEPT ![m.id] = @ + 1] /\ UNCHANGED claims
    BY <1>10, <2>1 DEF Makes, Others
  <2>3. /\ Handled(m) /\ effects[m.id] + Len(plan[i]) = Steps(m)
        /\ claims[m.id] # <<>>
        /\ \A k \in 1..Len(plan[i]) : plan[i][k] = UpdatesOf(m)[effects[m.id] + k]
    BY <2>1, <2>2 DEF LedgerInv, NothingTwice, RestInv
  <2>4. plan[i] \in Seq(Update) /\ plan[i] # <<>> /\ Len(plan[i]) \in Nat \ {0}
    BY <2>2, NextUpdate, EmptySeq
  <2>5. m.key = "order.placed" /\ m \in Placed
    <3>1. m \in Events
      BY <2>1, <2>2, <2>3, AtWork DEF Events, PublishedCopies
    <3> QED BY <1>10, <2>1, <3>1 DEF Placed
  <2> DEFINE k == effects[m.id] + 1
             u == UpdatesOf(m)[k]
             n == effects[m.id]
  <2>6. /\ n \in Nat /\ n + 1 \in 1..Len(UpdatesOf(m))
        /\ UpdatesOf(m) \in Seq(Update)
    BY <1>1, <2>1, <2>3, <2>4, UpdatesType
  <2>7. u \in Update /\ Head(plan[i]) = u
    BY <2>3, <2>4, <2>6
  <2>8. u = NoCall \/ (u.upsert /\ \E d : u.filter = {d})
    <3> DEFINE day == ClaimDay(m.id)
    <3>1. day \in Nat /\ m.payload \in Input
      BY <2>3, UpdatesType
    <3>2. UpdatesOf(m) = Handle("order.placed", m.payload, day)
      BY <2>5 DEF UpdatesOf
    <3> HIDE DEF day
    <3> QED BY <2>6, <3>1, <3>2, PlacedUpdates
  <2>10. new[m] = old[m] + Gain(u, field, D)
    <3>1. Gains(m, field, D)' = Gains(m, field, D)
      BY <2>2 DEF Gains, UpdatesOf, ClaimDay
    <3>2. effects'[m.id] = n + 1
      BY <1>1, <2>1, <2>2
    <3>3. 1..(n + 1) = 1..n \cup {n + 1} /\ n + 1 \notin 1..n /\ IsFiniteSet(1..n)
      <4>1. n \in Nat
        BY <2>6
      <4> HIDE DEF n
      <4> QED BY <4>1, FS_Interval
    <3>4. IntOn(Gains(m, field, D), 1..n) /\ Worth(m, field, D) \in Int
      BY <2>3, WorthType
    <3>5. Gains(m, field, D)[n + 1] = Gain(u, field, D) /\ Gain(u, field, D) \in Int
      BY <2>6, <2>7, CounterFields DEF Gains, Gain, Update
    <3>6. SumFunctionOnSet(Gains(m, field, D), 1..n \cup {n + 1})
            = SumFunctionOnSet(Gains(m, field, D), 1..n) + Gain(u, field, D)
      <4>1. IntOn(Gains(m, field, D), 1..n \cup {n + 1})
        BY <3>4, <3>5 DEF IntOn
      <4> DEFINE f == Gains(m, field, D)
                 S == 1..n
                 x == n + 1
      <4>2. IsFiniteSet(S) /\ x \notin S /\ IntOn(f, S \cup {x})
        BY <3>3, <4>1
      <4>3. f[x] = Gain(u, field, D)
        BY <3>5
      <4> HIDE DEF f, S, x, u
      <4>4. SumFunctionOnSet(f, S \cup {x}) = SumFunctionOnSet(f, S) + f[x]
        BY <4>2, SumAdd
      <4> QED BY <4>3, <4>4 DEF f, S, x
    <3>7. Worth(m, field, D)' = SumFunctionOnSet(Gains(m, field, D), 1..n \cup {n + 1})
      <4>1. 1..effects'[m.id] = 1..n \cup {n + 1}
        BY <3>2, <3>3
      <4> QED BY <3>1, <4>1, Zenon DEF Worth
    <3>8. m \in Placed'
      BY <1>5, <2>2, <2>5
    <3> QED BY <1>4, <2>5, <3>6, <3>7, <3>8 DEF Worth
  <2>11. \A x \in Placed \ {m} : old[x] = new[x]
    <3>1. ASSUME NEW x \in Placed \ {m} PROVE old[x] = new[x]
      <4>1. x.id # m.id /\ x.id \in EventIds /\ x \in Messages /\ Handled(x) /\ x \in Placed'
        BY <1>2, <1>5, <2>1, <2>2, IdsAssumption
      <4>2. effects'[x.id] = effects[x.id] /\ claims'[x.id] = claims[x.id]
        BY <1>1, <2>2, <4>1
      <4> QED BY <1>4, <4>1, <4>2, WorthKept
    <3> QED BY <3>1
  <2>12. \A x \in Placed' \ Placed : new[x] = 0
    <3>1. ASSUME NEW x \in Placed' \ Placed PROVE new[x] = 0
      <4>1. x.id # m.id /\ x.id \in EventIds /\ x \in Messages /\ Handled(x) /\ x \notin Events
        BY <1>3, <2>1, <2>5, IdsAssumption DEF Placed
      <4>2. effects'[x.id] = effects[x.id]
        BY <1>1, <2>2, <4>1
      <4> QED BY <1>4, <1>6, <4>1, <4>2
    <3> QED BY <3>1
  <2>13. IntOn(old, Placed) /\ IntOn(new, Placed) /\ Gain(u, field, D) \in Int
    <3>1. Gain(u, field, D) \in Int
      BY <2>7, CounterFields DEF Gain, Update
    <3> QED BY <1>4, <2>5, <2>10, <2>11, <3>1 DEF IntOn
  <2>14. SumFunctionOnSet(new, Placed') = SumFunctionOnSet(old, Placed) + new[m] - old[m]
    <3> HIDE DEF old, new
    <3> QED BY <1>2, <1>5, <2>2, <2>5, <2>11, <2>12, <2>13, SumGrows
  <2>15. SumFunctionOnSet(old, Placed) \in Int /\ old[m] \in Int
    <3> HIDE DEF old, new
    <3> QED BY <1>2, <2>5, <2>13, SumType DEF IntOn
  <2> HIDE DEF old, new
  <2>16. sum2 = sum + Gain(u, field, D)
    <3> HIDE DEF u
    <3> QED BY <2>10, <2>13, <2>14, <2>15
  <2> QED BY <2>7, <2>8, <2>16
<1>11. ASSUME NEW i \in Instances, Makes(i), Msg(i).key # "order.placed"
       PROVE  Goal(i)
  <2>1. PICK m \in Messages : m = Msg(i) /\ m.id = Event(i) /\ m.id \in EventIds
    BY <1>11, AtWork DEF Makes
  <2>2. /\ pc[i] = "update" /\ BodiesKept
        /\ effects' = [effects EXCEPT ![m.id] = @ + 1] /\ UNCHANGED claims
    BY <1>11, <2>1 DEF Makes, Others
  <2>3. Handled(m)
    BY <2>1, <2>2 DEF LedgerInv, NothingTwice
  <2>4. m \in Events /\ m \notin Placed
    BY <1>11, <2>1, <2>2, <2>3, AtWork DEF Events, PublishedCopies, Placed
  <2>5. ASSUME NEW x \in Messages, Handled(x), x \in Placed \/ x \notin Events
        PROVE  effects'[x.id] = effects[x.id]
    <3>1. x.id # m.id /\ x.id \in EventIds
      BY <2>1, <2>4, <2>5, IdsAssumption, MessagesAssumption DEF Handled, Message
    <3> QED BY <1>1, <2>2, <3>1
  <2>6. sum2 = sum
    <3> HIDE DEF sum, sum2
    <3> QED BY <1>7, <2>2, <2>5
  <2> QED BY <1>11, <2>6
<1>12. sum \in Int
  <2>1. IntOn(old, Placed)
    BY <1>4 DEF IntOn
  <2> HIDE DEF old
  <2> QED BY <1>2, <2>1, SumType
<1>13. (UNCHANGED rows /\ sum2 = sum) \/ \E i \in Instances : Makes(i) /\ Goal(i)
  <2> HIDE DEF sum, sum2, Goal
  <2> QED BY <1>8, <1>9, <1>10, <1>11, StepKinds, NoExpiry
<1> QED BY <1>12, <1>13

(* The rows are what the events have added, whatever happens. *)
LEMMA RowLedgerStep ==
  ASSUME DedupTTL > Horizon, PlacedOnly, PipelineInv, FiniteInv, EventsInv, EventsInv',
         LedgerInv, MarkedInv, MarkedInv', RestInv, EffectsInv, RowLedger, [Next]_vars
  PROVE  RowLedger'
<1> SUFFICES ASSUME NEW field \in Fields, NEW D \in SUBSET Docs
             PROVE  SumIn(rows', field, D) = SumFunctionOnSet(Worths(field, D)', Placed')
  BY DEF RowLedger
<1> DEFINE sum == SumFunctionOnSet(Worths(field, D), Placed)
           sum2 == SumFunctionOnSet(Worths(field, D)', Placed')
<1>1. SumIn(rows, field, D) = sum
  BY DEF RowLedger
<1>2. \/ UNCHANGED rows /\ sum2 = sum
      \/ \E i \in Instances :
           /\ Makes(i)
           /\ \/ Msg(i).key # "order.placed" /\ sum2 = sum
              \/ /\ Head(plan[i]) = NoCall
                    \/ (Head(plan[i]).upsert /\ \E d : Head(plan[i]).filter = {d})
                 /\ sum2 = sum + Gain(Head(plan[i]), field, D)
  BY WorthsStep
<1> HIDE DEF sum, sum2
<1>3. CASE UNCHANGED rows /\ sum2 = sum
  BY <1>1, <1>3 DEF sum2
<1>4. ASSUME NEW i \in Instances, Makes(i),
             Head(plan[i]) = NoCall
               \/ (Head(plan[i]).upsert /\ \E d : Head(plan[i]).filter = {d}),
             sum2 = sum + Gain(Head(plan[i]), field, D)
      PROVE  SumIn(rows', field, D) = sum2
  <2>1. SumIn(rows', field, D) = SumIn(rows, field, D) + Gain(Head(plan[i]), field, D)
    BY <1>4, GainMade
  <2> QED BY <1>1, <1>4, <2>1
<1>5. \A i \in Instances : Makes(i) => Msg(i).key = "order.placed"
  <2>1. \A i \in Instances : Makes(i) => Msg(i) \in Messages /\ Handled(Msg(i))
    BY AtWork DEF Makes, LedgerInv, NothingTwice
  <2> QED BY <2>1 DEF PlacedOnly
<1> QED BY <1>2, <1>3, <1>4, <1>5 DEF sum2

(* What is known of the events and their updates. *)
CountInv ==
  PipelineInv /\ LedgerInv /\ FiniteInv /\ EventsInv /\ MarkedInv /\ RestInv /\ EffectsInv

LEMMA CountInvHolds ==
  ASSUME DedupTTL > Horizon
  PROVE  Spec => []CountInv
<1> DEFINE Inv == PipelineInv /\ LedgerInv /\ FiniteInv /\ MarkedInv /\ RestInv /\ EffectsInv
<1>1. Init => Inv
  <2>1. Init => EffectsInv
    <3> SUFFICES ASSUME Init, NEW m \in Messages, m.id \in EventIds PROVE 0 <= Steps(m)
      BY DEF Init, EffectsInv
    <3>1. Steps(MessageOf(m.id)) \in Nat /\ MessageOf(m.id) = m
      BY StepsType, MessageOfEvent
    <3> QED BY <3>1
  <2> QED BY <2>1, PipelineInit, LedgerInvInit, FiniteInit, MarkedInit
<1>2. Inv /\ [Next]_vars => Inv'
  BY PipelineStep, LedgerInvStep, FiniteStep, MarkedStep, RestStep, EffectsStep
<1>3. Inv /\ EventsInv => CountInv
  BY DEF CountInv
<1>4. Inv => EventsInv
  BY EventsAre
<1> QED BY <1>1, <1>2, <1>3, <1>4, PTL DEF Spec

LEMMA RowLedgerHolds ==
  ASSUME DedupTTL > Horizon, PlacedOnly
  PROVE  Spec => [](CountInv /\ RowLedger)
<1>1. Init /\ CountInv => RowLedger
  <2> SUFFICES ASSUME Init, CountInv, NEW field \in Fields, NEW D \in SUBSET Docs
               PROVE  SumIn(rows, field, D) = SumFunctionOnSet(Worths(field, D), Placed)
    BY DEF RowLedger
  <2>1. DOMAIN rows \cap D = {} /\ Placed = {}
    BY DEF Init, Placed, Events, Published
  <2>2. SumIn(rows, field, D) = SumFunctionOnSet(Column(rows, field), {})
    BY <2>1, Zenon DEF SumIn
  <2>3. SumFunctionOnSet(Worths(field, D), Placed) = SumFunctionOnSet(Worths(field, D), {})
    BY <2>1, Zenon
  <2> QED BY <2>2, <2>3, SumEmpty
<1>2. RowLedger /\ CountInv /\ CountInv' /\ [Next]_vars => RowLedger'
  BY RowLedgerStep DEF CountInv
<1>3. Spec => []CountInv
  BY CountInvHolds
<1> QED BY <1>1, <1>2, <1>3, PTL DEF Spec

-----------------------------------------------------------------------------
(* What a placed order adds to the rows of a collection *)

RowColls == {"agg_restaurant_day", "agg_branch_day", "agg_platform_day"}

DocsOf(coll) == {d \in Docs : d.coll = coll}

(* Its row in the collection, and which of its updates it is.              *)
DocOf(m, coll) ==
  CASE coll = "agg_restaurant_day" -> RestaurantDoc(m.payload.restaurant, DayOf(m))
    [] coll = "agg_branch_day"     -> BranchDoc(m.payload.branch, DayOf(m))
    [] coll = "agg_platform_day"   -> PlatformDoc(CurrencyOf(m), DayOf(m))

Rank(coll) ==
  CASE coll = "agg_restaurant_day" -> 1
    [] coll = "agg_branch_day"     -> 2
    [] coll = "agg_platform_day"   -> 3

(* A placed order and its updates. *)
LEMMA PlacedOrder ==
  ASSUME CountInv, NEW m \in Placed, effects[m.id] # 0
  PROVE  /\ m \in Messages /\ Handled(m) /\ m.id \in EventIds /\ m.payload \in Input
         /\ DayOf(m) \in Nat /\ CurrencyOf(m) \in Currencies
         /\ Steps(m) = Len(UpdatesOf(m)) /\ Len(UpdatesOf(m)) = 3 + Len(m.payload.items)
         /\ Len(m.payload.items) \in Nat
         /\ effects[m.id] \in Nat /\ effects[m.id] <= Steps(m)
         /\ \A coll \in RowColls :
              \E cur : UpdatesOf(m)[Rank(coll)]
                         = Upsert(DocOf(m, coll), Order(m.payload.amount), cur)
         /\ \A k \in 1..Len(m.payload.items) :
              UpdatesOf(m)[3 + k]
                = ItemUpdate(m.payload.items[k], m.payload.restaurant, DayOf(m))
<1>1. /\ m \in Messages /\ Handled(m) /\ m.id \in EventIds /\ m.key = "order.placed"
  BY DEF CountInv, EventsInv, Placed
<1>2. claims[m.id] # <<>>
  BY <1>1, NothingAdded DEF CountInv
<1>3. /\ m.payload \in Input /\ ClaimDay(m.id) \in Nat
      /\ Len(UpdatesOf(m)) = Steps(m) /\ Steps(m) \in Nat
  BY <1>1, <1>2, UpdatesType DEF CountInv
<1>4. DayOf(m) \in Nat /\ CurrencyOf(m) \in Currencies
  BY <1>3, CurrencyAssumption DEF DayOf, ClaimDay, CurrencyOf, Input, NoDate
<1>5. /\ Len(UpdatesOf(m)) = 3 + Len(m.payload.items) /\ Len(m.payload.items) \in Nat
      /\ UpdatesOf(m)[1] = RestaurantDayUpsert(m.payload.restaurant, DayOf(m), CurrencyOf(m),
                                               m.payload.amount)
      /\ UpdatesOf(m)[2] = BranchDayUpsert(m.payload.branch, DayOf(m), CurrencyOf(m),
                                           m.payload.amount)
      /\ UpdatesOf(m)[3] = PlatformDayUpsert(DayOf(m), CurrencyOf(m), m.payload.amount)
      /\ \A k \in 1..Len(m.payload.items) :
           UpdatesOf(m)[3 + k]
             = ItemUpdate(m.payload.items[k], m.payload.restaurant, DayOf(m))
  <2> DEFINE in == m.payload
             today == ClaimDay(m.id)
  <2>1. in \in Input /\ today \in Nat /\ UpdatesOf(m) = Handle("order.placed", in, today)
    BY <1>1, <1>3 DEF UpdatesOf
  <2>2. /\ DayOf(m) = parseEventDate(in.at, today)
        /\ CurrencyOf(m) = IF in.currency = NoCurrency THEN DefaultCurrency ELSE in.currency
    BY DEF DayOf, ClaimDay, parseEventDate, CurrencyOf
  <2> HIDE DEF in, today
  <2>3. /\ Len(UpdatesOf(m)) = 3 + Len(in.items) /\ Len(in.items) \in Nat
        /\ UpdatesOf(m)[1]
             = RestaurantDayUpsert(in.restaurant, DayOf(m), CurrencyOf(m), in.amount)
        /\ UpdatesOf(m)[2] = BranchDayUpsert(in.branch, DayOf(m), CurrencyOf(m), in.amount)
        /\ UpdatesOf(m)[3] = PlatformDayUpsert(DayOf(m), CurrencyOf(m), in.amount)
        /\ \A k \in 1..Len(in.items) :
             UpdatesOf(m)[3 + k] = ItemUpdate(in.items[k], in.restaurant, DayOf(m))
    BY <2>1, <2>2, PlacedShape
  <2> QED BY <2>3 DEF in
<1>6. \A coll \in RowColls :
        \E cur : UpdatesOf(m)[Rank(coll)]
                   = Upsert(DocOf(m, coll), Order(m.payload.amount), cur)
  <2>1. /\ UpdatesOf(m)[1] = Upsert(RestaurantDoc(m.payload.restaurant, DayOf(m)),
                                    Order(m.payload.amount), CurrencyOf(m))
        /\ UpdatesOf(m)[2] = Upsert(BranchDoc(m.payload.branch, DayOf(m)),
                                    Order(m.payload.amount), CurrencyOf(m))
        /\ UpdatesOf(m)[3] = Upsert(PlatformDoc(CurrencyOf(m), DayOf(m)),
                                    Order(m.payload.amount), CurrencyOf(m))
    BY <1>5 DEF RestaurantDayUpsert, BranchDayUpsert, PlatformDayUpsert
  <2>2. \A coll \in RowColls :
          UpdatesOf(m)[Rank(coll)]
            = Upsert(DocOf(m, coll), Order(m.payload.amount), CurrencyOf(m))
    BY <2>1 DEF RowColls, Rank, DocOf
  <2> QED BY <2>2
<1>7. effects[m.id] \in Nat /\ effects[m.id] <= Steps(m)
  BY <1>1 DEF CountInv, PipelineInv, TypeOK, EffectsInv
<1> QED BY <1>1, <1>3, <1>4, <1>5, <1>6, <1>7

(* To a set of rows of one collection it adds one order and its amount,    *)
(* when its row is one of them, and from the update on that is its turn.   *)
LEMMA PlacedWorth ==
  ASSUME CountInv, NEW m \in Placed, NEW coll \in RowColls, NEW D \in SUBSET DocsOf(coll),
         NEW field \in Fields
  PROVE  Worth(m, field, D) =
           IF effects[m.id] >= Rank(coll) /\ DocOf(m, coll) \in D
             THEN Order(m.payload.amount)[field] ELSE 0
<1>1. m \in Messages /\ Handled(m) /\ effects[m.id] \in Nat
  BY DEF CountInv, EventsInv, Placed, PipelineInv, TypeOK
<1>2. Rank(coll) \in 1..3
  BY DEF RowColls, Rank
<1>3. CASE effects[m.id] = 0
  BY <1>1, <1>2, <1>3, WorthType DEF CountInv
<1>4. CASE effects[m.id] # 0
  <2> DEFINE n == effects[m.id]
             g == Gains(m, field, D)
             r == Rank(coll)
  <2>1. IsFiniteSet(1..n) /\ IntOn(g, 1..n)
    <3>1. IntOn(g, 1..n)
      BY <1>1, WorthType DEF CountInv
    <3>2. n \in Nat
      BY <1>1
    <3> HIDE DEF n, g
    <3> QED BY <3>1, <3>2, FS_Interval
  <2>2. /\ n \in Nat /\ n <= 3 + Len(m.payload.items) /\ Len(m.payload.items) \in Nat
        /\ Len(UpdatesOf(m)) = 3 + Len(m.payload.items)
    BY <1>4, PlacedOrder
  <2>3. \A k \in 1..n : g[k] = Gain(UpdatesOf(m)[k], field, D)
    BY <2>2 DEF Gains
  <2>4. ASSUME NEW d, NEW inc, NEW cur
        PROVE  Gain(Upsert(d, inc, cur), field, D) = IF d \in D THEN inc[field] ELSE 0
    BY DEF Gain, Upsert
  <2>5. ASSUME NEW c \in RowColls
        PROVE  /\ Gain(UpdatesOf(m)[Rank(c)], field, D)
                    = IF DocOf(m, c) \in D THEN Order(m.payload.amount)[field] ELSE 0
               /\ c # coll => DocOf(m, c) \notin D
    <3>1. PICK cur : UpdatesOf(m)[Rank(c)] = Upsert(DocOf(m, c), Order(m.payload.amount), cur)
      BY <1>4, PlacedOrder
    <3>2. DocOf(m, c).coll = c
      BY DEF DocOf, RowColls, RestaurantDoc, BranchDoc, PlatformDoc
    <3> QED BY <2>4, <3>1, <3>2 DEF DocsOf
  <2>6. ASSUME NEW k \in 1..Len(m.payload.items)
        PROVE  Gain(UpdatesOf(m)[3 + k], field, D) = 0
    <3> DEFINE item == m.payload.items[k]
    <3>1. UpdatesOf(m)[3 + k] = ItemUpdate(item, m.payload.restaurant, DayOf(m))
      BY <1>4, PlacedOrder
    <3>2. Gain(NoCall, field, D) = 0
      BY DEF Gain, NoCall, Modify, Inc, Fields
    <3>3. ProductDoc(item.product, m.payload.restaurant, DayOf(m)) \notin D
      BY DEF ProductDoc, DocsOf, RowColls
    <3>4. Gain(ProductDayUpsert(item.product, m.payload.restaurant, DayOf(m), item.quantity),
               field, D) = 0
      BY <2>4, <3>3 DEF ProductDayUpsert
    <3> HIDE DEF item
    <3> QED BY <3>1, <3>2, <3>4 DEF ItemUpdate
  <2>7. ASSUME NEW k \in (1..n) \ {r} PROVE g[k] = 0
    <3>1. CASE k \in 1..3
      <4>1. PICK c \in RowColls : Rank(c) = k
        BY <3>1 DEF RowColls, Rank
      <4>2. c # coll
        BY <2>7, <4>1
      <4> QED BY <2>3, <2>5, <2>7, <4>1, <4>2
    <3>2. CASE k \notin 1..3
      <4>1. k - 3 \in 1..Len(m.payload.items) /\ k = 3 + (k - 3)
        BY <2>2, <2>7, <3>2
      <4> QED BY <2>3, <2>6, <2>7, <4>1
    <3> QED BY <3>1, <3>2
  <2>8. SumFunctionOnSet(g, 1..n) = Share(g, 1..n, r)
    <3>1. \A k \in (1..n) \ {r} : g[k] = 0
      BY <2>7
    <3> HIDE DEF g, n, r
    <3> QED BY <2>1, <3>1, SumSingle
  <2>9. r \in 1..n <=> n >= r
    BY <1>2, <2>2
  <2>10. r \in 1..n => g[r] = IF DocOf(m, coll) \in D THEN Order(m.payload.amount)[field] ELSE 0
    BY <2>3, <2>5
  <2> QED BY <2>8, <2>9, <2>10 DEF Share, Worth
<1> QED BY <1>3, <1>4

(* A total of one collection, as the sum of what the events have added.    *)
LEMMA TotalIsSum ==
  ASSUME RowLedger, NEW coll, NEW S \in SUBSET RowsOf(coll), NEW D \in SUBSET DocsOf(coll),
         S = DOMAIN rows \cap D, NEW field \in Fields
  PROVE  Total(field, S) = SumFunctionOnSet(Worths(field, D), Placed)
<1>1. SumIn(rows, field, D) = SumFunctionOnSet(Worths(field, D), Placed)
  BY DEF RowLedger, DocsOf
<1> QED BY <1>1 DEF Total, SumIn

(* The sum of a function is the sum over its domain. *)
LEMMA SumOfFunction ==
  ASSUME NEW f, NEW S, DOMAIN f = S
  PROVE  SumFunction(f) = SumFunctionOnSet(f, S)
BY Zenon DEF SumFunction

(* Amounts of placed orders are not negative. *)
OrderAmounts ==
  \A m \in Messages : Handled(m) /\ m.key = "order.placed" => m.payload.amount >= 0

LEMMA NeverOvercountsState ==
  ASSUME CountInv, RowLedger, OrderAmounts
  PROVE  NeverOvercounts
<1> SUFFICES ASSUME NEW coll \in RowColls
             PROVE  /\ Total("orders_count", RowsOf(coll)) <= Cardinality(Placed)
                    /\ Total("revenue_sum", RowsOf(coll)) <= Amount(Placed)
  BY DEF NeverOvercounts, RowColls
<1> DEFINE D == DocsOf(coll)
           amounts == [m \in Placed |-> m.payload.amount]
           ones == [m \in Placed |-> 1]
<1>1. \A field \in Fields :
        Total(field, RowsOf(coll)) = SumFunctionOnSet(Worths(field, D), Placed)
  <2>1. RowsOf(coll) = DOMAIN rows \cap D
    BY DEF RowsOf, DocsOf, CountInv, PipelineInv, TypeOK, IsRows
  <2> QED BY <2>1, TotalIsSum
<1>2. IsFiniteSet(Placed)
  BY DEF CountInv, EventsInv
<1>3. ASSUME NEW m \in Placed PROVE m.payload.amount \in Nat
  <2>1. m \in Messages /\ Handled(m) /\ m.key = "order.placed" /\ m.payload \in Input
    BY MessagesAssumption DEF CountInv, EventsInv, Placed, Handled, Message
  <2>2. m.payload.amount \in Int
    BY <2>1 DEF Input
  <2> QED BY <2>1, <2>2 DEF OrderAmounts
<1>4. ASSUME NEW m \in Placed
      PROVE  /\ Worths("orders_count", D)[m] \in Int /\ Worths("orders_count", D)[m] <= ones[m]
             /\ Worths("revenue_sum", D)[m] \in Int
             /\ Worths("revenue_sum", D)[m] <= amounts[m]
  <2>1. /\ Worth(m, "orders_count", D) \in {0, Order(m.payload.amount).orders_count}
        /\ Worth(m, "revenue_sum", D) \in {0, Order(m.payload.amount).revenue_sum}
    BY PlacedWorth DEF Fields
  <2> QED BY <1>3, <2>1 DEF Worths, Order, Inc
<1>5. SumFunctionOnSet(ones, Placed) = Cardinality(Placed)
  BY <1>2, SumOnes
<1>6. SumFunctionOnSet(amounts, Placed) = Amount(Placed)
  BY SumOfFunction DEF Amount
<1>7. /\ SumFunctionOnSet(Worths("orders_count", D), Placed) <= SumFunctionOnSet(ones, Placed)
      /\ SumFunctionOnSet(Worths("revenue_sum", D), Placed) <= SumFunctionOnSet(amounts, Placed)
  <2>1. /\ IntOn(Worths("orders_count", D), Placed) /\ IntOn(ones, Placed)
        /\ IntOn(Worths("revenue_sum", D), Placed) /\ IntOn(amounts, Placed)
    BY <1>3, <1>4 DEF IntOn
  <2> HIDE DEF D, ones, amounts
  <2> QED BY <1>2, <1>4, <2>1, SumMonotonic
<1> QED
  <2>1. "orders_count" \in Fields /\ "revenue_sum" \in Fields
    BY DEF Fields
  <2> HIDE DEF D, ones, amounts
  <2> QED BY <1>1, <1>5, <1>6, <1>7, <2>1

(* Deduplication prevents double-counting: while no marker expires, no     *)
(* collection of rows ever counts more orders, or more revenue, than the   *)
(* placed orders published carry, for any duplicates, redeliveries,        *)
(* failures and restarts, and any number of instances.                     *)
THEOREM NeverOvercountsHolds ==
  ASSUME DedupTTL > Horizon, PlacedOnly, OrderAmounts
  PROVE  Spec => []NeverOvercounts
<1>1. Spec => [](CountInv /\ RowLedger)
  BY RowLedgerHolds
<1>2. CountInv /\ RowLedger => NeverOvercounts
  BY NeverOvercountsState
<1> QED BY <1>1, <1>2, PTL

-----------------------------------------------------------------------------
(* Without faults every event is counted in full *)

(* Without faults only what has no handler to be counted by is nacked.     *)
Hopeless ==
  /\ \A c \in Copies : place[c] = "dead" => ~Handled(body[c])
  /\ \A i \in Instances : pc[i] = "nack" => ~Handled(Msg(i))

DeadInv == quota.mongo <= Quota.mongo /\ (quota = Quota => Hopeless)

LEMMA DeadInit == Init => DeadInv
<1> SUFFICES ASSUME Init PROVE DeadInv
  OBVIOUS
<1>1. quota.mongo <= Quota.mongo
  BY BoundsAssumption DEF Init, FaultKinds
<1>2. Hopeless
  BY DEF Init, Hopeless
<1> QED BY <1>1, <1>2 DEF DeadInv

LEMMA HopelessStep ==
  ASSUME PipelineInv, Held, Hopeless, [Next]_vars, \A kind \in FaultKinds : ~Spend(kind)
  PROVE  Hopeless'
<1> USE DEF PipelineInv, TypeOK
<1>1. ASSUME BodiesKept,
             \A c \in Copies : place'[c] = "dead" => place[c] = "dead",
             \A i \in Instances : pc'[i] = "nack" => pc[i] = "nack" /\ hand'[i] = hand[i]
      PROVE  Hopeless'
  <2>1. ASSUME NEW c \in Copies, place'[c] = "dead" PROVE ~Handled(body'[c])
    BY <1>1, <2>1 DEF BodiesKept, Hopeless, Published
  <2>2. ASSUME NEW i \in Instances, pc'[i] = "nack" PROVE ~Handled(Msg(i)')
    <3>1. pc[i] = "nack" /\ hand'[i] = hand[i] /\ hand[i] \in Copies /\ Published(hand[i])
      BY <1>1, <2>2 DEF LoopInv, Busy
    <3>2. Msg(i)' = Msg(i)
      BY <1>1, <3>1 DEF BodiesKept, Msg
    <3> QED BY <3>1, <3>2 DEF Hopeless
  <2> QED BY <2>1, <2>2 DEF Hopeless
<1>2. ASSUME NEW i \in Instances, pc[i] # "down" PROVE ~CallFails(i)
  BY <1>2 DEF CallFails, Held, FaultKinds
<1>3. ASSUME UNCHANGED broker PROVE BodiesKept
  BY <1>3 DEF broker, BodiesKept, Published
<1>4. ASSUME NEW i \in Instances, Loop(i) PROVE Hopeless'
  <2>1. ~MarkSeenFails(i) /\ ~UpdateFails(i)
    BY <1>2 DEF MarkSeenFails, UpdateFails
  <2>2. CASE Take(i) \/ Return(i) \/ Duplicate(i)
    BY <1>1, <1>3, <2>2 DEF Take, Return, Duplicate, broker
  <2>3. CASE ApplyUpdate(i) \/ SkipItem(i)
    BY <1>1, <1>3, <2>3 DEF ApplyUpdate, SkipItem, Advance, broker
  <2>4. CASE FirstTime(i)
    <3>1. /\ UNCHANGED <<broker, hand>>
          /\ pc'[i] = "nack" => Msg(i).payload = Malformed
          /\ \A j \in Instances \ {i} : pc'[j] = pc[j]
      BY <2>4 DEF FirstTime
    <3>2. UNCHANGED <<place, body, hand>> /\ \A j \in Instances : Msg(j)' = Msg(j)
      BY <3>1 DEF broker, Msg
    <3> QED BY <3>1, <3>2 DEF Hopeless, Handled
  <2>5. CASE Ack(i) \/ Nack(i)
    <3>1. PICK outcome \in {"acked", "dead"} :
            Settle(i, outcome) /\ (outcome = "dead" => pc[i] = "nack")
      BY <2>5 DEF Ack, Nack
    <3>2. hand[i] \in Copies
      BY <2>5 DEF Ack, Nack, LoopInv, Busy
    <3>3. UNCHANGED body /\ \A j \in Instances : pc'[j] = "nack" => pc[j] = "nack" /\ hand'[j] = hand[j]
      BY <3>1 DEF Settle
    <3>4. ASSUME NEW c \in Copies, place'[c] = "dead" PROVE ~Handled(body[c])
      <4>1. place[c] = "dead" \/ (c = hand[i] /\ outcome = "dead")
        BY <3>1, <3>2, <3>4 DEF Settle
      <4> QED BY <3>1, <4>1 DEF Hopeless, Msg
    <3>5. \A j \in Instances : pc'[j] = "nack" => Msg(j)' = Msg(j)
      BY <3>3 DEF Msg
    <3> QED BY <3>3, <3>4, <3>5 DEF Hopeless
  <2> QED BY <1>4, <2>1, <2>2, <2>3, <2>4, <2>5 DEF Loop
<1>5. ASSUME NEW i \in Instances, Process(i) PROVE Hopeless'
  <2>1. ~Terminate(i) /\ ~Kill(i) /\ ~DropConnection(i)
    BY DEF Terminate, Kill, DropConnection, FaultKinds
  <2>2. ~CloseBroker(i) /\ ~Exit(i)
    BY DEF CloseBroker, Exit, Held
  <2>3. Start(i)
    BY <1>5, <2>1, <2>2 DEF Process
  <2> QED BY <1>1, <1>3, <2>3 DEF Start, broker
<1>6. ASSUME NEW c \in Copies, Publish(c) PROVE Hopeless'
  <2>1. BodiesKept
    BY <1>6 DEF Publish, BodiesKept, Published
  <2> QED BY <1>1, <1>6, <2>1 DEF Publish, loop
<1>7. ASSUME NEW c \in Copies, NEW i \in Instances, Deliver(c, i) PROVE Hopeless'
  <2>1. BodiesKept
    BY <1>7, PublishedStays DEF Deliver, BodiesKept
  <2> QED BY <1>1, <1>7, <2>1, InstancesAssumption DEF Deliver, loop, BrokerPlaces
<1>8. ASSUME Tick \/ (\E e \in EventIds : ExpireMarker(e)) \/ UNCHANGED vars PROVE Hopeless'
  <2>1. UNCHANGED <<place, body, pc, hand>>
    BY <1>8 DEF Tick, ExpireMarker, broker, loop, vars
  <2> QED BY <1>1, <1>3, <2>1 DEF broker
<1> QED BY <1>4, <1>5, <1>6, <1>7, <1>8 DEF Next

LEMMA DeadStep ==
  ASSUME PipelineInv, KeepInv, DeadInv, [Next]_vars
  PROVE  DeadInv'
<1>1. quota \in [FaultKinds -> Nat] /\ Quota \in [FaultKinds -> Nat]
  BY BoundsAssumption DEF PipelineInv, TypeOK
<1>2. \A kind \in FaultKinds : quota[kind] <= Quota[kind]
  BY DEF KeepInv, QuotaInv, DeadInv, FaultKinds
<1>3. UNCHANGED quota \/ \E kind \in FaultKinds : Spend(kind)
  BY OneFault
<1>4. quota'.mongo <= Quota.mongo
  <2>1. "mongo" \in FaultKinds
    BY DEF FaultKinds
  <2>2. ASSUME NEW kind \in FaultKinds, Spend(kind) PROVE quota'.mongo <= Quota.mongo
    BY <1>1, <1>2, <2>1, <2>2 DEF Spend
  <2> QED BY <1>2, <1>3, <2>1, <2>2
<1>5. ASSUME quota' = Quota PROVE Hopeless'
  <2>1. \A kind \in FaultKinds : ~Spend(kind)
    BY <1>1, <1>2, <1>5 DEF Spend
  <2>2. quota = Quota
    BY <1>3, <1>5, <2>1
  <2>3. Held /\ Hopeless
    BY <2>2 DEF KeepInv, Calm, DeadInv
  <2> QED BY <2>1, <2>3, HopelessStep
<1> QED BY <1>4, <1>5 DEF DeadInv

(* As long as nothing has failed, a placed order all of whose copies are   *)
(* acked has made all its updates.                                         *)
LEMMA AckedIsCounted ==
  ASSUME CountInv, KeepInv, DeadInv, quota = Quota, NEW m \in Placed,
         \A c \in CopiesOf(m.id) : place[c] = "acked"
  PROVE  effects[m.id] = Steps(m) /\ effects[m.id] # 0
<1>1. /\ m \in Messages /\ Handled(m) /\ m.id \in EventIds
      /\ m.payload \in Input /\ m.key \in HandlerFor
  BY MessagesAssumption DEF CountInv, EventsInv, Placed, Handled, Message
<1>2. PICK e \in EventIds : e = m.id
  BY <1>1
<1>3. Held /\ SavedInv
  BY DEF KeepInv, Calm
<1>4. CopiesOf(e) # {}
  BY <1>2 DEF Placed, Events, CopiesOf
<1>5. ~LostSilently(e)
  BY <1>3, SavedIsKept DEF CountInv
<1>6. effects[e] >= Steps(MessageOf(e)) /\ MessageOf(e) = m
  BY <1>1, <1>2, <1>4, <1>5, MessageOfEvent DEF LostSilently, Counted
<1>7. effects[e] <= Steps(m) /\ effects[e] \in Nat
  BY <1>1, <1>2 DEF CountInv, EffectsInv, PipelineInv, TypeOK
<1>8. Steps(m) \in Nat \ {0}
  <2>1. Handle(m.key, m.payload, 0) \in Seq(Update) /\ Handle(m.key, m.payload, 0) # <<>>
    BY <1>1, HandleType
  <2> QED BY <1>1, <2>1, EmptySeq DEF Steps
<1> QED BY <1>2, <1>6, <1>7, <1>8

(* When it is quiet, every placed order has. *)
LEMMA QuietIsCounted ==
  ASSUME CountInv, KeepInv, DeadInv, QuietAndFaultless, NEW m \in Placed
  PROVE  effects[m.id] = Steps(m) /\ effects[m.id] # 0
<1>1. m \in Messages /\ Handled(m) /\ m.id \in EventIds /\ quota = Quota /\ Hopeless
  BY DEF CountInv, EventsInv, Placed, QuietAndFaultless, DeadInv
<1>2. \A c \in CopiesOf(m.id) : body[c] = m
  BY <1>1, IdsAssumption DEF CopiesOf, CountInv, PipelineInv, BodyInv
<1>3. \A c \in CopiesOf(m.id) : place[c] = "acked"
  BY <1>1, <1>2 DEF CopiesOf, QuietAndFaultless, Published, Hopeless
<1> QED BY <1>1, <1>3, AckedIsCounted

LEMMA DeadInvHolds ==
  ASSUME DedupTTL > Horizon
  PROVE  Spec => [](CountInv /\ KeepInv /\ DeadInv)
<1>1. Spec => [](PipelineInv /\ KeepInv)
  BY KeepInvHolds
<1>2. Spec => []CountInv
  BY CountInvHolds
<1>3. DeadInv /\ PipelineInv /\ KeepInv /\ [Next]_vars => DeadInv'
  BY DeadStep
<1> QED BY <1>1, <1>2, <1>3, DeadInit, PTL DEF Spec

(* Then it has added what it carries to the row it belongs to. *)
LEMMA CountedWorth ==
  ASSUME CountInv, NEW m \in Placed, effects[m.id] = Steps(m), effects[m.id] # 0,
         NEW coll \in RowColls, NEW D \in SUBSET DocsOf(coll), NEW field \in Fields
  PROVE  /\ DocOf(m, coll) \in DocsOf(coll)
         /\ Worth(m, field, D)
              = IF DocOf(m, coll) \in D THEN Order(m.payload.amount)[field] ELSE 0
<1>1. /\ effects[m.id] = 3 + Len(m.payload.items) /\ Len(m.payload.items) \in Nat
      /\ m.payload \in Input /\ DayOf(m) \in Nat /\ CurrencyOf(m) \in Currencies
  BY PlacedOrder
<1>2. effects[m.id] >= Rank(coll)
  BY <1>1 DEF RowColls, Rank
<1>3. DocOf(m, coll) \in DocsOf(coll)
  BY <1>1 DEF RowColls, DocOf, DocsOf, Docs, RestaurantDoc, BranchDoc, PlatformDoc, Input
<1> QED BY <1>2, <1>3, PlacedWorth

LEMMA FullWorth ==
  ASSUME CountInv, KeepInv, DeadInv, QuietAndFaultless, NEW m \in Placed,
         NEW coll \in RowColls, NEW D \in SUBSET DocsOf(coll), NEW field \in Fields
  PROVE  /\ DocOf(m, coll) \in DocsOf(coll)
         /\ Worth(m, field, D)
              = IF DocOf(m, coll) \in D THEN Order(m.payload.amount)[field] ELSE 0
BY QuietIsCounted, CountedWorth

(* A row has of every field what the events have added to it, and where    *)
(* there is none they have added nothing.                                  *)
LEMMA RowIsSum ==
  ASSUME CountInv, RowLedger, NEW d \in Docs, NEW field \in Fields
  PROVE  SumFunctionOnSet(Worths(field, {d}), Placed)
           = IF d \in DOMAIN rows THEN rows[d].n[field] ELSE 0
<1> DEFINE f == Column(rows, field)
           sum == SumFunctionOnSet(Worths(field, {d}), Placed)
<1>1. SumIn(rows, field, {d}) = sum
  BY DEF RowLedger
<1> HIDE DEF sum
<1>2. CASE d \in DOMAIN rows
  <2>1. rows[d].n[field] \in Int /\ f[d] = rows[d].n[field]
    BY <1>2, CounterFields DEF IsRows, Row, CountInv, PipelineInv, TypeOK, Column
  <2>2. DOMAIN rows \cap {d} = {d}
    BY <1>2
  <2>3. SumIn(rows, field, {d}) = SumFunctionOnSet(f, {d})
    BY <2>2, Zenon DEF SumIn
  <2>4. IntOn(f, {d}) /\ IsFiniteSet({d}) /\ \A y \in {d} \ {d} : f[y] = 0
    BY <2>1, FS_Singleton DEF IntOn
  <2> HIDE DEF f
  <2>5. SumFunctionOnSet(f, {d}) = Share(f, {d}, d)
    BY <2>4, SumSingle
  <2> QED BY <1>1, <1>2, <2>1, <2>3, <2>5 DEF Share, sum
<1>3. CASE d \notin DOMAIN rows
  <2>1. DOMAIN rows \cap {d} = {}
    BY <1>3
  <2>2. SumIn(rows, field, {d}) = SumFunctionOnSet(f, {})
    BY <2>1, Zenon DEF SumIn
  <2> QED BY <1>1, <1>3, <2>2, SumEmpty DEF sum
<1> QED BY <1>2, <1>3

(* What has been added to a row of orders is the orders that count there. *)
LEMMA RowOfOrders ==
  ASSUME CountInv, KeepInv, DeadInv, QuietAndFaultless,
         NEW d \in Docs, d.coll \in RowColls, NEW field \in Fields
  PROVE  SumFunctionOnSet(Worths(field, {d}), Placed)
           = Inc(Cardinality(OrdersIn(d)), Amount(OrdersIn(d)), 0, 0, 0)[field]
<1> DEFINE mine == OrdersIn(d)
           part == [m \in mine |-> Order(m.payload.amount)[field]]
           amounts == [m \in mine |-> m.payload.amount]
           worths == Worths(field, {d})
<1>1. IsFiniteSet(Placed) /\ IsFiniteSet(mine) /\ mine \subseteq Placed
  BY FS_Subset DEF CountInv, EventsInv, OrdersIn
<1>2. ASSUME NEW m \in Placed
      PROVE  /\ worths[m] = IF m \in mine THEN Order(m.payload.amount)[field] ELSE 0
             /\ m.payload.amount \in Int
  <2>1. m.payload.amount \in Int
    BY MessagesAssumption DEF CountInv, EventsInv, Placed, Handled, Message, Input
  <2>2. {d} \in SUBSET DocsOf(d.coll)
    BY DEF DocsOf
  <2>3. Worth(m, field, {d})
          = IF DocOf(m, d.coll) \in {d} THEN Order(m.payload.amount)[field] ELSE 0
    BY <2>2, FullWorth
  <2>4. DocOf(m, d.coll) = d <=> m \in mine
    BY DEF OrdersIn, OrderRows, DocOf, RowColls, RestaurantDoc, BranchDoc, PlatformDoc
  <2> QED BY <2>1, <2>3, <2>4 DEF Worths
<1>3. \A m \in mine : /\ Order(m.payload.amount)[field] \in Int
                      /\ part[m] = Order(m.payload.amount)[field]
  <2>1. ASSUME NEW a \in Int PROVE Order(a)[field] \in Int
    BY DEF Order, Inc, Fields
  <2>2. \A m \in mine : part[m] = Order(m.payload.amount)[field]
    OBVIOUS
  <2> HIDE DEF mine, part
  <2> QED BY <1>1, <1>2, <2>1, <2>2
<1>4. SumFunctionOnSet(worths, Placed) = SumFunctionOnSet(part, mine)
  <2>1. /\ IntOn(part, mine)
        /\ \A m \in mine : part[m] = worths[m]
        /\ \A m \in Placed \ mine : worths[m] = 0
    BY <1>1, <1>2, <1>3 DEF IntOn
  <2> HIDE DEF mine, part, worths
  <2> QED BY <1>1, <2>1, SumWider
<1>5. CASE field = "orders_count"
  <2>1. \A m \in mine : part[m] = 1
    BY <1>3, <1>5 DEF Order, Inc
  <2>2. SumFunctionOnSet(part, mine) = Cardinality(mine)
    <3> HIDE DEF part, mine
    <3> QED BY <1>1, <2>1, SumOnes
  <2> QED BY <1>4, <1>5, <2>2 DEF Inc
<1>6. CASE field = "revenue_sum"
  <2>1. part = amounts
    BY <1>6 DEF Order, Inc
  <2>2. SumFunctionOnSet(amounts, mine) = Amount(mine)
    BY SumOfFunction DEF Amount
  <2> QED BY <1>4, <1>6, <2>1, <2>2 DEF Inc
<1>7. CASE field \notin {"orders_count", "revenue_sum"}
  <2>1. \A m \in mine : part[m] = 0
    <3>1. ASSUME NEW a \in Int PROVE Order(a)[field] = 0
      BY <1>7 DEF Order, Inc, Fields
    <3> HIDE DEF mine, part
    <3> QED BY <1>1, <1>2, <1>3, <3>1
  <2>2. SumFunctionOnSet(part, mine) = 0
    <3> HIDE DEF part, mine
    <3> QED BY <1>1, <2>1, SumOfZeros
  <2> QED BY <1>4, <1>7, <2>2 DEF Inc, Fields
<1> QED BY <1>5, <1>6, <1>7

(* To a product's row an order adds what its items that belong there say. *)
LEMMA SaleWorth ==
  ASSUME CountInv, KeepInv, DeadInv, QuietAndFaultless, NEW m \in Placed,
         NEW d \in Docs, d.coll = "agg_product_day", NEW field \in Fields
  PROVE  LET sold == [k \in SalesIn(m, d) |-> Sale(m.payload.items[k].quantity)[field]]
         IN  /\ IsFiniteSet(SalesIn(m, d)) /\ IntOn(sold, SalesIn(m, d))
             /\ Worth(m, field, {d}) = SumFunctionOnSet(sold, SalesIn(m, d))
<1> DEFINE L == Len(m.payload.items)
           items == m.payload.items
           n == effects[m.id]
           g == Gains(m, field, {d})
           mine == SalesIn(m, d)
           f == [k \in mine |-> Sale(items[k].quantity)[field]]
           h == [k \in mine |-> 3 + k]
<1>1. effects[m.id] = Steps(m) /\ effects[m.id] # 0
  BY QuietIsCounted
<1>2. /\ m \in Messages /\ Handled(m) /\ m.payload \in Input /\ L \in Nat /\ n = 3 + L
      /\ Len(UpdatesOf(m)) = n
  BY <1>1, PlacedOrder
<1>3. items \in Seq(Item)
  BY <1>2 DEF Input
<1>4. \A k \in 1..L : items[k].product \in Int /\ items[k].quantity \in Int
  <2>1. \A k \in 1..L : items[k] \in Item
    <3>1. \A s \in Seq(Item) : \A k \in 1..Len(s) : s[k] \in Item
      OBVIOUS
    <3> QED BY <1>3, <3>1
  <2> QED BY <2>1, ProductAssumption DEF Item
<1>5. /\ \A k \in mine : /\ k \in 1..L /\ k \in Int /\ f[k] = Sale(items[k].quantity)[field]
                         /\ f[k] \in Int
      /\ mine \in SUBSET (1..L)
  <2>1. DOMAIN items = 1..L
    BY <1>3
  <2>2. \A k \in mine : k \in 1..L
    BY <2>1 DEF SalesIn, Sales
  <2>3. \A k \in mine : f[k] = Sale(items[k].quantity)[field]
    OBVIOUS
  <2> HIDE DEF mine, L, items, f
  <2> QED BY <1>2, <1>4, <2>2, <2>3 DEF Sale, Inc, Fields
<1>6. \A k \in 1..n : g[k] = Gain(UpdatesOf(m)[k], field, {d})
  BY <1>2 DEF Gains
<1>7. ASSUME NEW k \in 1..3 PROVE g[k] = 0
  <2>1. PICK c \in RowColls : Rank(c) = k
    BY <1>7 DEF RowColls, Rank
  <2>2. PICK cur : UpdatesOf(m)[k] = Upsert(DocOf(m, c), Order(m.payload.amount), cur)
    BY <1>1, <2>1, PlacedOrder
  <2>3. DocOf(m, c) # d
    BY DEF DocOf, RowColls, RestaurantDoc, BranchDoc, PlatformDoc
  <2>4. ASSUME NEW doc, NEW inc, doc # d PROVE Gain(Upsert(doc, inc, cur), field, {d}) = 0
    BY <2>4 DEF Gain, Upsert
  <2>5. Gain(UpdatesOf(m)[k], field, {d}) = 0
    <3> HIDE DEF L, items, n, g, mine, f, h
    <3> QED BY <2>2, <2>3, <2>4
  <2>6. k \in 1..n
    BY <1>2
  <2> HIDE DEF L, items, n, g, mine, f, h
  <2> QED BY <1>6, <2>5, <2>6
<1>8. ASSUME NEW k \in 1..L
      PROVE  g[3 + k] = IF k \in mine THEN f[k] ELSE 0
  <2> DEFINE item == items[k]
             doc == ProductDoc(item.product, m.payload.restaurant, DayOf(m))
             sale == Sale(item.quantity)[field]
  <2>1. UpdatesOf(m)[3 + k] = ItemUpdate(item, m.payload.restaurant, DayOf(m))
    BY <1>1, PlacedOrder
  <2>2. 3 + k \in 1..n
    BY <1>2
  <2>3. k \in mine <=> doc = d /\ ~(item.product <= 0 \/ item.quantity <= 0)
    <3>1. k \in DOMAIN items
      BY <1>3
    <3> QED BY <1>4, <3>1 DEF SalesIn, Sales, SaleRow
  <2>4. Gain(NoCall, field, {d}) = 0
    BY DEF Gain, NoCall, Modify, Inc, Fields
  <2>5. Gain(ProductDayUpsert(item.product, m.payload.restaurant, DayOf(m), item.quantity),
             field, {d})
          = IF doc = d THEN sale ELSE 0
    BY DEF ProductDayUpsert, Gain, Upsert
  <2>6. k \in mine => f[k] = sale
    BY <1>5
  <2>7. Gain(UpdatesOf(m)[3 + k], field, {d}) = IF k \in mine THEN sale ELSE 0
    <3> HIDE DEF item, doc, mine, sale
    <3> QED BY <2>1, <2>3, <2>4, <2>5 DEF ItemUpdate
  <2> HIDE DEF f, sale, mine
  <2> QED BY <1>6, <2>2, <2>6, <2>7
<1>9. IsFiniteSet(1..n) /\ IsFiniteSet(mine) /\ IntOn(g, 1..n)
  <2>1. L \in Nat /\ n \in Nat
    BY <1>2
  <2>2. IntOn(g, 1..n)
    BY <1>2, WorthType DEF CountInv
  <2>3. mine \in SUBSET (1..L)
    BY <1>5
  <2> HIDE DEF L, n, mine, g
  <2>4. IsFiniteSet(1..n) /\ IsFiniteSet(1..L)
    BY <2>1, FS_Interval
  <2>5. IsFiniteSet(mine)
    BY <2>3, <2>4, FS_Subset
  <2> QED BY <2>2, <2>4, <2>5
<1> HIDE DEF L, n, items, mine, g, f
<1>10. DOMAIN h = mine /\ \A k \in mine : h[k] = 3 + k
  OBVIOUS
<1>11. {h[k] : k \in mine} \in SUBSET (1..n)
  <2>1. \A k \in mine : h[k] \in 1..n
    BY <1>2, <1>5, <1>10
  <2> QED BY <2>1
<1>12. ASSUME NEW j \in (1..n) \ {h[k] : k \in mine} PROVE g[j] = 0
  <2>1. CASE j \in 1..3
    BY <1>7, <2>1
  <2>2. CASE j \notin 1..3
    <3>1. j - 3 \in 1..L /\ j = 3 + (j - 3)
      BY <1>2, <1>12, <2>2
    <3>2. j - 3 \notin mine
      BY <1>10, <1>12, <3>1
    <3>3. g[3 + (j - 3)] = 0
      BY <1>8, <3>1, <3>2
    <3> QED BY <3>1, <3>3
  <2> QED BY <2>1, <2>2
<1>13. /\ \A k \in mine : g[h[k]] = f[k]
       /\ \A j, k \in mine : h[j] = h[k] => j = k
       /\ IntOn(f, mine)
  BY <1>5, <1>8, <1>10 DEF IntOn
<1> HIDE DEF h
<1>14. SumFunctionOnSet(g, 1..n) = SumFunctionOnSet(g, {h[k] : k \in mine})
  BY <1>9, <1>11, <1>12, SumZeros
<1>15. SumFunctionOnSet(g, {h[k] : k \in mine}) = SumFunctionOnSet(f, mine)
  BY <1>9, <1>13, SumRenamed
<1> QED BY <1>9, <1>13, <1>14, <1>15 DEF Worth, g, n, f, mine, items

(* Field by field: how many these items are and how much was bought. *)
LEMMA SaleFields ==
  ASSUME CountInv, KeepInv, DeadInv, QuietAndFaultless, NEW m \in Placed,
         NEW d \in Docs, d.coll = "agg_product_day", NEW field \in Fields
  PROVE  /\ IsFiniteSet(SalesIn(m, d))
         /\ Worth(m, field, {d}) \in Int
         /\ Worth(m, field, {d}) = Inc(Cardinality(SalesIn(m, d)), 0, 0, 0, Bought(m, d))[field]
<1> DEFINE mine == SalesIn(m, d)
           f == [k \in mine |-> Sale(m.payload.items[k].quantity)[field]]
           bought == [k \in mine |-> m.payload.items[k].quantity]
<1>1. IsFiniteSet(mine) /\ IntOn(f, mine) /\ Worth(m, field, {d}) = SumFunctionOnSet(f, mine)
  BY SaleWorth
<1>2. SumFunctionOnSet(f, mine) \in Int
  <2> HIDE DEF f, mine
  <2> QED BY <1>1, SumType
<1>3. CASE field = "orders_count"
  <2>1. \A k \in mine : f[k] = 1
    BY <1>3 DEF Sale, Inc
  <2>2. SumFunctionOnSet(f, mine) = Cardinality(mine)
    <3> HIDE DEF f, mine
    <3> QED BY <1>1, <2>1, SumOnes
  <2> QED BY <1>1, <1>2, <1>3, <2>2 DEF Inc
<1>4. CASE field = "quantity_sold"
  <2>1. f = bought
    BY <1>4 DEF Sale, Inc
  <2>2. Bought(m, d) = SumFunctionOnSet(bought, mine)
    BY SumOfFunction DEF Bought
  <2> QED BY <1>1, <1>2, <1>4, <2>1, <2>2 DEF Inc
<1>5. CASE field \notin {"orders_count", "quantity_sold"}
  <2>1. \A k \in mine : f[k] = 0
    BY <1>5 DEF Sale, Inc, Fields
  <2>2. SumFunctionOnSet(f, mine) = 0
    <3> HIDE DEF f, mine
    <3> QED BY <1>1, <2>1, SumOfZeros
  <2> QED BY <1>1, <1>2, <1>5, <2>2 DEF Inc, Fields
<1> QED BY <1>1, <1>3, <1>4, <1>5

(* What has been added to a product's row is the sales of all orders. *)
LEMMA RowOfSales ==
  ASSUME CountInv, KeepInv, DeadInv, QuietAndFaultless,
         NEW d \in Docs, d.coll = "agg_product_day", NEW field \in Fields
  PROVE  SumFunctionOnSet(Worths(field, {d}), Placed)
           = Inc(SumFunction([m \in Placed |-> Cardinality(SalesIn(m, d))]), 0, 0, 0,
                 SumFunction([m \in Placed |-> Bought(m, d)]))[field]
<1> DEFINE counts == [m \in Placed |-> Cardinality(SalesIn(m, d))]
           bought == [m \in Placed |-> Bought(m, d)]
           worths == Worths(field, {d})
<1>1. IsFiniteSet(Placed)
  BY DEF CountInv, EventsInv
<1>2. ASSUME NEW m \in Placed
      PROVE  /\ worths[m] = Inc(Cardinality(SalesIn(m, d)), 0, 0, 0, Bought(m, d))[field]
             /\ worths[m] \in Int
  BY SaleFields DEF Worths
<1>3. IntOn(worths, Placed)
  BY <1>2 DEF IntOn
<1>4. CASE field = "orders_count"
  <2>1. \A m \in Placed : worths[m] = counts[m]
    BY <1>2, <1>4 DEF Inc
  <2>2. SumFunction(counts) = SumFunctionOnSet(counts, Placed)
    BY SumOfFunction
  <2>3. SumFunctionOnSet(worths, Placed) = SumFunctionOnSet(counts, Placed)
    <3> HIDE DEF worths, counts
    <3> QED BY <1>1, <1>3, <2>1, SumSame
  <2> QED BY <1>4, <2>2, <2>3 DEF Inc
<1>5. CASE field = "quantity_sold"
  <2>1. \A m \in Placed : worths[m] = bought[m]
    BY <1>2, <1>5 DEF Inc
  <2>2. SumFunction(bought) = SumFunctionOnSet(bought, Placed)
    BY SumOfFunction
  <2>3. SumFunctionOnSet(worths, Placed) = SumFunctionOnSet(bought, Placed)
    <3> HIDE DEF worths, bought
    <3> QED BY <1>1, <1>3, <2>1, SumSame
  <2> QED BY <1>5, <2>2, <2>3 DEF Inc
<1>6. CASE field \notin {"orders_count", "quantity_sold"}
  <2>1. \A m \in Placed : worths[m] = 0
    <3>1. ASSUME NEW a, NEW b PROVE Inc(a, 0, 0, 0, b)[field] = 0
      BY <1>6 DEF Inc, Fields
    <3> HIDE DEF worths
    <3> QED BY <1>2, <3>1
  <2>2. SumFunctionOnSet(worths, Placed) = 0
    <3> HIDE DEF worths
    <3> QED BY <1>1, <2>1, SumOfZeros
  <2> QED BY <1>6, <2>2 DEF Inc, Fields
<1> QED BY <1>4, <1>5, <1>6

(* Either way it is what the row is expected to be. *)
LEMMA RowExpected ==
  ASSUME CountInv, KeepInv, DeadInv, QuietAndFaultless, NEW d \in Docs, NEW field \in Fields
  PROVE  SumFunctionOnSet(Worths(field, {d}), Placed) = Expected(d)[field]
<1>1. d.coll \in RowColls \/ d.coll = "agg_product_day"
  BY DEF Docs, RowColls
<1>2. CASE d.coll \in RowColls
  <2>1. d.coll # "agg_product_day"
    BY <1>2 DEF RowColls
  <2> QED BY <1>2, <2>1, RowOfOrders DEF Expected
<1>3. CASE d.coll = "agg_product_day"
  BY <1>3, RowOfSales DEF Expected
<1> QED BY <1>1, <1>2, <1>3

-----------------------------------------------------------------------------
(* No row without an order *)

(* A row is there only once something was counted in it. *)
BegunInv == \A d \in DOMAIN rows : rows[d].n.orders_count >= 1

(* Where only orders are placed, every call counts one. *)
LEMMA OrderCounts ==
  ASSUME CountInv, PlacedOnly, NEW i \in Instances, Makes(i)
  PROVE  Head(plan[i]) = NoCall \/ Head(plan[i]).inc.orders_count = 1
<1>1. PICK m \in Messages : m = Msg(i) /\ m.id = Event(i) /\ m.id \in EventIds
  BY AtWork DEF Makes, CountInv
<1>2. /\ Handled(m) /\ effects[m.id] + Len(plan[i]) = Steps(m)
      /\ claims[m.id] # <<>>
      /\ \A k \in 1..Len(plan[i]) : plan[i][k] = UpdatesOf(m)[effects[m.id] + k]
  BY <1>1 DEF Makes, CountInv, LedgerInv, NothingTwice, RestInv
<1>3. plan[i] \in Seq(Update) /\ plan[i] # <<>> /\ Len(plan[i]) \in Nat \ {0}
  BY NextUpdate, EmptySeq DEF Makes, CountInv
<1> DEFINE n == effects[m.id] + 1
           in == m.payload
           today == ClaimDay(m.id)
           h == Handle("order.placed", in, today)
           day == parseEventDate(in.at, today)
           cur == IF in.currency = NoCurrency THEN DefaultCurrency ELSE in.currency
<1>4. in \in Input /\ today \in Nat /\ UpdatesOf(m) = h /\ Len(h) = Steps(m)
  BY <1>1, <1>2, UpdatesType DEF CountInv, PlacedOnly, UpdatesOf
<1>5. n \in 1..Len(h) /\ Head(plan[i]) = h[n]
  <2>1. effects[m.id] \in Nat
    BY <1>1 DEF CountInv, PipelineInv, TypeOK
  <2>2. 1 \in 1..Len(plan[i]) /\ Head(plan[i]) = plan[i][1]
    BY <1>3
  <2> HIDE DEF h
  <2> QED BY <1>2, <1>3, <1>4, <2>1, <2>2
<1>6. /\ Len(h) = 3 + Len(in.items) /\ Len(in.items) \in Nat
      /\ h[1] = RestaurantDayUpsert(in.restaurant, day, cur, in.amount)
      /\ h[2] = BranchDayUpsert(in.branch, day, cur, in.amount)
      /\ h[3] = PlatformDayUpsert(day, cur, in.amount)
      /\ \A k \in 1..Len(in.items) : h[3 + k] = ItemUpdate(in.items[k], in.restaurant, day)
  <2> HIDE DEF in, today
  <2> QED BY <1>4, PlacedShape
<1> HIDE DEF n, in, today, h, day, cur
<1>7. CASE n \in 1..3
  <2>1. h[1].inc.orders_count = 1 /\ h[2].inc.orders_count = 1 /\ h[3].inc.orders_count = 1
    BY <1>6 DEF RestaurantDayUpsert, BranchDayUpsert, PlatformDayUpsert, Upsert, Order, Inc
  <2> QED BY <1>5, <1>7, <2>1
<1>8. CASE n \notin 1..3
  <2>1. n - 3 \in 1..Len(in.items) /\ n = 3 + (n - 3)
    BY <1>5, <1>6, <1>8
  <2>2. h[n] = ItemUpdate(in.items[n - 3], in.restaurant, day)
    BY <1>6, <2>1
  <2> QED BY <1>5, <2>2 DEF ItemUpdate, ProductDayUpsert, Upsert, Sale, Inc
<1> QED BY <1>7, <1>8

(* An update that counts an order leaves no row without one. *)
LEMMA OrderCounted ==
  ASSUME NEW rws, IsRows(rws), NEW u, NEW after \in UpdateOne(rws, u),
         u = NoCall \/ u.inc.orders_count = 1,
         \A d \in DOMAIN rws : rws[d].n.orders_count >= 1
  PROVE  \A d \in DOMAIN after : after[d].n.orders_count >= 1
<1>1. CASE u = NoCall
  BY <1>1 DEF UpdateOne, NoCall, Modify, Matches
<1>2. ASSUME NEW d, NEW row, after = Put(rws, d, row), row.n.orders_count >= 1
      PROVE  \A x \in DOMAIN after : after[x].n.orders_count >= 1
  BY <1>2 DEF Put
<1>3. CASE u.inc.orders_count = 1 /\ Matches(rws, u) # {}
  <2>1. PICK d \in u.filter : d \in DOMAIN rws /\ after = Put(rws, d, IncRow(rws[d], u))
    BY <1>3 DEF UpdateOne, Matches
  <2>2. rws[d].n.orders_count \in Int /\ rws[d].n.orders_count >= 1
    BY <2>1 DEF IsRows, Row, Counters
  <2>3. IncRow(rws[d], u).n.orders_count >= 1
    BY <1>3, <2>2 DEF IncRow, AddCounters, Inc
  <2> QED BY <1>2, <2>1, <2>3
<1>4. CASE u.inc.orders_count = 1 /\ Matches(rws, u) = {} /\ u.upsert
  <2>1. PICK d \in u.filter : after = Put(rws, d, [n |-> u.inc, currency |-> u.currency])
    BY <1>4 DEF UpdateOne
  <2> QED BY <1>2, <1>4, <2>1
<1>5. CASE Matches(rws, u) = {} /\ ~u.upsert
  BY <1>5 DEF UpdateOne
<1> QED BY <1>1, <1>3, <1>4, <1>5

LEMMA BegunStep ==
  ASSUME CountInv, PlacedOnly, BegunInv, [Next]_vars
  PROVE  BegunInv'
<1>1. CASE UNCHANGED rows
  BY <1>1 DEF BegunInv
<1>2. ASSUME NEW i \in Instances, Makes(i) PROVE BegunInv'
  <2>1. rows' \in UpdateOne(rows, Head(plan[i]))
    BY <1>2, NextUpdate DEF Makes, CountInv
  <2>2. Head(plan[i]) = NoCall \/ Head(plan[i]).inc.orders_count = 1
    BY <1>2, OrderCounts
  <2>3. IsRows(rows)
    BY DEF CountInv, PipelineInv, TypeOK
  <2> QED BY <2>1, <2>2, <2>3, OrderCounted DEF BegunInv
<1> QED BY <1>1, <1>2, RowSteps DEF CountInv

-----------------------------------------------------------------------------
(* The rows are the events *)

(* What the rows of an order are expected to count is not nothing. *)
LEMMA OrderExpected ==
  ASSUME CountInv, KeepInv, DeadInv, QuietAndFaultless, NEW m \in Placed
  PROVE  /\ \A d \in OrderRows(m) : d \in Docs /\ Expected(d).orders_count # 0
         /\ \A k \in Sales(m) : SaleRow(m, k) \in Docs
                                  /\ Expected(SaleRow(m, k)).orders_count # 0
<1>1. /\ m.payload \in Input /\ DayOf(m) \in Nat /\ CurrencyOf(m) \in Currencies
  BY QuietIsCounted, PlacedOrder
<1>2. IsFiniteSet(Placed)
  BY DEF CountInv, EventsInv
<1>3. ASSUME NEW d \in OrderRows(m)
      PROVE  d \in Docs /\ Expected(d).orders_count # 0
  <2>1. d \in Docs /\ d.coll # "agg_product_day"
    BY <1>1 DEF OrderRows, Docs, RestaurantDoc, BranchDoc, PlatformDoc, Input
  <2>2. m \in OrdersIn(d) /\ IsFiniteSet(OrdersIn(d))
    BY <1>2, FS_Subset DEF OrdersIn
  <2>3. Cardinality(OrdersIn(d)) # 0
    BY <2>2, FS_EmptySet
  <2> QED BY <2>1, <2>3 DEF Expected, Inc
<1>4. ASSUME NEW k \in Sales(m)
      PROVE  SaleRow(m, k) \in Docs /\ Expected(SaleRow(m, k)).orders_count # 0
  <2> DEFINE d == SaleRow(m, k)
             counts == [x \in Placed |-> Cardinality(SalesIn(x, d))]
  <2>1. m.payload.items[k] \in Item
    <3>1. \A s \in Seq(Item) : \A j \in DOMAIN s : s[j] \in Item
      OBVIOUS
    <3> QED BY <1>1, <3>1 DEF Sales, Input
  <2>2. d \in Docs /\ d.coll = "agg_product_day"
    BY <1>1, <2>1 DEF SaleRow, ProductDoc, Docs, Input, Item
  <2> HIDE DEF d
  <2>3. \A x \in Placed : IsFiniteSet(SalesIn(x, d))
    BY <2>2, SaleFields DEF Fields
  <2>4. \A x \in Placed : counts[x] \in Nat
    BY <2>3, FS_CardinalityType
  <2>5. counts[m] # 0
    <3>1. k \in SalesIn(m, d)
      BY DEF SalesIn, d
    <3> QED BY <2>3, <3>1, FS_EmptySet
  <2>6. SumFunction(counts) = SumFunctionOnSet(counts, Placed)
    BY SumOfFunction
  <2> HIDE DEF counts
  <2>7. SumFunctionOnSet(counts, Placed) = counts[m] + SumFunctionOnSet(counts, Placed \ {m})
    BY <1>2, <2>4, SumRemove DEF IntOn
  <2>8. SumFunctionOnSet(counts, {}) <= SumFunctionOnSet(counts, Placed \ {m})
    <3>1. /\ IsFiniteSet(Placed \ {m}) /\ {} \in SUBSET (Placed \ {m})
          /\ \A x \in Placed \ {m} : counts[x] >= 0
          /\ IntOn(counts, Placed \ {m})
      BY <1>2, <2>4, FS_Subset DEF IntOn
    <3> QED BY <3>1, SumOfSubset
  <2>9. SumFunctionOnSet(counts, Placed \ {m}) \in Int
    BY <1>2, <2>4, FS_Subset, SumType DEF IntOn
  <2>10. SumFunction(counts) # 0
    BY <2>4, <2>5, <2>6, <2>7, <2>8, <2>9, SumEmpty
  <2>11. Expected(d).orders_count = SumFunction(counts)
    BY <2>2 DEF Expected, Inc, counts
  <2> QED BY <2>2, <2>10, <2>11 DEF d
<1> QED BY <1>3, <1>4

(* A row that counts something is named by an order. *)
LEMMA ExpectedNamed ==
  ASSUME CountInv, KeepInv, DeadInv, QuietAndFaultless,
         NEW d \in Docs, Expected(d).orders_count # 0
  PROVE  \E m \in Placed : d \in OrderRows(m) \/ \E k \in Sales(m) : d = SaleRow(m, k)
<1>1. CASE d.coll # "agg_product_day"
  <2>1. Cardinality(OrdersIn(d)) # 0
    BY <1>1 DEF Expected, Inc
  <2>2. OrdersIn(d) # {}
    BY <2>1, FS_EmptySet
  <2> QED BY <2>2 DEF OrdersIn
<1>2. CASE d.coll = "agg_product_day"
  <2> DEFINE counts == [m \in Placed |-> Cardinality(SalesIn(m, d))]
  <2>1. SumFunction(counts) # 0 /\ SumFunction(counts) = SumFunctionOnSet(counts, Placed)
    BY <1>2, SumOfFunction DEF Expected, Inc
  <2>2. PICK m \in Placed : counts[m] # 0
    <3>1. IsFiniteSet(Placed)
      BY DEF CountInv, EventsInv
    <3> HIDE DEF counts
    <3> QED BY <2>1, <3>1, SumOfZeros
  <2>3. SalesIn(m, d) # {}
    BY <2>2, FS_EmptySet
  <2> QED BY <2>3 DEF SalesIn
<1> QED BY <1>1, <1>2

LEMMA ExactWhenQuietState ==
  ASSUME CountInv, KeepInv, DeadInv, RowLedger, BegunInv
  PROVE  ExactWhenQuiet
<1> DEFINE Named ==
      UNION {OrderRows(m) \cup {SaleRow(m, k) : k \in Sales(m)} : m \in Placed}
<1> SUFFICES ASSUME QuietAndFaultless
             PROVE  DOMAIN rows = Named /\ \A d \in DOMAIN rows : rows[d].n = Expected(d)
  BY DEF ExactWhenQuiet
<1>1. \A d \in DOMAIN rows : d \in Docs /\ rows[d].n \in Counters
  BY DEF CountInv, PipelineInv, TypeOK, IsRows, Row
<1>2. \A d \in Docs, field \in Fields :
        (IF d \in DOMAIN rows THEN rows[d].n[field] ELSE 0) = Expected(d)[field]
  <2>1. ASSUME NEW d \in Docs, NEW field \in Fields
        PROVE  (IF d \in DOMAIN rows THEN rows[d].n[field] ELSE 0) = Expected(d)[field]
    <3>1. SumFunctionOnSet(Worths(field, {d}), Placed)
            = (IF d \in DOMAIN rows THEN rows[d].n[field] ELSE 0)
      BY RowIsSum
    <3> QED BY <3>1, RowExpected
  <2> QED BY <2>1
<1>3. \A d \in DOMAIN rows : rows[d].n = Expected(d)
  <2>1. ASSUME NEW d \in DOMAIN rows PROVE rows[d].n = Expected(d)
    <3>1. \A field \in Fields : rows[d].n[field] = Expected(d)[field]
      BY <1>1, <1>2
    <3>2. rows[d].n \in Counters
      BY <1>1
    <3>3. \E a, b, c : Expected(d) = Inc(a, b, 0, 0, c)
      BY DEF Expected
    <3> QED BY <3>1, <3>2, <3>3 DEF Fields, Counters, Inc
  <2> QED BY <2>1
<1>4. ASSUME NEW d \in DOMAIN rows PROVE d \in Named
  <2>1. d \in Docs /\ rows[d].n.orders_count = Expected(d).orders_count
    BY <1>1, <1>3
  <2>2. rows[d].n.orders_count # 0
    BY <1>1 DEF BegunInv, Counters
  <2>3. \E m \in Placed : d \in OrderRows(m) \/ \E k \in Sales(m) : d = SaleRow(m, k)
    BY <2>1, <2>2, ExpectedNamed
  <2> QED BY <2>3
<1>5. ASSUME NEW d \in Named PROVE d \in DOMAIN rows
  <2>1. PICK m \in Placed : d \in OrderRows(m) \/ \E k \in Sales(m) : d = SaleRow(m, k)
    OBVIOUS
  <2>2. d \in Docs /\ Expected(d).orders_count # 0
    BY <2>1, OrderExpected
  <2>3. (IF d \in DOMAIN rows THEN rows[d].n["orders_count"] ELSE 0)
          = Expected(d)["orders_count"]
    BY <1>2, <2>2 DEF Fields
  <2> QED BY <2>2, <2>3
<1> QED BY <1>3, <1>4, <1>5

(* Without faults, and with everything handled, the rows are the events:   *)
(* while no marker expires, the rows that exist are exactly those that the *)
(* placed orders published name, by restaurant, branch, currency and       *)
(* product, each on the day the order counts on, and every one counts      *)
(* exactly the orders, the revenue and the sales that belong in it, each   *)
(* once however often it was delivered.                                    *)
THEOREM ExactWhenQuietHolds ==
  ASSUME DedupTTL > Horizon, PlacedOnly
  PROVE  Spec => []ExactWhenQuiet
<1>1. Spec => [](CountInv /\ KeepInv /\ DeadInv)
  BY DeadInvHolds
<1>2. Spec => [](CountInv /\ RowLedger)
  BY RowLedgerHolds
<1>3. Init => BegunInv
  BY DEF Init, BegunInv
<1>4. BegunInv /\ CountInv /\ [Next]_vars => BegunInv'
  BY BegunStep
<1>5. CountInv /\ KeepInv /\ DeadInv /\ RowLedger /\ BegunInv => ExactWhenQuiet
  BY ExactWhenQuietState
<1> QED BY <1>1, <1>2, <1>3, <1>4, <1>5, PTL DEF Spec

-----------------------------------------------------------------------------
(* Each collection has what the next one has *)

(* The order of the three upserts *)

(* An order reaches the rows of a before those of b. *)
Precedes(a, b) == \/ a = "agg_restaurant_day" /\ b = "agg_branch_day"
                  \/ a = "agg_branch_day" /\ b = "agg_platform_day"

DayDocs(coll, day) == {d \in Docs : d.coll = coll /\ d.date = day}

CascadeFields == {"orders_count", "revenue_sum"}

(* Updates that only add to the rows, and in that order. *)
Ordered(p) ==
  \A k \in 1..Len(p) :
    /\ p[k] = NoCall \/ (p[k].upsert /\ \E d : p[k].filter = {d})
    /\ \A a \in RowColls, day \in Nat, field \in CascadeFields :
         Gain(p[k], field, DayDocs(a, day)) >= 0
    /\ k < Len(p) =>
         \A a, b \in RowColls, day \in Nat, field \in CascadeFields :
           Precedes(a, b) =>
             Gain(p[k], field, DayDocs(a, day)) >= Gain(p[k + 1], field, DayDocs(b, day))

(* The instances with a handler at work, and what their next updates will  *)
(* add: an update that is next finds its predecessor made.                 *)
Working == {i \in Instances : pc[i] = "update"}

NextGains(field, D) == [i \in Working |-> Gain(Head(plan[i]), field, D)]

Owed(field, D) == SumFunctionOnSet(NextGains(field, D), Working)

WorkInv == IsFiniteSet(Working) /\ \A i \in Working : Ordered(plan[i])

(* What the next updates will add to the rows of b is in those of a. *)
CascadeInv ==
  \A a, b \in RowColls, day \in Nat, field \in CascadeFields :
    Precedes(a, b) =>
      SumIn(rows, field, DayDocs(a, day))
        >= SumIn(rows, field, DayDocs(b, day)) + Owed(field, DayDocs(b, day))

(* The updates of a placed order are so ordered. *)
LEMMA PlacedOrdered ==
  ASSUME NEW in \in Input, in.amount >= 0, NEW today \in Nat
  PROVE  LET h == Handle("order.placed", in, today)
         IN  /\ Ordered(h)
             /\ \A a, b \in RowColls, day \in Nat, field \in CascadeFields :
                  Precedes(a, b) => Gain(h[1], field, DayDocs(b, day)) = 0
<1> DEFINE h   == Handle("order.placed", in, today)
           on  == parseEventDate(in.at, today)
           cur == IF in.currency = NoCurrency THEN DefaultCurrency ELSE in.currency
           doc(c) == CASE c = "agg_restaurant_day" -> RestaurantDoc(in.restaurant, on)
                       [] c = "agg_branch_day"     -> BranchDoc(in.branch, on)
                       [] c = "agg_platform_day"   -> PlatformDoc(cur, on)
<1>1. /\ Len(h) = 3 + Len(in.items) /\ Len(in.items) \in Nat
      /\ h[1] = RestaurantDayUpsert(in.restaurant, on, cur, in.amount)
      /\ h[2] = BranchDayUpsert(in.branch, on, cur, in.amount)
      /\ h[3] = PlatformDayUpsert(on, cur, in.amount)
      /\ \A k \in 1..Len(in.items) : h[3 + k] = ItemUpdate(in.items[k], in.restaurant, on)
  BY PlacedShape
<1>2. \A k \in 1..Len(h) : h[k] = NoCall \/ (h[k].upsert /\ \E d : h[k].filter = {d})
  BY PlacedUpdates
<1>3. on \in Nat /\ in.restaurant \in Restaurants /\ in.branch \in Branches
      /\ cur \in Currencies /\ in.amount \in Int
  BY CurrencyAssumption DEF parseEventDate, Input, NoDate
<1>4. \A c \in RowColls : h[Rank(c)] = Upsert(doc(c), Order(in.amount), cur)
  BY <1>1 DEF RowColls, Rank, RestaurantDayUpsert, BranchDayUpsert, PlatformDayUpsert
<1>5. \A c \in RowColls : doc(c) \in Docs /\ doc(c).coll = c /\ doc(c).date = on
  BY <1>3 DEF RowColls, Docs, RestaurantDoc, BranchDoc, PlatformDoc
<1>6. \A c \in RowColls, a \in RowColls, day \in Nat, field \in CascadeFields :
        Gain(h[Rank(c)], field, DayDocs(a, day))
          = IF c = a /\ day = on THEN Order(in.amount)[field] ELSE 0
  <2> HIDE DEF h, on, cur, doc
  <2>1. ASSUME NEW c \in RowColls, NEW a \in RowColls, NEW day \in Nat,
               NEW field \in CascadeFields
        PROVE  Gain(h[Rank(c)], field, DayDocs(a, day))
                 = IF c = a /\ day = on THEN Order(in.amount)[field] ELSE 0
    <3>1. doc(c) \in DayDocs(a, day) <=> c = a /\ day = on
      BY <1>5 DEF DayDocs
    <3>2. Gain(Upsert(doc(c), Order(in.amount), cur), field, DayDocs(a, day))
            = IF doc(c) \in DayDocs(a, day) THEN Order(in.amount)[field] ELSE 0
      BY DEF Gain, Upsert
    <3>3. h[Rank(c)] = Upsert(doc(c), Order(in.amount), cur)
      BY <1>4
    <3> QED BY <3>1, <3>2, <3>3
  <2> QED BY <2>1
<1>7. \A k \in 1..Len(in.items), a \in RowColls, day \in Nat, field \in CascadeFields :
        Gain(h[3 + k], field, DayDocs(a, day)) = 0
  <2>1. ASSUME NEW k \in 1..Len(in.items), NEW a \in RowColls, NEW day \in Nat,
               NEW field \in CascadeFields
        PROVE  Gain(ItemUpdate(in.items[k], in.restaurant, on), field, DayDocs(a, day)) = 0
    <3>1. Gain(NoCall, field, DayDocs(a, day)) = 0
      BY DEF Gain, NoCall, Modify, Inc, CascadeFields
    <3>2. ASSUME NEW p, NEW r, NEW q
          PROVE  Gain(ProductDayUpsert(p, r, on, q), field, DayDocs(a, day)) = 0
      <4>1. ProductDoc(p, r, on) \notin DayDocs(a, day)
        BY DEF ProductDoc, DayDocs, RowColls
      <4> QED BY <4>1 DEF Gain, ProductDayUpsert, Upsert
    <3> QED BY <3>1, <3>2 DEF ItemUpdate
  <2> QED BY <1>1, <2>1
<1>8. \A field \in CascadeFields : Order(in.amount)[field] \in Nat
  BY <1>3 DEF CascadeFields, Order, Inc
<1> HIDE DEF h, on, cur, doc
<1>9. \A c \in RowColls : Rank(c) \in 1..3
  BY DEF RowColls, Rank
<1>10. \A k \in 1..3 : \E c \in RowColls : Rank(c) = k
  BY DEF RowColls, Rank
<1>11. ASSUME NEW k \in 1..Len(h), NEW a \in RowColls, NEW day \in Nat,
              NEW field \in CascadeFields
       PROVE  Gain(h[k], field, DayDocs(a, day))
                = IF k = Rank(a) /\ day = on THEN Order(in.amount)[field] ELSE 0
  <2>1. CASE k \in 1..3
    <3>1. PICK c \in RowColls : Rank(c) = k
      BY <1>10, <2>1
    <3>2. c = a <=> k = Rank(a)
      BY <3>1 DEF RowColls, Rank
    <3> QED BY <1>6, <3>1, <3>2
  <2>2. CASE k \notin 1..3
    <3>1. k - 3 \in 1..Len(in.items) /\ k = 3 + (k - 3) /\ k # Rank(a)
      BY <1>1, <1>9, <2>2
    <3>2. Gain(h[3 + (k - 3)], field, DayDocs(a, day)) = 0
      BY <1>7, <3>1
    <3> QED BY <3>1, <3>2
  <2> QED BY <2>1, <2>2
<1>12. \A a, b \in RowColls : Precedes(a, b) => Rank(b) = Rank(a) + 1
  BY DEF Precedes, Rank
<1>13. Ordered(h)
  <2> SUFFICES ASSUME NEW k \in 1..Len(h)
               PROVE  /\ h[k] = NoCall \/ (h[k].upsert /\ \E d : h[k].filter = {d})
                      /\ \A a \in RowColls, day \in Nat, field \in CascadeFields :
                           Gain(h[k], field, DayDocs(a, day)) >= 0
                      /\ k < Len(h) =>
                           \A a, b \in RowColls, day \in Nat, field \in CascadeFields :
                             Precedes(a, b) =>
                               Gain(h[k], field, DayDocs(a, day))
                                 >= Gain(h[k + 1], field, DayDocs(b, day))
    BY DEF Ordered
  <2>1. \A a \in RowColls, day \in Nat, field \in CascadeFields :
          Gain(h[k], field, DayDocs(a, day)) >= 0
    BY <1>8, <1>11
  <2>2. ASSUME k < Len(h), NEW a \in RowColls, NEW b \in RowColls, NEW day \in Nat,
               NEW field \in CascadeFields, Precedes(a, b)
        PROVE  Gain(h[k], field, DayDocs(a, day)) >= Gain(h[k + 1], field, DayDocs(b, day))
    <3>1. k + 1 \in 1..Len(h) /\ Rank(a) \in Int /\ Rank(b) = Rank(a) + 1
      BY <1>1, <1>9, <1>12, <2>2
    <3>2. k = Rank(a) <=> k + 1 = Rank(b)
      BY <3>1
    <3> QED BY <1>8, <1>11, <3>1, <3>2
  <2> QED BY <1>2, <2>1, <2>2
<1>14. \A a, b \in RowColls, day \in Nat, field \in CascadeFields :
         Precedes(a, b) => Gain(h[1], field, DayDocs(b, day)) = 0
  <2>1. 1 \in 1..Len(h)
    BY <1>1
  <2>2. \A a, b \in RowColls : Precedes(a, b) => 1 # Rank(b)
    BY DEF Precedes, Rank
  <2> QED BY <1>11, <2>1, <2>2
<1> QED BY <1>13, <1>14 DEF h

(* Amounts of the orders, for the messages themselves. *)
LEMMA AtWorkOnOrder ==
  ASSUME PipelineInv, PlacedOnly, OrderAmounts, NEW i \in Instances, Claims(i),
         pc'[i] = "update"
  PROVE  \E in \in Input, today \in Nat :
           in.amount >= 0 /\ plan'[i] = Handle("order.placed", in, today)
<1>1. /\ Msg(i) \in Messages /\ Handled(Msg(i))
      /\ plan'[i] = Handle(Msg(i).key, Msg(i).payload, Today)
  BY AtWork DEF Claims
<1>2. Msg(i).key = "order.placed" /\ Msg(i).payload \in Input /\ Msg(i).payload.amount >= 0
  BY <1>1, MessagesAssumption DEF PlacedOnly, OrderAmounts, Handled, Message
<1>3. Today \in Nat
  BY BoundsAssumption, DivType DEF Today, PipelineInv, TypeOK
<1> QED BY <1>1, <1>2, <1>3

(* What is left of ordered updates is ordered. *)
LEMMA TailOrdered ==
  ASSUME NEW p \in Seq(Update), p # <<>>, Ordered(p)
  PROVE  Ordered(Tail(p))
<1>1. /\ Len(Tail(p)) = Len(p) - 1 /\ Len(p) \in Nat
      /\ \A k \in 1..Len(Tail(p)) : Tail(p)[k] = p[k + 1] /\ k + 1 \in 1..Len(p)
  OBVIOUS
<1>2. \A k \in 1..Len(Tail(p)) : k < Len(Tail(p)) =>
        k + 1 < Len(p) /\ Tail(p)[k + 1] = p[(k + 1) + 1]
  BY <1>1
<1> QED BY <1>1, <1>2 DEF Ordered

LEMMA WorkStep ==
  ASSUME PipelineInv, PlacedOnly, OrderAmounts, WorkInv, [Next]_vars
  PROVE  WorkInv'
<1>1. ASSUME \A j \in Instances : Kept(j) PROVE WorkInv'
  <2>1. Working' = Working /\ \A j \in Working : plan'[j] = plan[j]
    BY <1>1 DEF Working, Kept
  <2> QED BY <2>1 DEF WorkInv
<1>2. ASSUME NEW i \in Instances, Others(i), pc'[i] = "update" => Ordered(plan'[i])
      PROVE  WorkInv'
  <2>1. /\ Working' \subseteq Working \cup {i}
        /\ \A j \in Working' \ {i} : j \in Working /\ plan'[j] = plan[j]
    BY <1>2 DEF Working, Others, Kept
  <2>2. IsFiniteSet(Working')
    BY <2>1, FS_AddElement, FS_Subset DEF WorkInv
  <2>3. \A j \in Working' : Ordered(plan'[j])
    BY <1>2, <2>1 DEF WorkInv, Working
  <2> QED BY <2>2, <2>3 DEF WorkInv
<1>3. ASSUME NEW i \in Instances, Claims(i) PROVE WorkInv'
  <2>1. pc'[i] = "update" => Ordered(plan'[i])
    BY <1>3, AtWorkOnOrder, PlacedOrdered
  <2> QED BY <1>2, <1>3, <2>1 DEF Claims
<1>4. ASSUME NEW i \in Instances, Makes(i) PROVE WorkInv'
  <2>1. pc'[i] = "update" => Ordered(plan'[i])
    BY <1>4, NextUpdate, TailOrdered DEF Makes, WorkInv, Working
  <2> QED BY <1>2, <1>4, <2>1 DEF Makes
<1>5. ASSUME NEW i \in Instances, Abandons(i) PROVE WorkInv'
  BY <1>2, <1>5 DEF Abandons
<1>6. ASSUME NEW e \in EventIds, ExpireMarker(e) PROVE WorkInv'
  BY <1>1, <1>6 DEF ExpireMarker, loop, Kept
<1> QED BY <1>1, <1>3, <1>4, <1>5, <1>6, StepKinds DEF LeavesLedger

(* The next updates add numbers that are not negative. *)
LEMMA NextGainsType ==
  ASSUME PipelineInv, WorkInv, NEW a \in RowColls, NEW day \in Nat, NEW field \in CascadeFields,
         NEW i \in Working
  PROVE  /\ NextGains(field, DayDocs(a, day))[i] = Gain(Head(plan[i]), field, DayDocs(a, day))
         /\ Gain(Head(plan[i]), field, DayDocs(a, day)) \in Nat
         /\ plan[i] \in Seq(Update) /\ plan[i] # <<>> /\ Head(plan[i]) \in Update
         /\ Head(plan[i]) = plan[i][1] /\ 1 \in 1..Len(plan[i]) /\ Len(plan[i]) \in Nat
<1>1. plan[i] \in Seq(Update) /\ plan[i] # <<>> /\ Head(plan[i]) \in Update
  BY NextUpdate DEF Working
<1>2. Head(plan[i]) = plan[i][1] /\ 1 \in 1..Len(plan[i]) /\ Len(plan[i]) \in Nat
  BY <1>1
<1>3. Gain(Head(plan[i]), field, DayDocs(a, day)) \in Int
  BY <1>1, CounterFields DEF Gain, Update, CascadeFields, Fields
<1>4. Gain(Head(plan[i]), field, DayDocs(a, day)) >= 0
  BY <1>2 DEF WorkInv, Ordered
<1> QED BY <1>1, <1>2, <1>3, <1>4 DEF NextGains

(* When instance i goes from owing one amount to owing another, so does    *)
(* the sum.                                                                *)
LEMMA OwedChanges ==
  ASSUME PipelineInv, PipelineInv', WorkInv, WorkInv', NEW i \in Instances, Others(i),
         NEW a \in RowColls, NEW day \in Nat, NEW field \in CascadeFields
  PROVE  LET D == DayDocs(a, day)
             before == IF pc[i] = "update" THEN Gain(Head(plan[i]), field, D) ELSE 0
             after  == IF pc'[i] = "update" THEN Gain(Head(plan'[i]), field, D) ELSE 0
         IN  /\ Owed(field, D) \in Int /\ Owed(field, D)' \in Int
             /\ Owed(field, D)' = Owed(field, D) + after - before
<1> DEFINE D == DayDocs(a, day)
           f == NextGains(field, D)
           g == NextGains(field, D)'
           S == Working
           T == Working'
<1>1. /\ \A j \in S : f[j] = Gain(Head(plan[j]), field, D) /\ f[j] \in Int
      /\ \A j \in T : g[j] = Gain(Head(plan'[j]), field, D) /\ g[j] \in Int
  <2>1. \A j \in S : f[j] = Gain(Head(plan[j]), field, D) /\ f[j] \in Int
    BY NextGainsType
  <2>2. ASSUME NEW j \in T
        PROVE  g[j] = Gain(Head(plan'[j]), field, D) /\ g[j] \in Int
    <3>1. plan'[j] \in Seq(Update) /\ plan'[j] # <<>>
      BY <2>2 DEF Working, PipelineInv, TypeOK, LoopInv
    <3>2. Head(plan'[j]) \in Update
      BY <3>1
    <3>3. Gain(Head(plan'[j]), field, D) \in Int
      BY <3>2, CounterFields DEF Gain, Update, CascadeFields, Fields
    <3> QED BY <3>3 DEF NextGains
  <2> QED BY <2>1, <2>2
<1>2. S \ {i} = T \ {i} /\ \A j \in S \ {i} : plan'[j] = plan[j]
  BY DEF Working, Others, Kept
<1>3. /\ IntOn(f, S) /\ IntOn(g, T)
      /\ \A j \in S \ {i} : f[j] = g[j]
  BY <1>1, <1>2 DEF IntOn
<1>4. IsFiniteSet(S) /\ IsFiniteSet(T)
  BY DEF WorkInv
<1>5. /\ Share(f, S, i) = IF pc[i] = "update" THEN Gain(Head(plan[i]), field, D) ELSE 0
      /\ Share(g, T, i) = IF pc'[i] = "update" THEN Gain(Head(plan'[i]), field, D) ELSE 0
      /\ Share(f, S, i) \in Int /\ Share(g, T, i) \in Int
  BY <1>1 DEF Share, Working
<1>6. Owed(field, D) = SumFunctionOnSet(f, S) /\ Owed(field, D)' = SumFunctionOnSet(g, T)
  BY DEF Owed
<1> HIDE DEF f, g, S, T, D
<1>7. SumFunctionOnSet(g, T) - Share(g, T, i) = SumFunctionOnSet(f, S) - Share(f, S, i)
  BY <1>2, <1>3, <1>4, SumExcept
<1>8. SumFunctionOnSet(f, S) \in Int /\ SumFunctionOnSet(g, T) \in Int
  BY <1>3, <1>4, SumType
<1>9. /\ SumFunctionOnSet(f, S) \in Int /\ SumFunctionOnSet(g, T) \in Int
      /\ SumFunctionOnSet(g, T) = SumFunctionOnSet(f, S) + Share(g, T, i) - Share(f, S, i)
  BY <1>5, <1>7, <1>8
<1> QED BY <1>5, <1>6, <1>9 DEF D

LEMMA CascadeStep ==
  ASSUME PlacedOnly, OrderAmounts, PipelineInv, PipelineInv', FiniteInv, WorkInv, WorkInv',
         CascadeInv, [Next]_vars
  PROVE  CascadeInv'
<1> SUFFICES ASSUME NEW a \in RowColls, NEW b \in RowColls, NEW day \in Nat,
                    NEW field \in CascadeFields, Precedes(a, b)
             PROVE  SumIn(rows', field, DayDocs(a, day))
                      >= SumIn(rows', field, DayDocs(b, day)) + Owed(field, DayDocs(b, day))'
  BY DEF CascadeInv
<1> DEFINE A == DayDocs(a, day)
           B == DayDocs(b, day)
<1>1. SumIn(rows, field, A) >= SumIn(rows, field, B) + Owed(field, B)
  BY DEF CascadeInv
<1>2. field \in Fields /\ A \in SUBSET Docs /\ B \in SUBSET Docs
  BY DEF CascadeFields, Fields, DayDocs
<1>3. \A D \in SUBSET Docs : SumIn(rows, field, D) \in Int
  <2>1. ASSUME NEW D \in SUBSET Docs PROVE SumIn(rows, field, D) \in Int
    <3>1. IsFiniteSet(DOMAIN rows \cap D)
      BY FS_Subset DEF FiniteInv
    <3>2. IntOn(Column(rows, field), DOMAIN rows \cap D)
      BY <1>2, CounterFields DEF IntOn, Column, IsRows, Row, PipelineInv, TypeOK
    <3> QED BY <3>1, <3>2, SumType DEF SumIn
  <2> QED BY <2>1
<1>4. SumIn(rows, field, A) \in Int /\ SumIn(rows, field, B) \in Int
  BY <1>2, <1>3
<1>5. ASSUME UNCHANGED rows, \A j \in Instances : Kept(j)
      PROVE  SumIn(rows', field, A) >= SumIn(rows', field, B) + Owed(field, B)'
  <2>1. Working' = Working /\ \A j \in Working : plan'[j] = plan[j]
    BY <1>5 DEF Working, Kept
  <2>2. NextGains(field, B)' = NextGains(field, B)
    <3>1. NextGains(field, B)' = [j \in Working' |-> Gain(Head(plan'[j]), field, B)]
      BY DEF NextGains
    <3>2. \A j \in Working : Gain(Head(plan'[j]), field, B) = Gain(Head(plan[j]), field, B)
      BY <2>1
    <3> HIDE DEF B
    <3> QED BY <2>1, <3>1, <3>2 DEF NextGains
  <2>3. Owed(field, B)' = Owed(field, B)
    BY <2>1, <2>2, Zenon DEF Owed
  <2> QED BY <1>1, <1>5, <2>3
<1>6. ASSUME NEW i \in Instances, Claims(i)
      PROVE  SumIn(rows', field, A) >= SumIn(rows', field, B) + Owed(field, B)'
  <2>1. Others(i) /\ pc[i] # "update" /\ UNCHANGED rows
    BY <1>6 DEF Claims
  <2>2. pc'[i] = "update" => Gain(Head(plan'[i]), field, B) = 0
    <3>1. ASSUME pc'[i] = "update" PROVE Gain(Head(plan'[i]), field, B) = 0
      <4>1. PICK in \in Input, today \in Nat :
              in.amount >= 0 /\ plan'[i] = Handle("order.placed", in, today)
        BY <1>6, <3>1, AtWorkOnOrder
      <4>2. Gain(Handle("order.placed", in, today)[1], field, B) = 0
        BY <4>1, PlacedOrdered
      <4>3. Head(plan'[i]) = plan'[i][1]
        OBVIOUS
      <4> QED BY <4>1, <4>2, <4>3
    <3> QED BY <3>1
  <2>3. /\ Owed(field, B) \in Int /\ Owed(field, B)' \in Int
        /\ Owed(field, B)' = Owed(field, B)
    BY <2>1, <2>2, OwedChanges
  <2> QED BY <1>1, <2>1, <2>3
<1>7. ASSUME NEW i \in Instances, Abandons(i)
      PROVE  SumIn(rows', field, A) >= SumIn(rows', field, B) + Owed(field, B)'
  <2>1. Others(i) /\ pc[i] = "update" /\ pc'[i] # "update" /\ UNCHANGED rows
    BY <1>7 DEF Abandons
  <2>2. Gain(Head(plan[i]), field, B) \in Nat
    BY <2>1, NextGainsType DEF Working
  <2>3. /\ Owed(field, B) \in Int /\ Owed(field, B)' \in Int
        /\ Owed(field, B)' = Owed(field, B) + 0 - Gain(Head(plan[i]), field, B)
    BY <2>1, OwedChanges
  <2>4. Owed(field, B)' <= Owed(field, B)
    BY <2>2, <2>3
  <2> HIDE DEF A, B
  <2> QED BY <1>1, <1>4, <2>1, <2>3, <2>4
<1>8. ASSUME NEW i \in Instances, Makes(i)
      PROVE  SumIn(rows', field, A) >= SumIn(rows', field, B) + Owed(field, B)'
  <2> DEFINE u == Head(plan[i])
             next == IF pc'[i] = "update" THEN Gain(Head(plan'[i]), field, B) ELSE 0
  <2>1. Others(i) /\ pc[i] = "update" /\ rows' \in UpdateOne(rows, u) /\ i \in Working
    BY <1>8 DEF Makes, Working
  <2>2. /\ u \in Update /\ u = plan[i][1] /\ 1 \in 1..Len(plan[i]) /\ Len(plan[i]) \in Nat
        /\ plan[i] \in Seq(Update) /\ plan[i] # <<>>
        /\ Gain(u, field, A) \in Nat /\ Gain(u, field, B) \in Nat
    BY <2>1, NextGainsType
  <2>3. u = NoCall \/ (u.upsert /\ \E d : u.filter = {d})
    <3>1. Ordered(plan[i])
      BY <2>1 DEF WorkInv
    <3>2. plan[i][1] = NoCall \/ (plan[i][1].upsert /\ \E d : plan[i][1].filter = {d})
      BY <2>2, <3>1 DEF Ordered
    <3> HIDE DEF u
    <3> QED BY <2>2, <3>2
  <2>4. /\ SumIn(rows', field, A) = SumIn(rows, field, A) + Gain(u, field, A)
        /\ SumIn(rows', field, B) = SumIn(rows, field, B) + Gain(u, field, B)
    <3>1. IsRows(rows) /\ IsFiniteSet(DOMAIN rows)
      BY DEF PipelineInv, TypeOK, FiniteInv
    <3>2. ASSUME NEW D \in SUBSET Docs
          PROVE  SumIn(rows', field, D) = SumIn(rows, field, D) + Gain(u, field, D)
      <4> DEFINE after == rows'
      <4>1. after \in UpdateOne(rows, u) /\ u \in Update
        BY <2>1, <2>2
      <4> HIDE DEF u, after
      <4>2. SumIn(after, field, D) = SumIn(rows, field, D) + Gain(u, field, D)
        BY <1>2, <2>3, <3>1, <4>1, UpdateGain
      <4> QED BY <4>2 DEF after
    <3> HIDE DEF A, B, u
    <3> QED BY <1>2, <3>2
  <2>5. Gain(u, field, A) >= next
    <3>1. ASSUME pc'[i] = "update"
          PROVE  Gain(u, field, A) >= Gain(Head(plan'[i]), field, B)
      <4>1. plan'[i] = Tail(plan[i]) /\ Len(plan[i]) # 1
        BY <1>8, <3>1 DEF Makes
      <4>2. 1 < Len(plan[i]) /\ Head(plan'[i]) = plan[i][1 + 1]
        <5>1. \A p \in Seq(Update) : 1 < Len(p) => Head(Tail(p)) = p[1 + 1]
          OBVIOUS
        <5>2. 1 < Len(plan[i])
          <6> DEFINE n == Len(plan[i])
          <6>1. n \in Nat /\ n # 0 /\ n # 1
            BY <2>2, <4>1, EmptySeq
          <6> HIDE DEF n
          <6>2. 1 < n
            BY <6>1
          <6> QED BY <6>2 DEF n
        <5> QED BY <2>2, <4>1, <5>1, <5>2
      <4> QED BY <2>1, <2>2, <4>2 DEF WorkInv, Ordered
    <3> QED BY <2>2, <3>1
  <2>6. /\ Owed(field, B) \in Int /\ Owed(field, B)' \in Int
        /\ Owed(field, B)' = Owed(field, B) + next - Gain(u, field, B)
    BY <2>1, OwedChanges
  <2>7. next \in Int
    <3>1. ASSUME pc'[i] = "update" PROVE Gain(Head(plan'[i]), field, B) \in Int
      <4>1. Head(plan'[i]) \in Update
        BY <3>1 DEF PipelineInv, TypeOK, LoopInv
      <4> QED BY <1>2, <4>1, CounterFields DEF Gain, Update
    <3> QED BY <3>1
  <2> HIDE DEF A, B, u, next
  <2> QED BY <1>1, <1>4, <2>2, <2>4, <2>5, <2>6, <2>7
<1>9. ASSUME NEW e \in EventIds, ExpireMarker(e)
      PROVE  SumIn(rows', field, A) >= SumIn(rows', field, B) + Owed(field, B)'
  BY <1>5, <1>9 DEF ExpireMarker, loop, Kept
<1>10. SumIn(rows', field, A) >= SumIn(rows', field, B) + Owed(field, B)'
  <2>1. CASE LeavesLedger
    BY <1>5, <2>1 DEF LeavesLedger
  <2> HIDE DEF A, B
  <2> QED BY <1>6, <1>7, <1>8, <1>9, <2>1, StepKinds
<1> QED BY <1>10

(* Of a day, the rows of a total what the invariant sums. *)
LEMMA CascadeState ==
  ASSUME PipelineInv, WorkInv, CascadeInv, FiniteInv
  PROVE  Cascade
<1> SUFFICES ASSUME NEW day \in Days, NEW field \in CascadeFields
             PROVE  /\ OnDay("agg_restaurant_day", day, field) >= OnDay("agg_branch_day", day, field)
                    /\ OnDay("agg_branch_day", day, field) >= OnDay("agg_platform_day", day, field)
  BY DEF Cascade, CascadeFields
<1>1. day \in Nat
  BY DEF Days, PipelineInv, TypeOK, IsRows, Docs
<1>2. ASSUME NEW a \in RowColls, NEW b \in RowColls, Precedes(a, b)
      PROVE  OnDay(a, day, field) >= OnDay(b, day, field)
  <2>1. \A c \in RowColls : OnDay(c, day, field) = SumIn(rows, field, DayDocs(c, day))
    <3>1. ASSUME NEW c \in RowColls
          PROVE  OnDay(c, day, field) = SumIn(rows, field, DayDocs(c, day))
      <4>1. {d \in RowsOf(c) : d.date = day} = DOMAIN rows \cap DayDocs(c, day)
        BY DEF RowsOf, DayDocs, PipelineInv, TypeOK, IsRows
      <4> QED BY <4>1, Zenon DEF OnDay, Total, SumIn
    <3> QED BY <3>1
  <2>2. SumIn(rows, field, DayDocs(a, day))
          >= SumIn(rows, field, DayDocs(b, day)) + Owed(field, DayDocs(b, day))
    BY <1>1, <1>2 DEF CascadeInv
  <2>3. Owed(field, DayDocs(b, day)) \in Nat
    <3> DEFINE f == NextGains(field, DayDocs(b, day))
               zeros == [i \in Working |-> 0]
    <3>1. \A i \in Working : f[i] \in Nat /\ zeros[i] = 0
      BY <1>1, NextGainsType
    <3>2. IsFiniteSet(Working)
      BY DEF WorkInv
    <3>3. Owed(field, DayDocs(b, day)) = SumFunctionOnSet(f, Working)
      BY DEF Owed
    <3> HIDE DEF f, zeros
    <3>4. IntOn(f, Working) /\ IntOn(zeros, Working) /\ \A i \in Working : zeros[i] <= f[i]
      BY <3>1 DEF IntOn
    <3>5. SumFunctionOnSet(zeros, Working) <= SumFunctionOnSet(f, Working)
      BY <3>2, <3>4, SumMonotonic
    <3>6. SumFunctionOnSet(f, Working) \in Int
      BY <3>2, <3>4, SumType
    <3>7. SumFunctionOnSet(zeros, Working) = 0
      <4>1. SumFunctionOnSet(zeros, Working) = SumFunctionOnSet(zeros, {})
        BY <3>1, <3>2, <3>4, SumZeros
      <4> QED BY <4>1, SumEmpty
    <3> QED BY <3>3, <3>5, <3>6, <3>7
  <2>4. \A c \in RowColls : SumIn(rows, field, DayDocs(c, day)) \in Int
    <3>1. ASSUME NEW c \in RowColls PROVE SumIn(rows, field, DayDocs(c, day)) \in Int
      <4>1. IsFiniteSet(DOMAIN rows \cap DayDocs(c, day))
        BY FS_Subset DEF FiniteInv
      <4>2. IntOn(Column(rows, field), DOMAIN rows \cap DayDocs(c, day))
        BY CounterFields DEF IntOn, Column, IsRows, Row, PipelineInv, TypeOK, CascadeFields, Fields
      <4> QED BY <4>1, <4>2, SumType DEF SumIn
    <3> QED BY <3>1
  <2> QED BY <2>1, <2>2, <2>3, <2>4
<1> QED BY <1>2 DEF RowColls, Precedes

(* The order of the three upserts: whatever fails or is redelivered, and   *)
(* even when a marker expires and an order is counted again, the orders    *)
(* and the revenue of a day show in the restaurant rows before they show   *)
(* in the branch rows, and in those before the platform rows, for any      *)
(* number of instances at work at once.                                    *)
THEOREM CascadeHolds ==
  ASSUME PlacedOnly, OrderAmounts
  PROVE  Spec => []Cascade
<1> DEFINE Inv == PipelineInv /\ FiniteInv /\ WorkInv
<1>1. Init => Inv /\ CascadeInv
  <2> SUFFICES ASSUME Init PROVE Inv /\ CascadeInv
    OBVIOUS
  <2>1. Working = {} /\ DOMAIN rows = {}
    BY DEF Init, Working
  <2>2. WorkInv
    BY <2>1, FS_EmptySet DEF WorkInv
  <2>3. ASSUME NEW a \in RowColls, NEW b \in RowColls, NEW day \in Nat,
               NEW field \in CascadeFields
        PROVE  SumIn(rows, field, DayDocs(a, day))
                 >= SumIn(rows, field, DayDocs(b, day)) + Owed(field, DayDocs(b, day))
    <3>1. ASSUME NEW D PROVE SumIn(rows, field, D) = 0
      <4>1. DOMAIN rows \cap D = {}
        BY <2>1
      <4> QED BY <4>1, SumEmpty, Zenon DEF SumIn
    <3>2. Owed(field, DayDocs(b, day)) = 0
      BY <2>1, SumEmpty, Zenon DEF Owed
    <3> QED BY <3>1, <3>2
  <2> QED BY <2>2, <2>3, PipelineInit, FiniteInit DEF CascadeInv
<1>2. Inv /\ [Next]_vars => Inv'
  BY PipelineStep, FiniteStep, WorkStep
<1>3. Inv /\ Inv' /\ CascadeInv /\ [Next]_vars => CascadeInv'
  BY CascadeStep
<1>4. Inv /\ CascadeInv => Cascade
  BY CascadeState
<1> QED BY <1>1, <1>2, <1>3, <1>4, PTL DEF Spec

-----------------------------------------------------------------------------
(* Cancellations *)

(* The cancellations that have reached the rows of a collection. *)
TakenBack(coll) == {m \in Cancelled : effects[m.id] >= Rank(coll)}

(* A row begins with an order, and what takes one back has been published. *)
CancelInv ==
  \A coll \in RowColls :
    SumIn(rows, "orders_count", DocsOf(coll))
      >= Cardinality(DOMAIN rows \cap DocsOf(coll)) - Cardinality(TakenBack(coll))

(* What an update of any handler may do to the orders of a collection. *)
LEMMA OrdersUpdate ==
  ASSUME NEW key \in HandlerFor, NEW in \in Input, NEW today \in Nat,
         NEW k \in 1..Len(Handle(key, in, today)), NEW coll \in RowColls,
         NEW d \in DocsOf(coll), d \in Handle(key, in, today)[k].filter
  PROVE  LET u == Handle(key, in, today)[k]
         IN  \/ u.inc.orders_count = 1
             \/ ~u.upsert /\ u.inc.orders_count = 0
             \/ /\ ~u.upsert /\ u.inc.orders_count = -1
                /\ key = "order.cancelled" /\ k = Rank(coll)
<1> DEFINE h  == Handle(key, in, today)
           on == parseEventDate(in.at, today)
<1>1. CASE key = "order.placed"
  <2> DEFINE cur == IF in.currency = NoCurrency THEN DefaultCurrency ELSE in.currency
  <2>1. /\ Len(h) = 3 + Len(in.items) /\ Len(in.items) \in Nat
        /\ h[1] = RestaurantDayUpsert(in.restaurant, on, cur, in.amount)
        /\ h[2] = BranchDayUpsert(in.branch, on, cur, in.amount)
        /\ h[3] = PlatformDayUpsert(on, cur, in.amount)
        /\ \A j \in 1..Len(in.items) : h[3 + j] = ItemUpdate(in.items[j], in.restaurant, on)
    BY <1>1, PlacedShape
  <2>2. d \in h[k].filter /\ k \in 1..Len(h)
    OBVIOUS
  <2> HIDE DEF h, on, cur
  <2>3. h[k].inc.orders_count = 1
    <3>1. CASE k \in 1..3
      <4>1. \A j \in 1..3 : h[j].inc = Order(in.amount)
        BY <2>1 DEF RestaurantDayUpsert, BranchDayUpsert, PlatformDayUpsert, Upsert
      <4> QED BY <3>1, <4>1 DEF Order, Inc
    <3>2. CASE k \notin 1..3
      <4>1. k - 3 \in 1..Len(in.items) /\ k = 3 + (k - 3)
        <5> DEFINE n == Len(in.items)
        <5>1. Len(h) = 3 + n /\ n \in Nat /\ k \in 1..Len(h) /\ k \notin 1..3
          BY <2>1, <2>2, <3>2
        <5> HIDE DEF n
        <5>2. k - 3 \in 1..n /\ k = 3 + (k - 3)
          BY <5>1
        <5> QED BY <5>2 DEF n
      <4>2. h[k] = ItemUpdate(in.items[k - 3], in.restaurant, on)
        BY <2>1, <4>1
      <4>3. NoCall.filter = {}
        BY DEF NoCall, Modify
      <4>4. h[k] = ProductDayUpsert(in.items[k - 3].product, in.restaurant, on,
                                    in.items[k - 3].quantity)
        BY <2>2, <4>2, <4>3 DEF ItemUpdate
      <4> QED BY <4>4 DEF ProductDayUpsert, Upsert, Sale, Inc
    <3> QED BY <3>1, <3>2
  <2> QED BY <2>3 DEF h
<1>2. CASE key = "order.delivered"
  <2>1. /\ h = << RestaurantDayIncrDelivery(in.restaurant, on, in.amount),
                  BranchDayIncrDelivery(in.branch, on, in.amount) >>
    BY <1>2 DEF Handle, HandleOrderDelivered
  <2>2. ~h[k].upsert /\ h[k].inc.orders_count = 0
    BY <2>1 DEF RestaurantDayIncrDelivery, BranchDayIncrDelivery, Modify, Delivery, Inc
  <2> QED BY <2>2
<1>3. CASE key = "payment.succeeded"
  <2>1. /\ h = << RestaurantDayIncrRevenue(in.restaurant, on, in.amount),
                  BranchDayIncrRevenue(in.branch, on, in.amount),
                  PlatformDayIncrRevenue(on, in.amount) >>
    BY <1>3 DEF Handle, HandlePaymentSucceeded
  <2>2. ~h[k].upsert /\ h[k].inc.orders_count = 0
    BY <2>1 DEF RestaurantDayIncrRevenue, BranchDayIncrRevenue, PlatformDayIncrRevenue, Modify,
       Revenue, Inc
  <2> QED BY <2>2
<1>4. CASE key = "order.cancelled"
  <2>1. /\ h = << RestaurantDayDecrOrder(in.restaurant, on),
                  BranchDayDecrOrder(in.branch, on),
                  PlatformDayDecrOrder(on) >>
    BY <1>4 DEF Handle, HandleOrderCancelled
  <2>2. ~h[k].upsert /\ h[k].inc.orders_count = -1
    BY <2>1 DEF RestaurantDayDecrOrder, BranchDayDecrOrder, PlatformDayDecrOrder, Modify,
       Cancellation, Inc
  <2>3. k \in 1..3 /\ d \in h[k].filter
    BY <2>1
  <2>4. /\ \A x \in h[1].filter : x.coll = "agg_restaurant_day"
        /\ \A x \in h[2].filter : x.coll = "agg_branch_day"
        /\ \A x \in h[3].filter : x.coll = "agg_platform_day"
    BY <2>1 DEF RestaurantDayDecrOrder, BranchDayDecrOrder, PlatformDayDecrOrder, Modify,
       PlatformDocs, RestaurantDoc, BranchDoc, PlatformDoc
  <2>5. d.coll = coll
    BY DEF DocsOf
  <2> HIDE DEF h
  <2>6. k = Rank(coll)
    BY <2>3, <2>4, <2>5 DEF Rank
  <2> QED BY <1>4, <2>2, <2>6 DEF h
<1> QED BY <1>1, <1>2, <1>3, <1>4 DEF HandlerFor

LEMMA CancelStep ==
  ASSUME DedupTTL > Horizon, CountInv, CountInv', CancelInv, [Next]_vars
  PROVE  CancelInv'
<1> SUFFICES ASSUME NEW coll \in RowColls
             PROVE  SumIn(rows', "orders_count", DocsOf(coll))
                      >= Cardinality(DOMAIN rows' \cap DocsOf(coll))
                           - Cardinality(TakenBack(coll)')
  BY DEF CancelInv
<1> DEFINE D == DocsOf(coll)
           sum == SumIn(rows, "orders_count", D)
           size == Cardinality(DOMAIN rows \cap D)
           taken == Cardinality(TakenBack(coll))
           taken1 == Cardinality(TakenBack(coll)')
<1>1. sum >= size - taken
  BY DEF CancelInv
<1>2. "orders_count" \in Fields /\ D \in SUBSET Docs /\ IsFiniteSet(DOMAIN rows \cap D)
  BY FS_Subset DEF Fields, DocsOf, CountInv, FiniteInv
<1>3. sum \in Int /\ size \in Nat
  <2>1. IntOn(Column(rows, "orders_count"), DOMAIN rows \cap D)
    BY <1>2, CounterFields DEF IntOn, Column, IsRows, Row, CountInv, PipelineInv, TypeOK
  <2>2. sum \in Int
    <3> HIDE DEF D
    <3> QED BY <1>2, <2>1, SumType DEF SumIn
  <2> QED BY <1>2, <2>2, FS_CardinalityType
<1>4. /\ effects \in [EventIds -> Nat]
      /\ \A m \in Cancelled : m \in Messages /\ Handled(m) /\ m.id \in EventIds
      /\ IsFiniteSet(TakenBack(coll)) /\ IsFiniteSet(TakenBack(coll)')
      /\ taken \in Nat /\ taken1 \in Nat
  <2>1. /\ IsFiniteSet(TakenBack(coll)) /\ IsFiniteSet(TakenBack(coll)')
        /\ \A m \in Cancelled : m \in Messages /\ Handled(m) /\ m.id \in EventIds
    BY FS_Subset DEF TakenBack, CountInv, EventsInv
  <2> QED BY <2>1, FS_CardinalityType DEF CountInv, PipelineInv, TypeOK
<1>5. ASSUME BodiesKept, \A e \in EventIds : effects[e] <= effects'[e]
      PROVE  TakenBack(coll) \subseteq TakenBack(coll)' /\ taken <= taken1
  <2>1. Cancelled \subseteq Cancelled'
    BY <1>5, EventsGrow DEF Cancelled
  <2>2. effects' \in [EventIds -> Nat]
    BY DEF CountInv, PipelineInv, TypeOK
  <2>3. Rank(coll) \in Nat
    BY DEF RowColls, Rank
  <2>4. TakenBack(coll) \subseteq TakenBack(coll)'
    BY <1>4, <1>5, <2>1, <2>2, <2>3 DEF TakenBack
  <2> QED BY <1>4, <2>4, FS_Subset
<1>6. ASSUME BodiesKept, UNCHANGED <<rows, effects>>
      PROVE  SumIn(rows', "orders_count", D) >= Cardinality(DOMAIN rows' \cap D) - taken1
  <2>1. taken <= taken1
    BY <1>4, <1>5, <1>6
  <2>2. SumIn(rows', "orders_count", D) = sum /\ Cardinality(DOMAIN rows' \cap D) = size
    BY <1>6
  <2> HIDE DEF D, sum, size, taken, taken1
  <2> QED BY <1>1, <1>3, <1>4, <2>1, <2>2
<1>7. ASSUME NEW i \in Instances, Makes(i)
      PROVE  SumIn(rows', "orders_count", D) >= Cardinality(DOMAIN rows' \cap D) - taken1
  <2>1. PICK m \in Messages : m = Msg(i) /\ m.id = Event(i) /\ m.id \in EventIds
    BY <1>7, AtWork DEF Makes, CountInv
  <2>2. /\ pc[i] = "update" /\ rows' \in UpdateOne(rows, Head(plan[i])) /\ BodiesKept
        /\ effects' = [effects EXCEPT ![m.id] = @ + 1]
    BY <1>7, <2>1 DEF Makes, Others
  <2> DEFINE k == effects[m.id] + 1
             u == UpdatesOf(m)[k]
  <2>3. /\ Handled(m) /\ effects[m.id] + Len(plan[i]) = Steps(m)
        /\ claims[m.id] # <<>>
        /\ \A j \in 1..Len(plan[i]) : plan[i][j] = UpdatesOf(m)[effects[m.id] + j]
    BY <2>1, <2>2 DEF CountInv, LedgerInv, NothingTwice, RestInv
  <2>4. plan[i] \in Seq(Update) /\ plan[i] # <<>> /\ Len(plan[i]) \in Nat \ {0}
    BY <2>2, NextUpdate, EmptySeq DEF CountInv
  <2>5. /\ m.key \in HandlerFor /\ m.payload \in Input /\ ClaimDay(m.id) \in Nat
        /\ k \in 1..Len(UpdatesOf(m)) /\ u \in Update /\ Head(plan[i]) = u
    <3>1. /\ m.key \in HandlerFor /\ m.payload \in Input /\ ClaimDay(m.id) \in Nat
          /\ UpdatesOf(m) \in Seq(Update) /\ Len(UpdatesOf(m)) = Steps(m) /\ Steps(m) \in Nat
      BY <2>3, UpdatesType DEF CountInv
    <3>2. k \in 1..Len(UpdatesOf(m)) /\ effects[m.id] \in Nat
      BY <1>4, <2>1, <2>3, <2>4, <3>1
    <3> QED BY <2>3, <2>4, <3>1, <3>2
  <2>6. \A e \in EventIds : effects[e] <= effects'[e]
    BY <1>4, <2>1, <2>2
  <2>7. TakenBack(coll) \subseteq TakenBack(coll)' /\ taken <= taken1
    BY <1>5, <2>2, <2>6
  <2>8. ASSUME m.key = "order.cancelled", k = Rank(coll) PROVE taken + 1 <= taken1
    <3>1. m \in Events
      BY <2>1, <2>2, <2>3, AtWork DEF Events, PublishedCopies, CountInv
    <3>2. m \in Cancelled'
      BY <2>2, <2>8, <3>1, EventsGrow DEF Cancelled
    <3>3. m \notin TakenBack(coll) /\ m \in TakenBack(coll)'
      BY <1>4, <2>1, <2>2, <2>8, <3>2 DEF TakenBack
    <3>4. Cardinality(TakenBack(coll) \cup {m}) = taken + 1
      BY <1>4, <3>3, FS_AddElement
    <3>5. TakenBack(coll) \cup {m} \subseteq TakenBack(coll)'
      BY <2>7, <3>3
    <3> QED BY <1>4, <3>4, <3>5, FS_Subset
  <2>9. \/ rows' = rows
        \/ \E d \in u.filter :
             /\ DOMAIN rows' = DOMAIN rows \cup {d}
             /\ d \notin DOMAIN rows => u.upsert
             /\ SumIn(rows', "orders_count", D) = sum + Added(u.inc, "orders_count", d, D)
    <3> DEFINE after == rows'
    <3>1. /\ IsRows(rows) /\ IsFiniteSet(DOMAIN rows)
          /\ u \in Update /\ after \in UpdateOne(rows, u)
      BY <2>2, <2>5 DEF CountInv, PipelineInv, TypeOK, FiniteInv
    <3> HIDE DEF u, after
    <3>2. \/ after = rows /\ ~u.upsert /\ Matches(rows, u) = {}
          \/ \E d \in u.filter :
               /\ DOMAIN after = DOMAIN rows \cup {d}
               /\ d \notin DOMAIN rows => u.upsert /\ Matches(rows, u) = {}
               /\ \A field \in Fields, E \in SUBSET Docs :
                    SumIn(after, field, E)
                      = SumIn(rows, field, E) + Added(u.inc, field, d, E)
      BY <3>1, UpdateTotal
    <3> HIDE DEF D
    <3> QED BY <1>2, <3>2 DEF after
  <2>10. CASE rows' = rows
    <3>1. SumIn(rows', "orders_count", D) = sum /\ Cardinality(DOMAIN rows' \cap D) = size
      BY <2>10
    <3> HIDE DEF D, sum, size, taken, taken1
    <3> QED BY <1>1, <1>3, <1>4, <2>7, <3>1
  <2>11. ASSUME NEW d \in u.filter, DOMAIN rows' = DOMAIN rows \cup {d},
                d \notin DOMAIN rows => u.upsert,
                SumIn(rows', "orders_count", D) = sum + Added(u.inc, "orders_count", d, D)
         PROVE  SumIn(rows', "orders_count", D) >= Cardinality(DOMAIN rows' \cap D) - taken1
    <3>1. d \notin D => DOMAIN rows' \cap D = DOMAIN rows \cap D
      BY <2>11
    <3>2. d \in D => DOMAIN rows' \cap D = (DOMAIN rows \cap D) \cup {d}
      BY <2>11
    <3> DEFINE size1 == Cardinality(DOMAIN rows' \cap D)
    <3>3. CASE d \notin D
      <4>1. size1 = size
        BY <3>1, <3>3
      <4>2. SumIn(rows', "orders_count", D) = sum
        BY <1>3, <2>11, <3>3 DEF Added
      <4> HIDE DEF D, sum, size, taken, taken1, size1
      <4> QED BY <1>1, <1>3, <1>4, <2>7, <4>1, <4>2 DEF size1
    <3>4. CASE d \in D
      <4>1. size1 = IF d \in DOMAIN rows THEN size ELSE size + 1
        <5>1. CASE d \in DOMAIN rows
          <6>1. DOMAIN rows' \cap D = DOMAIN rows \cap D
            BY <3>2, <3>4, <5>1
          <6> QED BY <5>1, <6>1
        <5>2. CASE d \notin DOMAIN rows
          BY <1>2, <3>2, <3>4, <5>2, FS_AddElement
        <5> QED BY <5>1, <5>2
      <4>2. SumIn(rows', "orders_count", D) = sum + u.inc.orders_count
        BY <2>11, <3>4 DEF Added
      <4>3. \/ u.inc.orders_count = 1
            \/ ~u.upsert /\ u.inc.orders_count = 0
            \/ /\ ~u.upsert /\ u.inc.orders_count = -1
               /\ m.key = "order.cancelled" /\ k = Rank(coll)
        <5> DEFINE today == ClaimDay(m.id)
        <5>1. today \in Nat /\ k \in 1..Len(Handle(m.key, m.payload, today))
          BY <2>5 DEF UpdatesOf
        <5>2. u = Handle(m.key, m.payload, today)[k]
          BY DEF UpdatesOf
        <5> HIDE DEF k, u, today
        <5> QED BY <2>5, <2>11, <3>4, <5>1, <5>2, OrdersUpdate
      <4> HIDE DEF D, sum, size, taken, taken1, size1, k, u
      <4> QED BY <1>1, <1>3, <1>4, <2>7, <2>8, <2>11, <4>1, <4>2, <4>3 DEF size1
    <3> QED BY <3>3, <3>4
  <2> HIDE DEF D, sum, taken1, u
  <2> QED BY <2>9, <2>10, <2>11
<1>8. ASSUME LeavesLedger \/ \E i \in Instances : Claims(i) \/ Abandons(i)
      PROVE  SumIn(rows', "orders_count", D) >= Cardinality(DOMAIN rows' \cap D) - taken1
  BY <1>6, <1>8 DEF LeavesLedger, Claims, Abandons, Others
<1>9. SumIn(rows', "orders_count", D) >= Cardinality(DOMAIN rows' \cap D) - taken1
  <2>1. LeavesLedger \/ \E i \in Instances : Claims(i) \/ Makes(i) \/ Abandons(i)
    BY StepKinds, NoExpiry DEF CountInv
  <2>2. ASSUME NEW i \in Instances, Claims(i) \/ Abandons(i)
        PROVE  SumIn(rows', "orders_count", D) >= Cardinality(DOMAIN rows' \cap D) - taken1
    <3> HIDE DEF D, taken1
    <3> QED BY <1>8, <2>2
  <2> HIDE DEF D, taken1
  <2> QED BY <1>7, <1>8, <2>1, <2>2
<1> QED BY <1>9

(* A cancellation takes back one order at most in each collection: while   *)
(* no marker expires, the orders of a collection fall below the number of  *)
(* its rows by no more than the cancellations published, whatever else is  *)
(* published, redelivered or interrupted, on any number of instances.      *)
THEOREM CancelledOnceHolds ==
  ASSUME DedupTTL > Horizon
  PROVE  Spec => []CancelledOnce
<1>1. Init => CancelInv
  <2> SUFFICES ASSUME Init, NEW coll \in RowColls
               PROVE  SumIn(rows, "orders_count", DocsOf(coll))
                        >= Cardinality(DOMAIN rows \cap DocsOf(coll))
                             - Cardinality(TakenBack(coll))
    BY DEF CancelInv
  <2>1. DOMAIN rows \cap DocsOf(coll) = {} /\ TakenBack(coll) = {}
    BY DEF Init, TakenBack, Cancelled, Events, Published
  <2>2. SumIn(rows, "orders_count", DocsOf(coll)) = 0
    BY <2>1, SumEmpty, Zenon DEF SumIn
  <2>3. Cardinality(DOMAIN rows \cap DocsOf(coll)) = 0 /\ Cardinality(TakenBack(coll)) = 0
    BY <2>1, FS_EmptySet, Zenon
  <2> QED BY <2>2, <2>3
<1>2. CancelInv /\ CountInv /\ CountInv' /\ [Next]_vars => CancelInv'
  BY CancelStep
<1>3. CancelInv /\ CountInv => CancelledOnce
  <2> SUFFICES ASSUME CancelInv, CountInv, NEW coll \in RowColls
               PROVE  Total("orders_count", RowsOf(coll))
                        >= Cardinality(RowsOf(coll)) - Cardinality(Cancelled)
    BY DEF CancelledOnce, RowColls
  <2>1. RowsOf(coll) = DOMAIN rows \cap DocsOf(coll)
    BY DEF RowsOf, DocsOf, CountInv, PipelineInv, TypeOK, IsRows
  <2>2. /\ Total("orders_count", RowsOf(coll)) = SumIn(rows, "orders_count", DocsOf(coll))
        /\ Cardinality(RowsOf(coll)) = Cardinality(DOMAIN rows \cap DocsOf(coll))
    BY <2>1, Zenon DEF Total, SumIn
  <2>3. /\ IsFiniteSet(TakenBack(coll)) /\ IsFiniteSet(Cancelled) /\ IsFiniteSet(RowsOf(coll))
        /\ Cardinality(TakenBack(coll)) <= Cardinality(Cancelled)
    BY <2>1, FS_Subset DEF TakenBack, CountInv, EventsInv, FiniteInv
  <2>4. /\ Cardinality(TakenBack(coll)) \in Nat /\ Cardinality(Cancelled) \in Nat
        /\ Cardinality(RowsOf(coll)) \in Nat
    BY <2>3, FS_CardinalityType
  <2>5. Total("orders_count", RowsOf(coll)) \in Int
    <3>1. IntOn(Column(rows, "orders_count"), RowsOf(coll))
      BY CounterFields DEF IntOn, Column, RowsOf, Fields, IsRows, Row, CountInv, PipelineInv, TypeOK
    <3> QED BY <2>3, <3>1, SumType DEF Total
  <2>6. Total("orders_count", RowsOf(coll))
          >= Cardinality(RowsOf(coll)) - Cardinality(TakenBack(coll))
    BY <2>2 DEF CancelInv
  <2> QED BY <2>3, <2>4, <2>5, <2>6
<1>4. Spec => []CountInv
  BY CountInvHolds
<1> QED BY <1>1, <1>2, <1>3, <1>4, PTL DEF Spec

-----------------------------------------------------------------------------
(* Amounts only add up *)

(* No event lowers a sum. *)
NoNegativeAmounts == \A m \in Messages : Handled(m) => m.payload.amount >= 0

AmountFields == {"revenue_sum", "delivery_ms_sum", "delivery_ms_count"}

(* Nor does an update still to be made. *)
Grows(p) == \A k \in 1..Len(p), field \in AmountFields : p[k].inc[field] >= 0

GrowInv == \A i \in Instances : pc[i] = "update" => Grows(plan[i])

PositiveInv == \A d \in DOMAIN rows, field \in AmountFields : rows[d].n[field] >= 0

(* The first updates of every handler are those of the restaurant, of the  *)
(* branch, and, but for deliveries, of the platform.                       *)
LEMMA HandlerShape ==
  ASSUME NEW key \in HandlerFor, NEW in \in Input, in.amount >= 0, NEW today \in Nat
  PROVE  LET h  == Handle(key, in, today)
             on == parseEventDate(in.at, today)
         IN  /\ Len(h) \in Nat /\ Len(h) >= 2
             /\ h[1].filter = {RestaurantDoc(in.restaurant, on)}
             /\ h[2].filter = {BranchDoc(in.branch, on)}
             /\ h[1].inc = h[2].inc /\ h[1].upsert = h[2].upsert
             /\ Len(h) > 2 => /\ h[3].filter \subseteq PlatformDocs(on)
                             /\ h[2].inc = h[3].inc /\ h[2].upsert = h[3].upsert
             /\ \A k \in 1..Len(h) : k > 3 => \A d \in h[k].filter : d.coll = "agg_product_day"
             /\ \A k \in 1..Len(h), field \in AmountFields : h[k].inc[field] >= 0
<1> DEFINE h  == Handle(key, in, today)
           on == parseEventDate(in.at, today)
<1>1. CASE key = "order.placed"
  <2> DEFINE cur == IF in.currency = NoCurrency THEN DefaultCurrency ELSE in.currency
  <2>1. /\ Len(h) = 3 + Len(in.items) /\ Len(in.items) \in Nat
        /\ h[1] = RestaurantDayUpsert(in.restaurant, on, cur, in.amount)
        /\ h[2] = BranchDayUpsert(in.branch, on, cur, in.amount)
        /\ h[3] = PlatformDayUpsert(on, cur, in.amount)
        /\ \A j \in 1..Len(in.items) : h[3 + j] = ItemUpdate(in.items[j], in.restaurant, on)
    BY <1>1, PlacedShape
  <2>0. cur \in Currencies
    BY CurrencyAssumption DEF Input
  <2> HIDE DEF h, on, cur
  <2>2. /\ h[1].filter = {RestaurantDoc(in.restaurant, on)}
        /\ h[2].filter = {BranchDoc(in.branch, on)}
        /\ h[1].inc = h[2].inc /\ h[1].upsert = h[2].upsert
        /\ h[3].filter = {PlatformDoc(cur, on)}
        /\ h[2].inc = h[3].inc /\ h[2].upsert = h[3].upsert
    BY <2>1 DEF RestaurantDayUpsert, BranchDayUpsert, PlatformDayUpsert, Upsert
  <2>3. \A field \in AmountFields :
          h[1].inc[field] >= 0 /\ h[2].inc[field] >= 0 /\ h[3].inc[field] >= 0
    BY <2>1 DEF RestaurantDayUpsert, BranchDayUpsert, PlatformDayUpsert, Upsert, Order, Inc,
                AmountFields
  <2>4. ASSUME NEW k \in 1..Len(h), k > 3
        PROVE  /\ \A d \in h[k].filter : d.coll = "agg_product_day"
               /\ \A field \in AmountFields : h[k].inc[field] >= 0
    <3>1. k - 3 \in 1..Len(in.items) /\ k = 3 + (k - 3)
      BY <2>1, <2>4
    <3>2. h[k] = ItemUpdate(in.items[k - 3], in.restaurant, on)
      BY <2>1, <3>1
    <3>3. ASSUME NEW p, NEW r, NEW qty
          PROVE  /\ \A d \in ProductDayUpsert(p, r, on, qty).filter : d.coll = "agg_product_day"
                 /\ \A field \in AmountFields : ProductDayUpsert(p, r, on, qty).inc[field] >= 0
      BY DEF ProductDayUpsert, Upsert, ProductDoc, Sale, Inc, AmountFields
    <3>4. NoCall.filter = {} /\ \A field \in AmountFields : NoCall.inc[field] >= 0
      BY DEF NoCall, Modify, Inc, AmountFields
    <3> QED BY <3>2, <3>3, <3>4 DEF ItemUpdate
  <2>5. \A k \in 1..Len(h), field \in AmountFields : h[k].inc[field] >= 0
    <3>1. ASSUME NEW k \in 1..Len(h), NEW field \in AmountFields PROVE h[k].inc[field] >= 0
      <4>1. k = 1 \/ k = 2 \/ k = 3 \/ k > 3
        BY <2>1
      <4> QED BY <2>3, <2>4, <4>1
    <3> QED BY <3>1
  <2>6. Len(h) \in Nat /\ Len(h) >= 2
    BY <2>1
  <2>7. h[3].filter \subseteq PlatformDocs(on)
    BY <2>0, <2>2 DEF PlatformDocs
  <2> QED BY <2>2, <2>4, <2>5, <2>6, <2>7 DEF h, on
<1>2. CASE key = "order.delivered"
  <2>1. h = << RestaurantDayIncrDelivery(in.restaurant, on, in.amount),
               BranchDayIncrDelivery(in.branch, on, in.amount) >>
    BY <1>2 DEF Handle, HandleOrderDelivered
  <2>2. /\ RestaurantDayIncrDelivery(in.restaurant, on, in.amount)
             = Modify({RestaurantDoc(in.restaurant, on)}, Delivery(in.amount))
        /\ BranchDayIncrDelivery(in.branch, on, in.amount)
             = Modify({BranchDoc(in.branch, on)}, Delivery(in.amount))
        /\ \A field \in AmountFields : Delivery(in.amount)[field] >= 0
    BY DEF RestaurantDayIncrDelivery, BranchDayIncrDelivery, Delivery, Inc, AmountFields
  <2> HIDE DEF h, on
  <2>3. /\ Len(h) = 2
        /\ h[1].filter = {RestaurantDoc(in.restaurant, on)}
        /\ h[2].filter = {BranchDoc(in.branch, on)}
        /\ h[1].inc = Delivery(in.amount) /\ h[2].inc = Delivery(in.amount)
        /\ h[1].upsert = h[2].upsert
    <3>1. /\ Len(h) = 2
          /\ h[1] = RestaurantDayIncrDelivery(in.restaurant, on, in.amount)
          /\ h[2] = BranchDayIncrDelivery(in.branch, on, in.amount)
      BY <2>1
    <3>2. /\ h[1] = Modify({RestaurantDoc(in.restaurant, on)}, Delivery(in.amount))
          /\ h[2] = Modify({BranchDoc(in.branch, on)}, Delivery(in.amount))
      BY <2>2, <3>1
    <3>3. /\ h[1].filter = {RestaurantDoc(in.restaurant, on)}
          /\ h[1].inc = Delivery(in.amount) /\ h[1].upsert = FALSE
      BY <3>2 DEF Modify
    <3>4. /\ h[2].filter = {BranchDoc(in.branch, on)}
          /\ h[2].inc = Delivery(in.amount) /\ h[2].upsert = FALSE
      BY <3>2 DEF Modify
    <3> QED BY <3>1, <3>3, <3>4, Zenon
  <2> QED BY <2>2, <2>3 DEF h, on
<1>3. CASE key = "payment.succeeded"
  <2>1. h = << RestaurantDayIncrRevenue(in.restaurant, on, in.amount),
               BranchDayIncrRevenue(in.branch, on, in.amount),
               PlatformDayIncrRevenue(on, in.amount) >>
    BY <1>3 DEF Handle, HandlePaymentSucceeded
  <2>2. /\ RestaurantDayIncrRevenue(in.restaurant, on, in.amount)
             = Modify({RestaurantDoc(in.restaurant, on)}, Revenue(in.amount))
        /\ BranchDayIncrRevenue(in.branch, on, in.amount)
             = Modify({BranchDoc(in.branch, on)}, Revenue(in.amount))
        /\ PlatformDayIncrRevenue(on, in.amount) = Modify(PlatformDocs(on), Revenue(in.amount))
        /\ \A field \in AmountFields : Revenue(in.amount)[field] >= 0
    BY DEF RestaurantDayIncrRevenue, BranchDayIncrRevenue, PlatformDayIncrRevenue, Revenue, Inc,
       AmountFields
  <2> HIDE DEF h, on
  <2>3. /\ Len(h) = 3
        /\ h[1].filter = {RestaurantDoc(in.restaurant, on)}
        /\ h[2].filter = {BranchDoc(in.branch, on)}
        /\ h[3].filter = PlatformDocs(on)
        /\ h[1].inc = Revenue(in.amount) /\ h[2].inc = Revenue(in.amount)
        /\ h[3].inc = Revenue(in.amount)
        /\ h[1].upsert = h[2].upsert /\ h[2].upsert = h[3].upsert
    <3>1. /\ Len(h) = 3
          /\ h[1] = RestaurantDayIncrRevenue(in.restaurant, on, in.amount)
          /\ h[2] = BranchDayIncrRevenue(in.branch, on, in.amount)
          /\ h[3] = PlatformDayIncrRevenue(on, in.amount)
      BY <2>1
    <3>2. /\ h[1] = Modify({RestaurantDoc(in.restaurant, on)}, Revenue(in.amount))
          /\ h[2] = Modify({BranchDoc(in.branch, on)}, Revenue(in.amount))
          /\ h[3] = Modify(PlatformDocs(on), Revenue(in.amount))
      BY <2>2, <3>1
    <3>3. /\ h[1].filter = {RestaurantDoc(in.restaurant, on)}
          /\ h[1].inc = Revenue(in.amount) /\ h[1].upsert = FALSE
      BY <3>2 DEF Modify
    <3>4. /\ h[2].filter = {BranchDoc(in.branch, on)}
          /\ h[2].inc = Revenue(in.amount) /\ h[2].upsert = FALSE
      BY <3>2 DEF Modify
    <3>5. /\ h[3].filter = PlatformDocs(on)
          /\ h[3].inc = Revenue(in.amount) /\ h[3].upsert = FALSE
      BY <3>2 DEF Modify
    <3> QED BY <3>1, <3>3, <3>4, <3>5, Zenon
  <2> QED BY <2>2, <2>3 DEF h, on
<1>4. CASE key = "order.cancelled"
  <2>1. h = << RestaurantDayDecrOrder(in.restaurant, on),
               BranchDayDecrOrder(in.branch, on),
               PlatformDayDecrOrder(on) >>
    BY <1>4 DEF Handle, HandleOrderCancelled
  <2>2. /\ RestaurantDayDecrOrder(in.restaurant, on)
             = Modify({RestaurantDoc(in.restaurant, on)}, Cancellation)
        /\ BranchDayDecrOrder(in.branch, on) = Modify({BranchDoc(in.branch, on)}, Cancellation)
        /\ PlatformDayDecrOrder(on) = Modify(PlatformDocs(on), Cancellation)
        /\ \A field \in AmountFields : Cancellation[field] >= 0
    BY DEF RestaurantDayDecrOrder, BranchDayDecrOrder, PlatformDayDecrOrder, Cancellation, Inc,
       AmountFields
  <2> HIDE DEF h, on
  <2>3. /\ Len(h) = 3
        /\ h[1].filter = {RestaurantDoc(in.restaurant, on)}
        /\ h[2].filter = {BranchDoc(in.branch, on)}
        /\ h[3].filter = PlatformDocs(on)
        /\ h[1].inc = Cancellation /\ h[2].inc = Cancellation /\ h[3].inc = Cancellation
        /\ h[1].upsert = h[2].upsert /\ h[2].upsert = h[3].upsert
    <3>1. /\ Len(h) = 3
          /\ h[1] = RestaurantDayDecrOrder(in.restaurant, on)
          /\ h[2] = BranchDayDecrOrder(in.branch, on)
          /\ h[3] = PlatformDayDecrOrder(on)
      BY <2>1
    <3>2. /\ h[1] = Modify({RestaurantDoc(in.restaurant, on)}, Cancellation)
          /\ h[2] = Modify({BranchDoc(in.branch, on)}, Cancellation)
          /\ h[3] = Modify(PlatformDocs(on), Cancellation)
      BY <2>2, <3>1
    <3>3. /\ h[1].filter = {RestaurantDoc(in.restaurant, on)}
          /\ h[1].inc = Cancellation /\ h[1].upsert = FALSE
      BY <3>2 DEF Modify
    <3>4. /\ h[2].filter = {BranchDoc(in.branch, on)}
          /\ h[2].inc = Cancellation /\ h[2].upsert = FALSE
      BY <3>2 DEF Modify
    <3>5. /\ h[3].filter = PlatformDocs(on)
          /\ h[3].inc = Cancellation /\ h[3].upsert = FALSE
      BY <3>2 DEF Modify
    <3> QED BY <3>1, <3>3, <3>4, <3>5, Zenon
  <2> QED BY <2>2, <2>3 DEF h, on
<1> QED BY <1>1, <1>2, <1>3, <1>4 DEF HandlerFor

LEMMA TailGrows ==
  ASSUME NEW p \in Seq(Update), p # <<>>, Grows(p)
  PROVE  Grows(Tail(p))
<1>1. \A k \in 1..Len(Tail(p)) : Tail(p)[k] = p[k + 1] /\ k + 1 \in 1..Len(p)
  OBVIOUS
<1> QED BY <1>1 DEF Grows

LEMMA GrowStep ==
  ASSUME NoNegativeAmounts, PipelineInv, GrowInv, [Next]_vars
  PROVE  GrowInv'
<1>1. ASSUME \A j \in Instances : Kept(j) PROVE GrowInv'
  BY <1>1 DEF GrowInv, Kept
<1>2. ASSUME NEW i \in Instances, Others(i), pc'[i] = "update" => Grows(plan'[i])
      PROVE  GrowInv'
  BY <1>2 DEF GrowInv, Others, Kept
<1>3. ASSUME NEW i \in Instances, Claims(i), pc'[i] = "update" PROVE Grows(plan'[i])
  <2> DEFINE m == Msg(i)
             h == Handle(m.key, m.payload, Today)
  <2>1. m \in Messages /\ Handled(m) /\ plan'[i] = h
    BY <1>3, AtWork DEF Claims
  <2>2. Today \in Nat
    BY BoundsAssumption, DivType DEF Today, PipelineInv, TypeOK
  <2>3. m.key \in HandlerFor /\ m.payload \in Input /\ m.payload.amount >= 0
    BY <2>1, MessagesAssumption DEF Handled, Message, NoNegativeAmounts
  <2> HIDE DEF m
  <2>4. \A k \in 1..Len(h), field \in AmountFields : h[k].inc[field] >= 0
    BY <2>2, <2>3, HandlerShape
  <2> QED BY <2>1, <2>4 DEF Grows
<1>4. ASSUME NEW i \in Instances, Makes(i) PROVE GrowInv'
  <2>1. pc'[i] = "update" => Grows(plan'[i])
    BY <1>4, NextUpdate, TailGrows DEF Makes, GrowInv
  <2> QED BY <1>2, <1>4, <2>1 DEF Makes
<1>5. ASSUME NEW i \in Instances, Claims(i) \/ Abandons(i) PROVE GrowInv'
  <2>1. CASE Claims(i)
    BY <1>2, <1>3, <2>1 DEF Claims
  <2>2. CASE Abandons(i)
    BY <1>2, <2>2 DEF Abandons
  <2> QED BY <1>5, <2>1, <2>2
<1>6. ASSUME NEW e \in EventIds, ExpireMarker(e) PROVE GrowInv'
  BY <1>1, <1>6 DEF ExpireMarker, loop, Kept
<1> QED BY <1>1, <1>4, <1>5, <1>6, StepKinds DEF LeavesLedger

(* The next update of a handler lowers no sum. *)
LEMMA NextGrows ==
  ASSUME PipelineInv, GrowInv, NEW i \in Instances, pc[i] = "update"
  PROVE  /\ plan[i] \in Seq(Update) /\ plan[i] # <<>> /\ Head(plan[i]) \in Update
         /\ \A field \in AmountFields : Head(plan[i]).inc[field] \in Nat
<1>1. plan[i] \in Seq(Update) /\ plan[i] # <<>> /\ Head(plan[i]) \in Update
  BY NextUpdate
<1>2. Head(plan[i]) = plan[i][1] /\ 1 \in 1..Len(plan[i])
  BY <1>1
<1>3. \A field \in AmountFields : Head(plan[i]).inc[field] >= 0
  BY <1>2 DEF GrowInv, Grows
<1>4. \A field \in AmountFields : Head(plan[i]).inc[field] \in Int
  BY <1>1, CounterFields DEF Update, AmountFields, Fields
<1> QED BY <1>1, <1>3, <1>4

(* UpdateTotal, for the update that a step makes. *)
LEMMA UpdateMade ==
  ASSUME PipelineInv, FiniteInv, NEW i \in Instances, Makes(i)
  PROVE  LET u == Head(plan[i])
         IN  \/ rows' = rows /\ ~u.upsert /\ Matches(rows, u) = {}
             \/ \E d \in u.filter :
                  /\ DOMAIN rows' = DOMAIN rows \cup {d}
                  /\ d \notin DOMAIN rows => u.upsert
                  /\ \A field \in Fields, D \in SUBSET Docs :
                       SumIn(rows', field, D) = SumIn(rows, field, D) + Added(u.inc, field, d, D)
<1> DEFINE u == Head(plan[i])
           after == rows'
<1>1. /\ IsRows(rows) /\ IsFiniteSet(DOMAIN rows)
      /\ u \in Update /\ after \in UpdateOne(rows, u)
  BY NextUpdate DEF Makes, PipelineInv, TypeOK, FiniteInv
<1> HIDE DEF u, after
<1>2. \/ after = rows /\ ~u.upsert /\ Matches(rows, u) = {}
      \/ \E d \in u.filter :
           /\ DOMAIN after = DOMAIN rows \cup {d}
           /\ d \notin DOMAIN rows => u.upsert /\ Matches(rows, u) = {}
           /\ \A field \in Fields, D \in SUBSET Docs :
                SumIn(after, field, D) = SumIn(rows, field, D) + Added(u.inc, field, d, D)
  BY <1>1, UpdateTotal
<1>3. \/ after = rows /\ ~u.upsert /\ Matches(rows, u) = {}
      \/ \E d \in u.filter :
           /\ DOMAIN after = DOMAIN rows \cup {d}
           /\ d \notin DOMAIN rows => u.upsert
           /\ \A field \in Fields, D \in SUBSET Docs :
                SumIn(after, field, D) = SumIn(rows, field, D) + Added(u.inc, field, d, D)
  BY <1>2
<1> QED BY <1>3 DEF u, after

(* Rows keep sums that are not negative. *)
LEMMA PositiveStep ==
  ASSUME PipelineInv, GrowInv, PositiveInv, [Next]_vars
  PROVE  PositiveInv'
<1>1. CASE UNCHANGED rows
  BY <1>1 DEF PositiveInv
<1>2. ASSUME NEW i \in Instances, Makes(i) PROVE PositiveInv'
  <2> DEFINE u == Head(plan[i])
             after == rows'
  <2>1. /\ u \in Update /\ after \in UpdateOne(rows, u)
        /\ \A field \in AmountFields : u.inc[field] \in Nat
    BY <1>2, NextGrows DEF Makes
  <2>2. IsRows(rows)
    BY DEF PipelineInv, TypeOK
  <2> HIDE DEF u, after
  <2>3. ASSUME NEW d, NEW row, after = Put(rows, d, row),
               \A field \in AmountFields : row.n[field] >= 0
        PROVE  \A x \in DOMAIN after, field \in AmountFields : after[x].n[field] >= 0
    <3>1. /\ DOMAIN after = DOMAIN rows \cup {d}
          /\ after[d] = row /\ \A x \in DOMAIN rows \ {d} : after[x] = rows[x]
      BY <2>3 DEF Put
    <3> QED BY <2>3, <3>1 DEF PositiveInv
  <2>4. \A x \in DOMAIN after, field \in AmountFields : after[x].n[field] >= 0
    <3>1. CASE Matches(rows, u) # {}
      <4>1. PICK d \in u.filter : d \in DOMAIN rows /\ after = Put(rows, d, IncRow(rows[d], u))
        BY <2>1, <3>1 DEF UpdateOne, Matches
      <4> DEFINE row == IncRow(rows[d], u)
      <4>2. ASSUME NEW field \in AmountFields PROVE row.n[field] >= 0
        <5>1. field \in Fields /\ rows[d].n \in Counters /\ u.inc \in Counters
          BY <2>1, <2>2, <4>1 DEF AmountFields, Fields, IsRows, Row, Update
        <5>2. row.n[field] = rows[d].n[field] + u.inc[field] /\ rows[d].n[field] \in Int
          BY <5>1, CounterFields DEF IncRow
        <5>3. rows[d].n[field] >= 0
          BY <4>1 DEF PositiveInv
        <5> HIDE DEF row
        <5> QED BY <2>1, <5>2, <5>3
      <4>3. after = Put(rows, d, row)
        BY <4>1
      <4> HIDE DEF row
      <4> QED BY <2>3, <4>2, <4>3
    <3>2. CASE Matches(rows, u) = {} /\ u.upsert
      <4>1. PICK d \in u.filter : after = Put(rows, d, [n |-> u.inc, currency |-> u.currency])
        BY <2>1, <3>2 DEF UpdateOne
      <4> DEFINE row == [n |-> u.inc, currency |-> u.currency]
      <4>2. \A field \in AmountFields : row.n[field] >= 0
        BY <2>1
      <4>3. after = Put(rows, d, row)
        BY <4>1
      <4> HIDE DEF row
      <4> QED BY <2>3, <4>2, <4>3
    <3>3. CASE Matches(rows, u) = {} /\ ~u.upsert
      BY <2>1, <3>3 DEF UpdateOne, PositiveInv
    <3> QED BY <3>1, <3>2, <3>3
  <2> QED BY <2>4 DEF after, PositiveInv
<1> QED BY <1>1, <1>2, RowSteps

(* What holds of the rows and of the handlers at work. *)
RisingInv == PipelineInv /\ FiniteInv /\ GrowInv /\ PositiveInv

LEMMA RisingInvHolds ==
  ASSUME NoNegativeAmounts
  PROVE  Spec => []RisingInv
<1>1. Init => RisingInv
  <2> SUFFICES ASSUME Init PROVE GrowInv /\ PositiveInv
    BY PipelineInit, FiniteInit DEF RisingInv
  <2>1. DOMAIN rows = {} /\ \A i \in Instances : pc[i] = "down"
    BY DEF Init
  <2> QED BY <2>1 DEF GrowInv, PositiveInv
<1>2. RisingInv /\ [Next]_vars => RisingInv'
  BY PipelineStep, FiniteStep, GrowStep, PositiveStep DEF RisingInv
<1> QED BY <1>1, <1>2, PTL DEF Spec

(* No handler takes revenue back from a row. *)
LEMMA RevenueStays ==
  ASSUME RisingInv, [Next]_vars, NEW d \in DOMAIN rows
  PROVE  /\ d \in DOMAIN rows'
         /\ rows'[d].n.revenue_sum >= rows[d].n.revenue_sum
<1>1. IsRows(rows) /\ rows[d].n.revenue_sum \in Int
  BY DEF RisingInv, PipelineInv, TypeOK, IsRows, Row, Counters
<1>2. CASE UNCHANGED rows
  BY <1>1, <1>2
<1>3. ASSUME NEW i \in Instances, Makes(i)
      PROVE  /\ d \in DOMAIN rows'
             /\ rows'[d].n.revenue_sum >= rows[d].n.revenue_sum
  <2> DEFINE u == Head(plan[i])
             after == rows'
             old == rows[d].n.revenue_sum
             new == rows[d].n.revenue_sum + u.inc.revenue_sum
  <2>1. u \in Update /\ after \in UpdateOne(rows, u) /\ u.inc["revenue_sum"] \in Nat
    BY <1>3, NextGrows DEF Makes, RisingInv, AmountFields
  <2>2. old \in Int /\ new >= old
    BY <1>1, <2>1
  <2>3. IncRow(rows[d], u).n.revenue_sum = new
    BY DEF IncRow, AddCounters, Inc
  <2> HIDE DEF u, after, old, new
  <2>4. d \in DOMAIN after /\ (after[d] = rows[d] \/ after[d] = IncRow(rows[d], u))
    <3>1. CASE Matches(rows, u) # {}
      BY <2>1, <3>1 DEF UpdateOne, Put, Matches
    <3>2. CASE Matches(rows, u) = {} /\ u.upsert
      <4>1. PICK x \in u.filter : after = Put(rows, x, [n |-> u.inc, currency |-> u.currency])
        BY <2>1, <3>2 DEF UpdateOne
      <4>2. x # d
        BY <3>2 DEF Matches
      <4> QED BY <4>1, <4>2 DEF Put
    <3>3. CASE Matches(rows, u) = {} /\ ~u.upsert
      BY <2>1, <3>3 DEF UpdateOne
    <3> QED BY <3>1, <3>2, <3>3
  <2>5. after[d].n.revenue_sum >= old
    <3>1. rows[d].n.revenue_sum >= old
      BY <2>2 DEF old
    <3> QED BY <2>2, <2>3, <2>4, <3>1
  <2> QED BY <2>4, <2>5 DEF after, old
<1> QED BY <1>2, <1>3, RowSteps DEF RisingInv

(* The revenue of a row is a number, and not negative. *)
LEMMA RevenueType ==
  ASSUME RisingInv
  PROVE  /\ IsFiniteSet(DOMAIN rows)
         /\ \A d \in DOMAIN rows : rows[d].n.revenue_sum \in Nat
<1>1. \A d \in DOMAIN rows : rows[d].n.revenue_sum \in Int
  BY DEF RisingInv, PipelineInv, TypeOK, IsRows, Row, Counters
<1>2. \A d \in DOMAIN rows : rows[d].n["revenue_sum"] >= 0
  BY DEF RisingInv, PositiveInv, AmountFields
<1> QED BY <1>1, <1>2 DEF RisingInv, FiniteInv

(* So a total of revenue never falls. *)
LEMMA RowsGrow ==
  ASSUME RisingInv, RisingInv', [Next]_vars, NEW D
  PROVE  /\ SumIn(rows, "revenue_sum", D) \in Int
         /\ SumIn(rows', "revenue_sum", D) \in Int
         /\ SumIn(rows, "revenue_sum", D) <= SumIn(rows', "revenue_sum", D)
<1> DEFINE f == Column(rows, "revenue_sum")
           g == Column(rows', "revenue_sum")
           S == DOMAIN rows \cap D
           T == DOMAIN rows' \cap D
<1>1. /\ IsFiniteSet(DOMAIN rows)
      /\ \A d \in DOMAIN rows : rows[d].n.revenue_sum \in Nat
  BY RevenueType
<1>2. /\ IsFiniteSet(DOMAIN rows')
      /\ \A d \in DOMAIN rows' : rows'[d].n.revenue_sum \in Nat
  <2>1. IsFiniteSet(DOMAIN rows')
    BY DEF RisingInv, FiniteInv
  <2>2. \A d \in DOMAIN rows' : rows'[d].n.revenue_sum \in Int
    BY DEF RisingInv, PipelineInv, TypeOK, IsRows, Row, Counters
  <2>3. \A d \in DOMAIN rows' : rows'[d].n["revenue_sum"] >= 0
    BY DEF RisingInv, PositiveInv, AmountFields
  <2> QED BY <2>1, <2>2, <2>3
<1>3. \A d \in DOMAIN rows : d \in DOMAIN rows'
                               /\ rows'[d].n.revenue_sum >= rows[d].n.revenue_sum
  BY RevenueStays
<1>4. S \in SUBSET T /\ IsFiniteSet(S) /\ IsFiniteSet(T)
  BY <1>1, <1>2, <1>3, FS_Subset
<1>5. /\ IntOn(f, S) /\ IntOn(g, S) /\ IntOn(g, T)
      /\ \A x \in T : g[x] >= 0
      /\ \A x \in S : f[x] <= g[x]
  BY <1>1, <1>2, <1>3 DEF IntOn, Column
<1> HIDE DEF f, g, S, T
<1>6. /\ SumFunctionOnSet(f, S) <= SumFunctionOnSet(g, S)
      /\ SumFunctionOnSet(g, S) <= SumFunctionOnSet(g, T)
      /\ SumFunctionOnSet(f, S) \in Int /\ SumFunctionOnSet(g, S) \in Int
      /\ SumFunctionOnSet(g, T) \in Int
  BY <1>4, <1>5, SumMonotonic, SumOfSubset, SumType
<1>7. /\ SumFunctionOnSet(f, S) <= SumFunctionOnSet(g, T)
      /\ SumFunctionOnSet(f, S) \in Int /\ SumFunctionOnSet(g, T) \in Int
  BY <1>6
<1> QED BY <1>7 DEF SumIn, f, g, S, T

(* The rows have at least what the placed orders have added. *)
RowFloor ==
  \A D \in SUBSET Docs :
    SumIn(rows, "revenue_sum", D) >= SumFunctionOnSet(Worths("revenue_sum", D), Placed)

LEMMA RowFloorStep ==
  ASSUME DedupTTL > Horizon, CountInv, CountInv', RisingInv, RisingInv', RowFloor,
         [Next]_vars
  PROVE  RowFloor'
<1> SUFFICES ASSUME NEW D \in SUBSET Docs
             PROVE  SumIn(rows', "revenue_sum", D)
                      >= SumFunctionOnSet(Worths("revenue_sum", D)', Placed')
  BY DEF RowFloor
<1> DEFINE sum == SumFunctionOnSet(Worths("revenue_sum", D), Placed)
           sum2 == SumFunctionOnSet(Worths("revenue_sum", D)', Placed')
           x == SumIn(rows, "revenue_sum", D)
           y == SumIn(rows', "revenue_sum", D)
           gain(i) == Gain(Head(plan[i]), "revenue_sum", D)
<1>1. x \in Int /\ y \in Int /\ x <= y
  BY RowsGrow
<1>2. x >= sum
  BY DEF RowFloor
<1>3. "revenue_sum" \in Fields
  BY DEF Fields
<1>4. /\ sum \in Int
      /\ \/ sum2 = sum
         \/ \E i \in Instances :
              /\ Makes(i)
              /\ Head(plan[i]) = NoCall
                   \/ (Head(plan[i]).upsert /\ \E d : Head(plan[i]).filter = {d})
              /\ sum2 = sum + gain(i)
  BY <1>3, WorthsStep DEF CountInv
<1>5. ASSUME NEW i \in Instances, Makes(i),
             Head(plan[i]) = NoCall
               \/ (Head(plan[i]).upsert /\ \E d : Head(plan[i]).filter = {d}),
             sum2 = sum + gain(i)
      PROVE  y >= sum2
  <2>1. y = x + gain(i)
    BY <1>3, <1>5, GainMade DEF CountInv
  <2>2. gain(i) \in Int
    BY <1>3, <1>5, NextUpdate, CounterFields DEF Gain, Update, Makes, CountInv
  <2> HIDE DEF sum, sum2, x, y, gain
  <2> QED BY <1>1, <1>2, <1>4, <1>5, <2>1, <2>2
<1> HIDE DEF sum, sum2, x, y, gain
<1>6. y >= sum2
  BY <1>1, <1>2, <1>4, <1>5
<1> QED BY <1>6 DEF y, sum2

LEMMA RowFloorHolds ==
  ASSUME DedupTTL > Horizon, NoNegativeAmounts
  PROVE  Spec => [](CountInv /\ RowFloor)
<1>1. Init /\ CountInv => RowFloor
  <2> SUFFICES ASSUME Init, CountInv, NEW D \in SUBSET Docs
               PROVE  SumIn(rows, "revenue_sum", D)
                        >= SumFunctionOnSet(Worths("revenue_sum", D), Placed)
    BY DEF RowFloor
  <2>1. DOMAIN rows \cap D = {} /\ Placed = {}
    BY DEF Init, Placed, Events, Published
  <2>2. SumIn(rows, "revenue_sum", D) = SumFunctionOnSet(Column(rows, "revenue_sum"), {})
    BY <2>1, Zenon DEF SumIn
  <2>3. SumFunctionOnSet(Worths("revenue_sum", D), Placed)
          = SumFunctionOnSet(Worths("revenue_sum", D), {})
    BY <2>1, Zenon
  <2> QED BY <2>2, <2>3, SumEmpty
<1>2. RowFloor /\ CountInv /\ CountInv' /\ RisingInv /\ RisingInv' /\ [Next]_vars => RowFloor'
  BY RowFloorStep
<1>3. Spec => []CountInv
  BY CountInvHolds
<1>4. Spec => []RisingInv
  BY RisingInvHolds
<1> QED BY <1>1, <1>2, <1>3, <1>4, PTL DEF Spec

-----------------------------------------------------------------------------
(* Branches and their restaurant *)

(* One instance consumes, and each branch of the workload belongs to one   *)
(* restaurant.                                                             *)
OneInstance == \E i : Instances = {i}

OwnBranches ==
  \A m, n \in Messages :
    Handled(m) /\ Handled(n) /\ m.payload.branch = n.payload.branch
      => m.payload.restaurant = n.payload.restaurant

(* The branches all of whose events are of r. *)
BranchesFor(r) ==
  {b \in Branches : \A m \in Messages :
     Handled(m) /\ m.payload.branch = b => m.payload.restaurant = r}

(* A document, and those that are updated right after it and like it: a    *)
(* restaurant and its branches; the branch and the platform, where there   *)
(* is one branch only.                                                     *)
BranchPair(r, day) ==
  [first |-> RestaurantDoc(r, day), next |-> {BranchDoc(b, day) : b \in BranchesFor(r)}]
PlatformPair(b, day) ==
  [first |-> BranchDoc(b, day), next |-> PlatformDocs(day)]

Pairs ==
  {BranchPair(r, day) : r \in Restaurants, day \in Nat}
    \cup {PlatformPair(b, day) : b \in {x \in Branches : Branches = {x}}, day \in Nat}

Follows(u, q) == u.filter \cap q.next # {}

(* Updates of which one that follows comes right after the like update of  *)
(* the first document.                                                     *)
Led(p) ==
  \A k \in 1..Len(p), q \in Pairs :
    /\ Follows(p[k], q) => p[k].filter \subseteq q.next
    /\ k < Len(p) /\ Follows(p[k + 1], q) =>
         /\ p[k].filter = {q.first}
         /\ p[k].inc = p[k + 1].inc /\ p[k].upsert = p[k + 1].upsert

(* An update that follows and is next either finds the first document, to  *)
(* which the like update has been made, or will find no document.          *)
LedInv ==
  \A i \in Instances : pc[i] = "update" =>
    /\ Led(plan[i])
    /\ \A q \in Pairs :
         Follows(Head(plan[i]), q) /\ Head(plan[i]).upsert => q.first \in DOMAIN rows

(* What the first document already has and those after it are going to get. *)
Unshared(i, q, field) ==
  IF pc[i] = "update" /\ Follows(Head(plan[i]), q) /\ q.first \in DOMAIN rows
    THEN Head(plan[i]).inc[field] ELSE 0

WithinInv ==
  \A q \in Pairs :
    /\ DOMAIN rows \cap q.next # {} => q.first \in DOMAIN rows
    /\ \A field \in AmountFields, i \in Instances :
         SumIn(rows, field, {q.first})
           >= SumIn(rows, field, q.next) + Unshared(i, q, field)

(* The pairs one by one. *)
LEMMA PairKinds ==
  ASSUME NEW q \in Pairs
  PROVE  \/ \E r \in Restaurants, day \in Nat : q = BranchPair(r, day)
         \/ \E b \in Branches, day \in Nat : Branches = {b} /\ q = PlatformPair(b, day)
BY DEF Pairs

(* So a handler that begins has its updates so led. *)
LEMMA HandlerLed ==
  ASSUME NoNegativeAmounts, NEW m \in Messages, Handled(m), NEW today \in Nat
  PROVE  LET h == Handle(m.key, m.payload, today)
         IN  Led(h) /\ \A q \in Pairs : ~Follows(h[1], q)
<1> DEFINE h  == Handle(m.key, m.payload, today)
           on == parseEventDate(m.payload.at, today)
           r1 == m.payload.restaurant
           b1 == m.payload.branch
<1>1. m.key \in HandlerFor /\ m.payload \in Input /\ m.payload.amount >= 0
  BY MessagesAssumption DEF Handled, Message, NoNegativeAmounts
<1>2. /\ Len(h) \in Nat /\ Len(h) >= 2
      /\ h[1].filter = {RestaurantDoc(r1, on)}
      /\ h[2].filter = {BranchDoc(b1, on)}
      /\ h[1].inc = h[2].inc /\ h[1].upsert = h[2].upsert
      /\ Len(h) > 2 => /\ h[3].filter \subseteq PlatformDocs(on)
                       /\ h[2].inc = h[3].inc /\ h[2].upsert = h[3].upsert
      /\ \A k \in 1..Len(h) : k > 3 => \A d \in h[k].filter : d.coll = "agg_product_day"
      /\ \A k \in 1..Len(h), field \in AmountFields : h[k].inc[field] >= 0
  BY <1>1, HandlerShape
<1>3. r1 \in Restaurants /\ b1 \in Branches
  BY <1>1 DEF Input
<1> HIDE DEF h, on, r1, b1
<1>4. ASSUME NEW k \in 1..Len(h), NEW d \in h[k].filter
      PROVE  /\ d.coll = "agg_branch_day" => k = 2 /\ d = BranchDoc(b1, on)
             /\ d.coll = "agg_platform_day" => k = 3 /\ d \in PlatformDocs(on)
  <2>1. k = 1 \/ k = 2 \/ k = 3 \/ k > 3
    BY <1>2
  <2>2. CASE k = 1
    BY <1>2, <2>2 DEF RestaurantDoc
  <2>3. CASE k = 2
    BY <1>2, <2>3 DEF BranchDoc
  <2>4. CASE k = 3
    <3>1. Len(h) > 2
      BY <1>2, <2>4
    <3>2. d \in PlatformDocs(on)
      BY <1>2, <2>4, <3>1
    <3>3. d.coll = "agg_platform_day"
      BY <3>2 DEF PlatformDocs, PlatformDoc
    <3> QED BY <2>4, <3>2, <3>3
  <2>5. CASE k > 3
    BY <1>2, <2>5
  <2> QED BY <2>1, <2>2, <2>3, <2>4, <2>5
<1>5. ASSUME NEW k \in 1..Len(h), NEW q \in Pairs, Follows(h[k], q)
      PROVE  /\ k = 2 \/ k = 3
             /\ h[k].filter \subseteq q.next
             /\ h[k - 1].filter = {q.first}
             /\ h[k - 1].inc = h[k].inc /\ h[k - 1].upsert = h[k].upsert
  <2>1. PICK d \in h[k].filter : d \in q.next
    BY <1>5 DEF Follows
  <2>2. ASSUME NEW r \in Restaurants, NEW day \in Nat, q = BranchPair(r, day)
        PROVE  /\ k = 2 \/ k = 3
               /\ h[k].filter \subseteq q.next
               /\ h[k - 1].filter = {q.first}
               /\ h[k - 1].inc = h[k].inc /\ h[k - 1].upsert = h[k].upsert
    <3>1. /\ q.first = RestaurantDoc(r, day)
          /\ q.next = {BranchDoc(b, day) : b \in BranchesFor(r)}
      BY <2>2 DEF BranchPair
    <3>2. PICK b \in BranchesFor(r) : d = BranchDoc(b, day)
      BY <2>1, <3>1
    <3>3. k = 2 /\ d = BranchDoc(b1, on)
      BY <1>4, <3>2 DEF BranchDoc
    <3>4. b = b1 /\ day = on
      BY <3>2, <3>3 DEF BranchDoc
    <3>5. r1 = r
      BY <3>2, <3>4 DEF BranchesFor, b1, r1
    <3>6. h[2].filter = {d} /\ d \in q.next
      BY <1>2, <2>1, <3>3
    <3>7. k - 1 = 1
      BY <3>3
    <3> QED BY <1>2, <3>1, <3>3, <3>4, <3>5, <3>6, <3>7
  <2>3. ASSUME NEW b \in Branches, NEW day \in Nat, Branches = {b}, q = PlatformPair(b, day)
        PROVE  /\ k = 2 \/ k = 3
               /\ h[k].filter \subseteq q.next
               /\ h[k - 1].filter = {q.first}
               /\ h[k - 1].inc = h[k].inc /\ h[k - 1].upsert = h[k].upsert
    <3>1. q.first = BranchDoc(b, day) /\ q.next = PlatformDocs(day)
      BY <2>3 DEF PlatformPair
    <3>2. d.coll = "agg_platform_day" /\ d.date = day
      BY <2>1, <3>1 DEF PlatformDocs, PlatformDoc
    <3>3. k = 3 /\ d \in PlatformDocs(on)
      BY <1>4, <3>2
    <3>4. day = on
      BY <3>2, <3>3 DEF PlatformDocs, PlatformDoc
    <3>5. b = b1
      BY <1>3, <2>3
    <3>6. k - 1 = 2 /\ Len(h) > 2
      BY <1>2, <3>3
    <3> QED BY <1>2, <3>1, <3>3, <3>4, <3>5, <3>6
  <2> QED BY <2>2, <2>3, PairKinds
<1>6. Led(h)
  <2>1. ASSUME NEW k \in 1..Len(h), NEW q \in Pairs
        PROVE  /\ Follows(h[k], q) => h[k].filter \subseteq q.next
               /\ k < Len(h) /\ Follows(h[k + 1], q) =>
                    /\ h[k].filter = {q.first}
                    /\ h[k].inc = h[k + 1].inc /\ h[k].upsert = h[k + 1].upsert
    <3>1. k < Len(h) => k + 1 \in 1..Len(h) /\ (k + 1) - 1 = k
      BY <1>2
    <3> QED BY <1>5, <3>1
  <2> QED BY <1>2, <2>1 DEF Led
<1>7. \A q \in Pairs : ~Follows(h[1], q)
  <2>1. 1 \in 1..Len(h)
    BY <1>2
  <2> QED BY <1>5, <2>1
<1> QED BY <1>6, <1>7 DEF h

(* What is left of led updates is led. *)
LEMMA TailLed ==
  ASSUME NEW p \in Seq(Update), p # <<>>, Led(p)
  PROVE  Led(Tail(p))
<1>1. /\ Len(Tail(p)) = Len(p) - 1 /\ Len(p) \in Nat
      /\ \A k \in 1..Len(Tail(p)) : Tail(p)[k] = p[k + 1] /\ k + 1 \in 1..Len(p)
  OBVIOUS
<1>2. \A k \in 1..Len(Tail(p)) : k < Len(Tail(p)) =>
        k + 1 < Len(p) /\ Tail(p)[k + 1] = p[(k + 1) + 1]
  BY <1>1
<1> QED BY <1>1, <1>2 DEF Led

(* The next update of a handler, if it is for a branch, is for a branch of *)
(* that restaurant only.                                                   *)
LEMMA NextLed ==
  ASSUME PipelineInv, LedInv, NEW i \in Instances, pc[i] = "update",
         NEW q \in Pairs, Follows(Head(plan[i]), q)
  PROVE  Head(plan[i]).filter \subseteq q.next
<1>1. plan[i] \in Seq(Update) /\ plan[i] # <<>> /\ Led(plan[i])
  BY NextUpdate DEF LedInv
<1>2. Head(plan[i]) = plan[i][1] /\ 1 \in 1..Len(plan[i])
  BY <1>1
<1> QED BY <1>1, <1>2 DEF Led

(* When the update that comes next is for a branch, the one before it is   *)
(* the like one for the restaurant.                                        *)
LEMMA LeadsTheBranch ==
  ASSUME PipelineInv, LedInv, NEW i \in Instances, Makes(i), pc'[i] = "update",
         NEW q \in Pairs, Follows(Head(plan'[i]), q)
  PROVE  /\ Head(plan[i]).filter = {q.first}
         /\ Head(plan[i]).inc = Head(plan'[i]).inc
         /\ Head(plan[i]).upsert = Head(plan'[i]).upsert
<1>1. pc[i] = "update" /\ plan'[i] = Tail(plan[i]) /\ Len(plan[i]) # 1
  BY DEF Makes
<1>2. plan[i] \in Seq(Update) /\ plan[i] # <<>> /\ Led(plan[i])
  BY <1>1, NextUpdate DEF LedInv
<1>3. 1 < Len(plan[i]) /\ Head(plan[i]) = plan[i][1] /\ 1 \in 1..Len(plan[i])
  <2> DEFINE n == Len(plan[i])
  <2>1. n \in Nat /\ n # 0 /\ n # 1
    BY <1>1, <1>2, EmptySeq
  <2> HIDE DEF n
  <2>2. 1 < n /\ 1 \in 1..n
    BY <2>1
  <2> QED BY <1>2, <2>2 DEF n
<1>4. \A p \in Seq(Update) : 1 < Len(p) => Head(Tail(p)) = p[1 + 1]
  OBVIOUS
<1>5. Head(plan'[i]) = plan[i][1 + 1]
  BY <1>1, <1>2, <1>3, <1>4
<1>6. Follows(plan[i][1 + 1], q)
  BY <1>5
<1>7. /\ plan[i][1].filter = {q.first}
      /\ plan[i][1].inc = plan[i][1 + 1].inc /\ plan[i][1].upsert = plan[i][1 + 1].upsert
  BY <1>2, <1>3, <1>6 DEF Led
<1> QED BY <1>3, <1>5, <1>7

(* A handler that begins is led, and begins with its restaurant. *)
LEMMA ClaimLed ==
  ASSUME NoNegativeAmounts, PipelineInv, NEW i \in Instances, Claims(i),
         pc'[i] = "update"
  PROVE  /\ Led(plan'[i])
         /\ \A q \in Pairs : ~Follows(Head(plan'[i]), q)
<1>1. /\ Msg(i) \in Messages /\ Handled(Msg(i))
      /\ plan'[i] = Handle(Msg(i).key, Msg(i).payload, Today)
  BY AtWork DEF Claims
<1>2. Today \in Nat
  BY BoundsAssumption, DivType DEF Today, PipelineInv, TypeOK
<1> DEFINE h == Handle(Msg(i).key, Msg(i).payload, Today)
<1>3. Led(h) /\ \A q \in Pairs : ~Follows(h[1], q)
  BY <1>1, <1>2, HandlerLed
<1>4. Head(plan'[i]) = plan'[i][1]
  OBVIOUS
<1> QED BY <1>1, <1>3, <1>4

LEMMA LedStep ==
  ASSUME OneInstance, NoNegativeAmounts, PipelineInv, FiniteInv, LedInv,
         [Next]_vars
  PROVE  LedInv'
<1>1. ASSUME UNCHANGED rows, \A j \in Instances : Kept(j) PROVE LedInv'
  BY <1>1 DEF LedInv, Kept
<1>2. ASSUME NEW i \in Instances, Claims(i) PROVE LedInv'
  <2>1. pc'[i] = "update" =>
          Led(plan'[i]) /\ \A q \in Pairs : ~Follows(Head(plan'[i]), q)
    BY <1>2, ClaimLed
  <2> QED BY <2>1 DEF LedInv, OneInstance
<1>3. ASSUME NEW i \in Instances, Abandons(i) PROVE LedInv'
  BY <1>3 DEF LedInv, OneInstance, Abandons
<1>4. ASSUME NEW i \in Instances, Makes(i) PROVE LedInv'
  <2> SUFFICES ASSUME pc'[i] = "update"
               PROVE  /\ Led(plan'[i])
                      /\ \A q \in Pairs :
                           Follows(Head(plan'[i]), q) /\ Head(plan'[i]).upsert
                             => q.first \in DOMAIN rows'
    BY DEF LedInv, OneInstance
  <2>1. Led(plan'[i])
    BY <1>4, NextUpdate, TailLed DEF Makes, LedInv
  <2>2. ASSUME NEW q \in Pairs,
               Follows(Head(plan'[i]), q), Head(plan'[i]).upsert
        PROVE  q.first \in DOMAIN rows'
    <3> DEFINE u == Head(plan[i])
    <3>1. u.filter = {q.first} /\ u.upsert
      BY <1>4, <2>2, LeadsTheBranch, Zenon
    <3>2. \E d \in u.filter : DOMAIN rows' = DOMAIN rows \cup {d}
      BY <1>4, <3>1, UpdateMade, Zenon
    <3> HIDE DEF u
    <3> QED BY <3>1, <3>2
  <2> QED BY <2>1, <2>2
<1>5. ASSUME NEW e \in EventIds, ExpireMarker(e) PROVE LedInv'
  BY <1>1, <1>5 DEF ExpireMarker, loop, Kept
<1> QED BY <1>1, <1>2, <1>3, <1>4, <1>5, StepKinds DEF LeavesLedger

(* The documents of a pair are documents, and apart. *)
LEMMA DocsApart ==
  ASSUME NEW q \in Pairs
  PROVE  {q.first} \in SUBSET Docs /\ q.next \in SUBSET Docs /\ q.first \notin q.next
<1>1. ASSUME NEW r \in Restaurants, NEW day \in Nat, q = BranchPair(r, day)
      PROVE  {q.first} \in SUBSET Docs /\ q.next \in SUBSET Docs /\ q.first \notin q.next
  <2>1. /\ q.first = RestaurantDoc(r, day)
        /\ q.next = {BranchDoc(b, day) : b \in BranchesFor(r)}
    BY <1>1 DEF BranchPair
  <2>2. \A b \in Branches : BranchDoc(b, day) \in Docs /\ BranchDoc(b, day) # RestaurantDoc(r, day)
    BY DEF BranchDoc, RestaurantDoc, Docs
  <2>3. RestaurantDoc(r, day) \in Docs
    BY DEF RestaurantDoc, Docs
  <2> QED BY <2>1, <2>2, <2>3 DEF BranchesFor
<1>2. ASSUME NEW b \in Branches, NEW day \in Nat, q = PlatformPair(b, day)
      PROVE  {q.first} \in SUBSET Docs /\ q.next \in SUBSET Docs /\ q.first \notin q.next
  <2>1. q.first = BranchDoc(b, day) /\ q.next = {PlatformDoc(c, day) : c \in Currencies}
    BY <1>2 DEF PlatformPair, PlatformDocs
  <2>2. \A c \in Currencies : /\ PlatformDoc(c, day) \in Docs
                              /\ PlatformDoc(c, day) # BranchDoc(b, day)
    BY DEF PlatformDoc, BranchDoc, Docs
  <2>3. BranchDoc(b, day) \in Docs
    BY DEF BranchDoc, Docs
  <2> QED BY <2>1, <2>2, <2>3
<1> QED BY <1>1, <1>2, PairKinds

(* What is not shared yet is not negative. *)
LEMMA UnsharedType ==
  ASSUME PipelineInv, GrowInv, NEW i \in Instances, NEW q \in Pairs,
         NEW field \in AmountFields
  PROVE  Unshared(i, q, field) \in Nat
BY NextGrows DEF Unshared

LEMMA WithinStep ==
  ASSUME OneInstance, NoNegativeAmounts, RisingInv, PipelineInv', LedInv, LedInv',
         WithinInv, [Next]_vars
  PROVE  WithinInv'
<1> SUFFICES ASSUME NEW q \in Pairs
             PROVE  /\ DOMAIN rows' \cap q.next # {}
                         => q.first \in DOMAIN rows'
                    /\ \A field \in AmountFields, j \in Instances :
                         SumIn(rows', field, {q.first})
                           >= SumIn(rows', field, q.next)
                                + Unshared(j, q, field)'
  BY DEF WithinInv
<1> USE DEF RisingInv
<1> DEFINE doc == q.first
           A == {q.first}
           B == q.next
           Within(field, j) ==
             SumIn(rows', field, A) >= SumIn(rows', field, B) + Unshared(j, q, field)'
           Goal == /\ DOMAIN rows' \cap B # {} => doc \in DOMAIN rows'
                   /\ \A field \in AmountFields, j \in Instances : Within(field, j)
<1>1. /\ A \in SUBSET Docs /\ B \in SUBSET Docs
      /\ doc \notin B /\ A = {doc}
  BY DocsApart
<1>2. ASSUME NEW field \in AmountFields
      PROVE  /\ field \in Fields
             /\ SumIn(rows, field, A) \in Int /\ SumIn(rows, field, B) \in Int
  <2>1. field \in Fields
    BY DEF AmountFields, Fields
  <2>2. ASSUME NEW D \in SUBSET Docs PROVE SumIn(rows, field, D) \in Int
    <3>1. IsFiniteSet(DOMAIN rows \cap D)
      BY FS_Subset DEF FiniteInv
    <3>2. IntOn(Column(rows, field), DOMAIN rows \cap D)
      BY <2>1, CounterFields DEF IntOn, Column, IsRows, Row, PipelineInv, TypeOK
    <3> QED BY <3>1, <3>2, SumType DEF SumIn
  <2> HIDE DEF A, B
  <2> QED BY <1>1, <2>1, <2>2
<1>3. /\ DOMAIN rows \cap B # {} => doc \in DOMAIN rows
      /\ \A field \in AmountFields, j \in Instances :
           SumIn(rows, field, A) >= SumIn(rows, field, B) + Unshared(j, q, field)
  BY DEF WithinInv
<1>4. \A field \in AmountFields, j \in Instances :
        Unshared(j, q, field) \in Nat /\ Unshared(j, q, field)' \in Int
  <2>1. ASSUME NEW field \in AmountFields, NEW j \in Instances
        PROVE  Unshared(j, q, field)' \in Int
    <3>1. pc'[j] = "update" => Head(plan'[j]) \in Update
      BY DEF PipelineInv, TypeOK, LoopInv
    <3>2. pc'[j] = "update" => Head(plan'[j]).inc[field] \in Int
      BY <1>2, <3>1, CounterFields DEF Update
    <3> QED BY <3>2 DEF Unshared
  <2> QED BY <2>1, UnsharedType
<1>5. ASSUME UNCHANGED rows,
             \A field \in AmountFields, j \in Instances :
               Unshared(j, q, field)' <= Unshared(j, q, field)
      PROVE  Goal
  <2>1. ASSUME NEW field \in AmountFields, NEW j \in Instances PROVE Within(field, j)
    <3> DEFINE a == SumIn(rows, field, A)
               b == SumIn(rows, field, B)
               x == Unshared(j, q, field)
               y == Unshared(j, q, field)'
    <3>1. /\ a \in Int /\ b \in Int /\ x \in Nat /\ y \in Int
          /\ a >= b + x /\ y <= x
      BY <1>2, <1>3, <1>4, <1>5
    <3>2. SumIn(rows', field, A) = a /\ SumIn(rows', field, B) = b
      BY <1>5
    <3> HIDE DEF a, b, x, A, B
    <3>3. a >= b + y
      <4> HIDE DEF y
      <4> QED BY <3>1
    <3> QED BY <3>2, <3>3
  <2> HIDE DEF Within
  <2> QED BY <1>3, <1>5, <2>1
<1>6. ASSUME UNCHANGED rows, \A j \in Instances : Kept(j) PROVE Goal
  <2>1. \A field \in AmountFields, j \in Instances :
          Unshared(j, q, field)' = Unshared(j, q, field)
    BY <1>6 DEF Unshared, Kept
  <2>2. \A field \in AmountFields, j \in Instances :
          Unshared(j, q, field)' <= Unshared(j, q, field)
    BY <1>4, <2>1
  <2> HIDE DEF Goal
  <2> QED BY <1>5, <1>6, <2>2
<1>7. ASSUME NEW i \in Instances, Claims(i) \/ Abandons(i) PROVE Goal
  <2>1. UNCHANGED rows
    BY <1>7 DEF Claims, Abandons
  <2>2. pc'[i] = "update" => ~Follows(Head(plan'[i]), q)
    BY <1>7, ClaimLed DEF Abandons
  <2>3. \A field \in AmountFields, j \in Instances :
          Unshared(j, q, field)' <= Unshared(j, q, field)
    <3>1. ASSUME NEW field \in AmountFields, NEW j \in Instances
          PROVE  Unshared(j, q, field)' = 0
      <4>1. j = i
        BY DEF OneInstance
      <4> QED BY <2>2, <4>1 DEF Unshared
    <3> QED BY <1>4, <3>1
  <2> HIDE DEF Goal
  <2> QED BY <1>5, <2>1, <2>3
<1>8. ASSUME NEW i \in Instances, Makes(i) PROVE Goal
  <2> DEFINE u == Head(plan[i])
             next == Head(plan'[i])
             Leads == pc'[i] = "update" /\ Follows(next, q)
  <2>1. /\ pc[i] = "update" /\ u \in Update /\ \A j \in Instances : j = i
        /\ \A field \in AmountFields : u.inc[field] \in Nat
        /\ Follows(u, q) => u.filter \subseteq B
    BY <1>8, NextGrows, NextLed DEF Makes, OneInstance
  <2>2. Leads => u.filter = A /\ u.inc = next.inc /\ u.upsert = next.upsert
    BY <1>8, LeadsTheBranch
  <2>3. \A field \in AmountFields :
          /\ Unshared(i, q, field)
               = IF Follows(u, q) /\ doc \in DOMAIN rows THEN u.inc[field] ELSE 0
          /\ Unshared(i, q, field)'
               = IF Leads /\ doc \in DOMAIN rows' THEN next.inc[field] ELSE 0
    BY <2>1 DEF Unshared
  <2>4. Follows(u, q) /\ u.upsert => doc \in DOMAIN rows
    BY <2>1 DEF LedInv
  <2>5. \/ rows' = rows /\ ~u.upsert /\ Matches(rows, u) = {}
        \/ \E d \in u.filter :
             /\ DOMAIN rows' = DOMAIN rows \cup {d}
             /\ d \notin DOMAIN rows => u.upsert
             /\ \A field \in Fields, D \in SUBSET Docs :
                  SumIn(rows', field, D) = SumIn(rows, field, D) + Added(u.inc, field, d, D)
    BY <1>8, UpdateMade
  <2>6. Follows(u, q) <=> u.filter \cap B # {}
    BY DEF Follows
  <2> HIDE DEF u, next, Leads, A, B, doc
  <2>7. CASE rows' = rows /\ ~u.upsert /\ Matches(rows, u) = {}
    <3>1. ~(Leads /\ doc \in DOMAIN rows')
      BY <1>1, <2>2, <2>7 DEF Matches
    <3>2. \A field \in AmountFields, j \in Instances :
            Unshared(j, q, field)' <= Unshared(j, q, field)
      BY <1>4, <2>1, <2>3, <3>1
    <3> HIDE DEF Goal
    <3> QED BY <1>5, <2>7, <3>2
  <2>8. ASSUME NEW d \in u.filter,
               DOMAIN rows' = DOMAIN rows \cup {d},
               d \notin DOMAIN rows => u.upsert,
               \A field \in Fields, D \in SUBSET Docs :
                 SumIn(rows', field, D) = SumIn(rows, field, D) + Added(u.inc, field, d, D)
        PROVE  Goal
    <3>1. ASSUME NEW field \in AmountFields
          PROVE  /\ SumIn(rows', field, A) = SumIn(rows, field, A) + Added(u.inc, field, d, A)
                 /\ SumIn(rows', field, B) = SumIn(rows, field, B) + Added(u.inc, field, d, B)
      BY <1>1, <1>2, <2>8
    <3>2. CASE Follows(u, q)
      <4>1. d \in B /\ d \notin A /\ doc \in DOMAIN rows /\ ~Leads
        BY <1>1, <1>3, <2>1, <2>2, <2>4, <2>8, <3>2
      <4>2. ASSUME NEW field \in AmountFields, NEW j \in Instances PROVE Within(field, j)
        <5> DEFINE a == SumIn(rows, field, A)
                   b == SumIn(rows, field, B)
                   n == u.inc[field]
        <5>1. /\ a \in Int /\ b \in Int /\ n \in Nat
              /\ a >= b + n
          BY <1>2, <1>3, <2>1, <2>3, <3>2, <4>1
        <5>2. /\ SumIn(rows', field, A) = a + 0 /\ SumIn(rows', field, B) = b + n
              /\ Unshared(j, q, field)' = 0
          BY <2>1, <2>3, <3>1, <4>1 DEF Added
        <5> HIDE DEF a, b, n
        <5> QED BY <5>1, <5>2
      <4> HIDE DEF Within
      <4> QED BY <2>8, <4>1, <4>2
    <3>3. CASE ~Follows(u, q)
      <4>1. d \notin B /\ (Leads => d \in A /\ doc \in DOMAIN rows')
        BY <1>1, <2>2, <2>6, <2>8, <3>3
      <4>2. ASSUME NEW field \in AmountFields, NEW j \in Instances PROVE Within(field, j)
        <5> DEFINE a == SumIn(rows, field, A)
                   b == SumIn(rows, field, B)
                   n == u.inc[field]
                   y == Unshared(j, q, field)'
        <5>1. /\ a \in Int /\ b \in Int /\ n \in Nat
              /\ a >= b + 0
          BY <1>2, <1>3, <2>1, <2>3, <3>3
        <5>2. SumIn(rows', field, A) = a + Added(u.inc, field, d, A)
          BY <3>1
        <5>3. SumIn(rows', field, B) = b + 0
          BY <3>1, <4>1 DEF Added
        <5>4. y <= Added(u.inc, field, d, A) /\ y \in Int /\ Added(u.inc, field, d, A) \in Int
          BY <2>1, <2>2, <2>3, <4>1 DEF Added
        <5> DEFINE x == Added(u.inc, field, d, A)
        <5> HIDE DEF a, b, n, y, x
        <5>5. a + x >= (b + 0) + y
          BY <5>1, <5>4 DEF x
        <5> QED BY <5>2, <5>3, <5>5 DEF x, y
      <4>3. DOMAIN rows' \cap B # {} => doc \in DOMAIN rows'
        BY <1>3, <2>8, <4>1
      <4> HIDE DEF Within
      <4> QED BY <4>2, <4>3
    <3> HIDE DEF Goal
    <3> QED BY <3>2, <3>3
  <2> HIDE DEF Goal
  <2> QED BY <2>5, <2>7, <2>8
<1>9. ASSUME NEW e \in EventIds, ExpireMarker(e) PROVE Goal
  <2>1. UNCHANGED rows /\ \A j \in Instances : Kept(j)
    BY <1>9 DEF ExpireMarker, loop, Kept
  <2> HIDE DEF Goal
  <2> QED BY <1>6, <2>1
<1>10. Goal
  <2>1. ASSUME LeavesLedger PROVE Goal
    <3>1. UNCHANGED rows /\ \A j \in Instances : Kept(j)
      BY <2>1 DEF LeavesLedger
    <3> HIDE DEF Goal
    <3> QED BY <1>6, <3>1
  <2> HIDE DEF Goal
  <2> QED BY <1>7, <1>8, <1>9, <2>1, StepKinds
<1> QED BY <1>10

(* What holds of the rows and of the handlers of one instance. *)
FlowInv == RisingInv /\ LedInv /\ WithinInv

(* The sums of a pair, and that they are numbers. *)
LEMMA PairWithin ==
  ASSUME OneInstance, FlowInv, NEW q \in Pairs, NEW field \in AmountFields
  PROVE  /\ SumIn(rows, field, q.next) <= SumIn(rows, field, {q.first})
         /\ SumIn(rows, field, q.next) \in Int /\ SumIn(rows, field, {q.first}) \in Int
<1> USE DEF FlowInv, RisingInv
<1>1. PICK i \in Instances : TRUE
  BY DEF OneInstance
<1>2. /\ SumIn(rows, field, {q.first}) >= SumIn(rows, field, q.next) + Unshared(i, q, field)
      /\ Unshared(i, q, field) \in Nat
  BY UnsharedType DEF WithinInv
<1>3. ASSUME NEW D
      PROVE  SumIn(rows, field, D) \in Int
  <2>1. /\ IntOn(Column(rows, field), DOMAIN rows \cap D)
        /\ IsFiniteSet(DOMAIN rows \cap D)
    BY CounterFields, FS_Subset
       DEF IntOn, Column, IsRows, Row, PipelineInv, TypeOK, FiniteInv, AmountFields, Fields
  <2> QED BY <2>1, SumType DEF SumIn
<1>4. SumIn(rows, field, q.next) \in Int /\ SumIn(rows, field, {q.first}) \in Int
  BY <1>3
<1> QED BY <1>2, <1>4

(* The branches an event has named belong to the restaurant, and their     *)
(* rows to those the invariant sums.                                       *)
LEMMA WithinState ==
  ASSUME OneInstance, OwnBranches, FlowInv
  PROVE  BranchesWithinRestaurant
<1> SUFFICES ASSUME NEW r \in Restaurants, NEW day \in Days, NEW field \in AmountFields
             PROVE  Total(field, DOMAIN rows \cap {BranchDoc(b, day) : b \in BranchesOf(r)})
                      <= Total(field, DOMAIN rows \cap {RestaurantDoc(r, day)})
  BY DEF BranchesWithinRestaurant, AmountFields
<1> USE DEF FlowInv, RisingInv
<1> DEFINE f == Column(rows, field)
           q == BranchPair(r, day)
           S == DOMAIN rows \cap {BranchDoc(b, day) : b \in BranchesOf(r)}
           T == DOMAIN rows \cap q.next
<1>1. day \in Nat /\ field \in Fields
  BY DEF Days, Docs, AmountFields, Fields, PipelineInv, TypeOK, IsRows
<1>2. BranchesOf(r) \subseteq BranchesFor(r)
  <2>1. ASSUME NEW m \in Events, m.payload.restaurant = r
        PROVE  m.payload.branch \in BranchesFor(r)
    <3>1. m \in Messages /\ Handled(m)
      BY EventsAre DEF EventsInv
    <3>2. m.payload.branch \in Branches
      BY <3>1, MessagesAssumption DEF Handled, Message, Input
    <3> QED BY <2>1, <3>1, <3>2 DEF OwnBranches, BranchesFor
  <2> QED BY <2>1 DEF BranchesOf
<1>3. /\ q \in Pairs /\ q.first = RestaurantDoc(r, day)
      /\ q.next = {BranchDoc(b, day) : b \in BranchesFor(r)}
  <2>1. q \in Pairs
    BY <1>1 DEF Pairs
  <2> QED BY <2>1 DEF BranchPair
<1>4. S \in SUBSET T /\ IsFiniteSet(T)
  BY <1>2, <1>3, FS_Subset DEF FiniteInv
<1>5. IntOn(f, T) /\ \A x \in T : f[x] >= 0
  BY <1>1, CounterFields DEF IntOn, Column, PositiveInv, IsRows, Row, PipelineInv, TypeOK
<1>6. /\ SumIn(rows, field, q.next) <= SumIn(rows, field, {q.first})
      /\ SumIn(rows, field, q.next) \in Int /\ SumIn(rows, field, {q.first}) \in Int
  BY <1>3, PairWithin
<1>7. /\ SumIn(rows, field, q.next) = SumFunctionOnSet(f, T)
      /\ Total(field, S) = SumFunctionOnSet(f, S)
      /\ Total(field, DOMAIN rows \cap {RestaurantDoc(r, day)}) = SumIn(rows, field, {q.first})
  BY <1>3 DEF SumIn, Total
<1> HIDE DEF f, S, T, q
<1>8. /\ SumFunctionOnSet(f, S) <= SumFunctionOnSet(f, T)
      /\ SumFunctionOnSet(f, S) \in Int
  <2>1. IsFiniteSet(S) /\ IntOn(f, S)
    BY <1>4, <1>5, FS_Subset DEF IntOn
  <2> QED BY <1>4, <1>5, <2>1, SumOfSubset, SumType
<1>9. Total(field, S) <= Total(field, DOMAIN rows \cap {RestaurantDoc(r, day)})
  BY <1>6, <1>7, <1>8
<1> QED BY <1>9 DEF S

LEMMA FlowInvHolds ==
  ASSUME OneInstance, NoNegativeAmounts
  PROVE  Spec => []FlowInv
<1>1. Init => LedInv /\ WithinInv
  <2> SUFFICES ASSUME Init PROVE LedInv /\ WithinInv
    OBVIOUS
  <2>1. DOMAIN rows = {} /\ \A i \in Instances : pc[i] = "down"
    BY DEF Init
  <2>2. ASSUME NEW field, NEW D PROVE SumIn(rows, field, D) = 0
    <3>1. DOMAIN rows \cap D = {}
      BY <2>1
    <3> QED BY <3>1, SumEmpty, Zenon DEF SumIn
  <2>3. ASSUME NEW q \in Pairs, NEW field \in AmountFields,
               NEW i \in Instances
        PROVE  SumIn(rows, field, {q.first})
                 >= SumIn(rows, field, q.next) + Unshared(i, q, field)
    BY <2>1, <2>2 DEF Unshared
  <2> QED BY <2>1, <2>3 DEF LedInv, WithinInv
<1>2. RisingInv /\ LedInv /\ [Next]_vars => LedInv'
  BY LedStep DEF RisingInv
<1>3. RisingInv /\ RisingInv' /\ LedInv /\ LedInv' /\ WithinInv /\ [Next]_vars => WithinInv'
  BY WithinStep DEF RisingInv
<1>4. RisingInv /\ LedInv /\ WithinInv => FlowInv
  BY DEF FlowInv
<1>5. Spec => []RisingInv
  BY RisingInvHolds
<1> QED BY <1>1, <1>2, <1>3, <1>4, <1>5, PTL DEF Spec

(* With one instance the rows of a restaurant's branches never get ahead   *)
(* of its own row, in revenue or in deliveries, whatever fails or is       *)
(* redelivered, and whether markers expire or not: every handler updates   *)
(* the restaurant first, and where that update finds no row to change the  *)
(* branch's finds none either.                                             *)
THEOREM BranchesWithinRestaurantHolds ==
  ASSUME OneInstance, NoNegativeAmounts, OwnBranches
  PROVE  Spec => []BranchesWithinRestaurant
<1>1. FlowInv => BranchesWithinRestaurant
  BY WithinState
<1> QED BY <1>1, FlowInvHolds, PTL
=============================================================================
