------------------------ MODULE EventPipelineProofs ------------------------
(***************************************************************************)
(* Types, the deduplication window and the redelivery rule of the event    *)
(* pipeline, for any number of instances, copies, events and faults.       *)
(*                                                                         *)
(* TypeOK needs to know more to be inductive: that a loop at work holds a  *)
(* published copy, and a handler at work has updates left (PipelineInv).   *)
(* DedupWindow needs to know that a claim is followed by a marker that is  *)
(* as old or younger, or by its expiry (WindowInv).                        *)
(***************************************************************************)
EXTENDS EventPipeline, SequenceTheorems, TLAPS

(* The counter records the handlers build, and their sums, are counters. *)
LEMMA CountersType ==
  /\ \A n \in Int : /\ Order(n) \in Counters /\ Delivery(n) \in Counters
                    /\ Revenue(n) \in Counters /\ Sale(n) \in Counters
  /\ Cancellation \in Counters
  /\ Inc(0, 0, 0, 0, 0) \in Counters
  /\ \A m, n \in Counters : AddCounters(m, n) \in Counters
BY DEF Inc, Order, Delivery, Revenue, Cancellation, Sale, Counters, AddCounters

(* The documents the updates name are documents. *)
LEMMA DocsType ==
  \A day \in Nat :
    /\ \A r \in Restaurants : RestaurantDoc(r, day) \in Docs
    /\ \A b \in Branches : BranchDoc(b, day) \in Docs
    /\ \A c \in Currencies : PlatformDoc(c, day) \in Docs
    /\ \A p \in Products, r \in Restaurants : ProductDoc(p, r, day) \in Docs
    /\ PlatformDocs(day) \subseteq Docs
BY DEF RestaurantDoc, BranchDoc, PlatformDoc, ProductDoc, PlatformDocs, Docs

(* The two forms of update are updates. *)
LEMMA UpdateType ==
  ASSUME NEW inc \in Counters
  PROVE  /\ \A doc \in Docs, cur \in Currencies \cup {NoCurrency} :
              Upsert(doc, inc, cur) \in Update
         /\ \A filter \in SUBSET Docs : Modify(filter, inc) \in Update
BY DEF Upsert, Modify, Update

(* UpdateOne leaves a well-formed set of rows behind. *)
LEMMA RowsType ==
  ASSUME NEW rws, IsRows(rws), NEW u \in Update, NEW after \in UpdateOne(rws, u)
  PROVE  IsRows(after)
<1>1. \A d \in Docs, row \in Row : IsRows(Put(rws, d, row))
  BY DEF IsRows, Put
<1>2. \A d \in DOMAIN rws : IncRow(rws[d], u) \in Row
  BY CountersType DEF IsRows, IncRow, Row, Update
<1>3. [n |-> u.inc, currency |-> u.currency] \in Row
  BY DEF Row, Update
<1>4. u.filter \subseteq Docs /\ Matches(rws, u) \subseteq Docs
  BY DEF Update, Matches
<1>5. CASE Matches(rws, u) # {}
  <2>1. PICK d \in Matches(rws, u) : after = Put(rws, d, IncRow(rws[d], u))
    BY <1>5 DEF UpdateOne
  <2>2. d \in DOMAIN rws
    BY DEF Matches
  <2> QED BY <2>1, <2>2, <1>1, <1>2, <1>4
<1>6. CASE Matches(rws, u) = {}
  BY <1>6, <1>1, <1>3, <1>4 DEF UpdateOne
<1> QED BY <1>5, <1>6

(* A handler plans at least one update, and nothing but updates. *)
LEMMA HandleType ==
  ASSUME NEW key \in HandlerFor, NEW in \in Input, NEW today \in Nat
  PROVE  /\ Handle(key, in, today) \in Seq(Update)
         /\ Handle(key, in, today) # <<>>
<1> DEFINE day == parseEventDate(in.at, today)
           cur == IF in.currency = NoCurrency THEN DefaultCurrency ELSE in.currency
           sold == [k \in 1..Len(in.items) |-> ItemUpdate(in.items[k], in.restaurant, day)]
<1>1. /\ day \in Nat
      /\ in.restaurant \in Restaurants /\ in.branch \in Branches
      /\ in.amount \in Int /\ in.items \in Seq(Item)
      /\ cur \in Currencies
  BY CurrencyAssumption DEF parseEventDate, Input, NoDate
<1> HIDE DEF day, cur
<1>2. /\ RestaurantDayUpsert(in.restaurant, day, cur, in.amount) \in Update
      /\ BranchDayUpsert(in.branch, day, cur, in.amount) \in Update
      /\ PlatformDayUpsert(day, cur, in.amount) \in Update
  BY <1>1, CountersType, DocsType, UpdateType
     DEF RestaurantDayUpsert, BranchDayUpsert, PlatformDayUpsert
<1>3. \A item \in Item : ItemUpdate(item, in.restaurant, day) \in Update
  <2>1. NoCall \in Update
    BY CountersType, UpdateType DEF NoCall
  <2>2. \A item \in Item :
          ProductDayUpsert(item.product, in.restaurant, day, item.quantity) \in Update
    BY <1>1, CountersType, DocsType, UpdateType DEF ProductDayUpsert, Item
  <2> QED BY <2>1, <2>2 DEF ItemUpdate
<1>4. sold \in Seq(Update)
  BY <1>1, <1>3
<1>5. HandleOrderPlaced(in, today) \in Seq(Update) /\ HandleOrderPlaced(in, today) # <<>>
  BY <1>2, <1>4 DEF HandleOrderPlaced, day, cur
<1>6. \A ms \in Int : /\ RestaurantDayIncrDelivery(in.restaurant, day, ms) \in Update
                      /\ BranchDayIncrDelivery(in.branch, day, ms) \in Update
                      /\ RestaurantDayIncrRevenue(in.restaurant, day, ms) \in Update
                      /\ BranchDayIncrRevenue(in.branch, day, ms) \in Update
                      /\ PlatformDayIncrRevenue(day, ms) \in Update
  BY <1>1, CountersType, DocsType, UpdateType
     DEF RestaurantDayIncrDelivery, BranchDayIncrDelivery, RestaurantDayIncrRevenue,
         BranchDayIncrRevenue, PlatformDayIncrRevenue
<1>7. /\ RestaurantDayDecrOrder(in.restaurant, day) \in Update
      /\ BranchDayDecrOrder(in.branch, day) \in Update
      /\ PlatformDayDecrOrder(day) \in Update
  BY <1>1, CountersType, DocsType, UpdateType
     DEF RestaurantDayDecrOrder, BranchDayDecrOrder, PlatformDayDecrOrder
<1>8. /\ HandleOrderDelivered(in, today) \in Seq(Update)
      /\ HandleOrderDelivered(in, today) # <<>>
      /\ HandlePaymentSucceeded(in, today) \in Seq(Update)
      /\ HandlePaymentSucceeded(in, today) # <<>>
      /\ HandleOrderCancelled(in, today) \in Seq(Update)
      /\ HandleOrderCancelled(in, today) # <<>>
  BY <1>1, <1>6, <1>7
     DEF HandleOrderDelivered, HandlePaymentSucceeded, HandleOrderCancelled, day
<1> QED BY <1>5, <1>8 DEF Handle, HandlerFor

-----------------------------------------------------------------------------
(* Type correctness *)

Busy == {"markSeen", "update", "ack", "nack"}

(* A copy that left the outbox carries a message. *)
BodyInv == \A c \in Copies : Published(c) => body[c] \in Messages

(* What the loop of each instance holds on to. *)
LoopInv ==
  \A i \in Instances :
    /\ \A c \in buffer[i] : Published(c)
    /\ pc[i] \in Busy => hand[i] \in Copies /\ Published(hand[i])
    /\ pc[i] \in {"markSeen", "update"} => Event(i) \in EventIds /\ Msg(i).wellFormed
    /\ pc[i] = "update" => plan[i] # <<>>

PipelineInv == TypeOK /\ BodyInv /\ LoopInv

(* The inductive invariant holds initially. *)
LEMMA PipelineInit == Init => PipelineInv
<1> SUFFICES ASSUME Init PROVE PipelineInv
  OBVIOUS
<1>1. IsRows(rows)
  BY DEF Init, IsRows
<1>2. TypeOK
  BY <1>1, BoundsAssumption DEF Init, TypeOK, BrokerPlaces, PcValues, NotSeen
<1>3. BodyInv /\ LoopInv
  BY DEF Init, BodyInv, LoopInv, Published, Busy
<1> QED BY <1>2, <1>3 DEF PipelineInv

(* Spending a fault keeps the type of quota. *)
LEMMA SpendType ==
  ASSUME quota \in [FaultKinds -> Nat], NEW kind \in FaultKinds, Spend(kind)
  PROVE  quota' \in [FaultKinds -> Nat]
BY DEF Spend

(* So does a MongoDB call that fails. *)
LEMMA CallFailsType ==
  ASSUME quota \in [FaultKinds -> Nat], NEW i \in Instances, CallFails(i)
  PROVE  quota' \in [FaultKinds -> Nat]
BY SpendType DEF CallFails, FaultKinds

(* The day of the clock is a day. *)
LEMMA DivType ==
  ASSUME NEW n \in Nat, NEW d \in Nat \ {0}
  PROVE  n \div d \in Nat
BY SMT

(* What is left of a plan after one update, and when nothing is. *)
LEMMA TailType ==
  ASSUME NEW s \in Seq(Update), s # <<>>
  PROVE  /\ Tail(s) \in Seq(Update)
         /\ Len(Tail(s)) = Len(s) - 1
         /\ Len(s) # 1 => Tail(s) # <<>>
<1>1. Tail(s) \in Seq(Update) /\ Len(Tail(s)) = Len(s) - 1
  BY HeadTailProperties
<1>2. Len(s) \in Nat /\ Len(s) # 0
  BY EmptySeq, LenProperties
<1>3. Len(s) # 1 => Len(Tail(s)) # 0
  BY <1>1, <1>2
<1> QED BY <1>1, <1>3, EmptySeq

(* Every step keeps the inductive invariant: one case for each action. *)
LEMMA PipelineStep ==
  ASSUME PipelineInv, [Next]_vars
  PROVE  PipelineInv'
<1> USE DEF PipelineInv
<1>1. ASSUME NEW c \in Copies, Publish(c) PROVE PipelineInv'
  BY <1>1 DEF Publish, loop, process, db, history, BrokerPlaces,
       TypeOK, BodyInv, LoopInv, Published, Busy, Event, Msg
<1>2. ASSUME NEW c \in Copies, NEW i \in Instances, Deliver(c, i) PROVE PipelineInv'
  BY <1>2, InstancesAssumption DEF Deliver, loop, process, db, history, BrokerPlaces,
       TypeOK, BodyInv, LoopInv, Published, Busy, Event, Msg
<1>3. ASSUME NEW i \in Instances, Take(i) PROVE PipelineInv'
  <2>1. PICK c \in buffer[i] :
          /\ hand' = [hand EXCEPT ![i] = c]
          /\ buffer' = [buffer EXCEPT ![i] = @ \ {c}]
          /\ pc' = [pc EXCEPT ![i] =
                      IF body[c].wellFormed /\ body[c].id # NoEventId
                        THEN "markSeen" ELSE "ack"]
    BY <1>3 DEF Take
  <2>2. /\ c \in Copies
        /\ Published(c)
        /\ body[c].id \in EventIds \cup {NoEventId}
    BY MessagesAssumption DEF TypeOK, BodyInv, LoopInv, Message
  <2>3. /\ UNCHANGED <<place, body, plan, live, link, seen, rows, now, quota,
                       claims, effects>>
        /\ pc[i] = "idle"
    BY <1>3 DEF Take, broker, process, db, history
  <2>4. TypeOK'
    BY <2>1, <2>2, <2>3 DEF TypeOK, PcValues
  <2>5. BodyInv'
    BY <2>3 DEF BodyInv, Published
  <2>6. LoopInv'
    BY <2>1, <2>2, <2>3 DEF TypeOK, LoopInv, Published, Busy, Event, Msg
  <2> QED BY <2>4, <2>5, <2>6
<1>4. ASSUME NEW i \in Instances, Return(i) PROVE PipelineInv'
  BY <1>4 DEF Return, broker, process, db, history, PcValues,
       TypeOK, BodyInv, LoopInv, Published, Busy, Event, Msg
<1>5. ASSUME NEW i \in Instances, Duplicate(i) PROVE PipelineInv'
  BY <1>5 DEF Duplicate, broker, process, db, history, PcValues,
       TypeOK, BodyInv, LoopInv, Published, Busy, Event, Msg
<1>6. ASSUME NEW i \in Instances, FirstTime(i) PROVE PipelineInv'
  <2>1. /\ pc[i] = "markSeen"
        /\ UNCHANGED <<place, body, hand, buffer, live, link, rows, now, quota, effects>>
        /\ seen' = [seen EXCEPT ![Event(i)] = now]
        /\ claims' = [claims EXCEPT ![Event(i)] = Append(@, now)]
    BY <1>6 DEF FirstTime, broker, process
  <2>2. hand[i] \in Copies /\ Published(hand[i]) /\ Event(i) \in EventIds
    BY <2>1 DEF LoopInv, Busy
  <2>3. Msg(i).payload \in Input \cup {Malformed}
    BY <2>2, MessagesAssumption DEF BodyInv, Msg, Message
  <2>4. Today \in Nat
    BY BoundsAssumption, DivType DEF TypeOK, Today
  <2>5. PICK p \in Seq(Update), q \in {"ack", "nack", "update"} :
          /\ plan' = [plan EXCEPT ![i] = p]
          /\ pc' = [pc EXCEPT ![i] = q]
          /\ q = "update" => p # <<>>
    <3>1. CASE Msg(i).key \notin HandlerFor
      BY <1>6, <3>1 DEF FirstTime, TypeOK
    <3>2. CASE Msg(i).key \in HandlerFor /\ Msg(i).payload = Malformed
      BY <1>6, <3>2 DEF FirstTime, TypeOK
    <3>3. CASE Msg(i).key \in HandlerFor /\ Msg(i).payload # Malformed
      <4>1. Msg(i).payload \in Input
        BY <2>3, <3>3
      <4> QED BY <1>6, <3>3, <4>1, <2>4, HandleType DEF FirstTime
    <3> QED BY <3>1, <3>2, <3>3
  <2>6. TypeOK'
    BY <2>1, <2>2, <2>5 DEF TypeOK, PcValues
  <2>7. BodyInv'
    BY <2>1 DEF BodyInv, Published
  <2>8. LoopInv'
    BY <2>1, <2>2, <2>5 DEF TypeOK, LoopInv, Published, Busy, Event, Msg
  <2> QED BY <2>6, <2>7, <2>8
<1>7. ASSUME NEW i \in Instances, MarkSeenFails(i) PROVE PipelineInv'
  <2>1. quota' \in [FaultKinds -> Nat]
    BY <1>7, CallFailsType DEF MarkSeenFails, TypeOK
  <2>2. seen' \in [EventIds -> Nat \cup {NotSeen}]
    BY <1>7 DEF MarkSeenFails, TypeOK
  <2> QED
    BY <1>7, <2>1, <2>2 DEF MarkSeenFails, broker, process, history, PcValues,
       TypeOK, BodyInv, LoopInv, Published, Busy, Event, Msg
<1>8. ASSUME NEW i \in Instances, pc[i] = "update", Advance(i), IsRows(rows'),
             UNCHANGED <<broker, hand, buffer, process, seen, now, quota, claims>>
      PROVE  PipelineInv'
  <2>1. plan[i] \in Seq(Update) /\ plan[i] # <<>>
    BY <1>8 DEF TypeOK, LoopInv
  <2>2. /\ Tail(plan[i]) \in Seq(Update)
        /\ Len(plan[i]) # 1 => Tail(plan[i]) # <<>>
    BY <2>1, TailType
  <2>3. /\ hand[i] \in Copies /\ Published(hand[i]) /\ Event(i) \in EventIds
    BY <1>8 DEF LoopInv, Busy
  <2>4. TypeOK'
    BY <1>8, <2>2, <2>3 DEF Advance, broker, process, TypeOK, PcValues
  <2>5. BodyInv'
    BY <1>8 DEF broker, BodyInv, Published
  <2>6. LoopInv'
    BY <1>8, <2>2, <2>3 DEF Advance, broker, process, TypeOK, LoopInv, Published, Busy,
       Event, Msg
  <2> QED BY <2>4, <2>5, <2>6
<1>9. ASSUME NEW i \in Instances, pc[i] = "update"
      PROVE  Head(plan[i]) \in Update
  BY <1>9 DEF TypeOK, LoopInv
<1>10. ASSUME NEW i \in Instances, ApplyUpdate(i) PROVE PipelineInv'
  <2>1. IsRows(rows')
    BY <1>9, <1>10, RowsType DEF ApplyUpdate, TypeOK
  <2> QED BY <1>8, <1>10, <2>1 DEF ApplyUpdate
<1>11. ASSUME NEW i \in Instances, SkipItem(i) PROVE PipelineInv'
  <2>1. IsRows(rows')
    BY <1>11 DEF SkipItem, db, TypeOK
  <2> QED BY <1>8, <1>11, <2>1 DEF SkipItem, db
<1>12. ASSUME NEW i \in Instances, UpdateFails(i) PROVE PipelineInv'
  <2>1. quota' \in [FaultKinds -> Nat]
    BY <1>12, CallFailsType DEF UpdateFails, TypeOK
  <2>2. IsRows(rows')
    BY <1>9, <1>12, RowsType DEF UpdateFails, TypeOK
  <2>3. effects' \in [EventIds -> Nat]
    <3>1. Event(i) \in EventIds
      BY <1>12 DEF UpdateFails, LoopInv
    <3>2. effects' = effects \/ effects' = [effects EXCEPT ![Event(i)] = @ + 1]
      BY <1>12 DEF UpdateFails
    <3>3. effects \in [EventIds -> Nat]
      BY DEF TypeOK
    <3> QED BY <3>1, <3>2, <3>3
  <2> QED
    BY <1>12, <2>1, <2>2, <2>3 DEF UpdateFails, broker, process, PcValues,
       TypeOK, BodyInv, LoopInv, Published, Busy, Event, Msg
<1>13. ASSUME NEW i \in Instances, Ack(i) \/ Nack(i) PROVE PipelineInv'
  <2>1. PICK outcome \in {"acked", "dead"} : Settle(i, outcome)
    BY <1>13 DEF Ack, Nack
  <2>2. TypeOK'
    BY <2>1 DEF Settle, process, db, history, PcValues, BrokerPlaces, TypeOK
  <2>3. \A c \in Copies : Published(c)' <=> Published(c)
    BY <2>1, InstancesAssumption DEF Settle, BrokerPlaces, Published, TypeOK
  <2>4. BodyInv'
    BY <2>1, <2>3 DEF Settle, BodyInv
  <2>5. LoopInv'
    BY <2>1, <2>3 DEF Settle, process, TypeOK, LoopInv, Busy, Event, Msg
  <2> QED BY <2>2, <2>4, <2>5
<1>14. ASSUME NEW i \in Instances, Start(i) PROVE PipelineInv'
  BY <1>14 DEF Start, broker, db, history, PcValues,
       TypeOK, BodyInv, LoopInv, Published, Busy, Event, Msg
<1>15. ASSUME NEW i \in Instances, Terminate(i) PROVE PipelineInv'
  <2>1. quota' \in [FaultKinds -> Nat]
    BY <1>15, SpendType DEF Terminate, FaultKinds, TypeOK
  <2> QED
    BY <1>15, <2>1 DEF Terminate, broker, loop, db, history,
       TypeOK, BodyInv, LoopInv, Published, Busy, Event, Msg
<1>16. ASSUME NEW i \in Instances, CloseBroker(i) PROVE PipelineInv'
  BY <1>16, InstancesAssumption DEF CloseBroker, Requeued, loop, db, history, BrokerPlaces,
       TypeOK, BodyInv, LoopInv, Published, Busy, Event, Msg
<1>17. ASSUME NEW i \in Instances, Gone(i), quota' \in [FaultKinds -> Nat]
       PROVE  PipelineInv'
  BY <1>17, InstancesAssumption DEF Gone, Requeued, db, history, BrokerPlaces, PcValues,
       TypeOK, BodyInv, LoopInv, Published, Busy, Event, Msg
<1>18. ASSUME NEW i \in Instances, Exit(i) PROVE PipelineInv'
  BY <1>17, <1>18 DEF Exit, TypeOK
<1>19. ASSUME NEW i \in Instances, Kill(i) PROVE PipelineInv'
  BY <1>17, <1>19, SpendType DEF Kill, FaultKinds, TypeOK
<1>20. ASSUME NEW i \in Instances, DropConnection(i) PROVE PipelineInv'
  <2>1. quota' \in [FaultKinds -> Nat]
    BY <1>20, SpendType DEF DropConnection, FaultKinds, TypeOK
  <2> QED
    BY <1>20, <2>1, InstancesAssumption DEF DropConnection, Requeued, loop, db, history, BrokerPlaces,
       TypeOK, BodyInv, LoopInv, Published, Busy, Event, Msg
<1>21. ASSUME Tick PROVE PipelineInv'
  BY <1>21 DEF Tick, broker, loop, process, db, history,
       TypeOK, BodyInv, LoopInv, Published, Busy, Event, Msg
<1>22. ASSUME NEW e \in EventIds, ExpireMarker(e) PROVE PipelineInv'
  BY <1>22 DEF ExpireMarker, broker, loop, process, history, NotSeen,
       TypeOK, BodyInv, LoopInv, Published, Busy, Event, Msg
<1>23. CASE UNCHANGED vars
  BY <1>23 DEF vars, TypeOK, BodyInv, LoopInv, Published, Busy, Event, Msg
<1> QED
  BY <1>1, <1>2, <1>3, <1>4, <1>5, <1>6, <1>7, <1>10, <1>11, <1>12, <1>13, <1>14,
     <1>15, <1>16, <1>18, <1>19, <1>20, <1>21, <1>22, <1>23
  DEF Next, Loop, Process

(* Every variable of the pipeline keeps its type, whatever is published    *)
(* and whatever fails.                                                     *)
THEOREM TypeCorrect == Spec => []TypeOK
<1>1. Init => PipelineInv
  BY PipelineInit
<1>2. PipelineInv /\ [Next]_vars => PipelineInv'
  BY PipelineStep
<1>3. PipelineInv => TypeOK
  BY DEF PipelineInv
<1> QED BY <1>1, <1>2, <1>3, PTL DEF Spec

-----------------------------------------------------------------------------
(* Deduplication *)

(* A firstTime answer is remembered by the marker, or it is so long ago    *)
(* that the marker may be gone.                                            *)
WindowInv ==
  /\ \A e \in EventIds :
       /\ seen[e] <= now
       /\ \A k \in DOMAIN claims[e] :
            /\ claims[e][k] <= now
            /\ \/ seen[e] # NotSeen /\ claims[e][k] <= seen[e]
               \/ now - claims[e][k] >= DedupTTL
  /\ DedupWindow

(* No event is claimed initially. *)
LEMMA WindowInit == Init => WindowInv
BY DEF Init, WindowInv, DedupWindow, NotSeen

(* Every step keeps the window: FirstTime claims only what is unmarked. *)
LEMMA WindowStep ==
  ASSUME PipelineInv, WindowInv, [Next]_vars
  PROVE  WindowInv'
<1>1. /\ seen \in [EventIds -> Nat \cup {NotSeen}]
      /\ claims \in [EventIds -> Seq(Nat)]
      /\ now \in Nat
  BY DEF PipelineInv, TypeOK
<1>2. DedupTTL \in Nat
  BY BoundsAssumption
<1>3. ASSUME UNCHANGED <<seen, now, claims>> PROVE WindowInv'
  BY <1>3 DEF WindowInv, DedupWindow
<1>4. ASSUME NEW i \in Instances, FirstTime(i) PROVE WindowInv'
  <2> DEFINE e == Event(i)
  <2>1. e \in EventIds
    BY <1>4 DEF FirstTime, PipelineInv, LoopInv
  <2>2. /\ seen[e] = NotSeen
        /\ seen' = [seen EXCEPT ![e] = now]
        /\ claims' = [claims EXCEPT ![e] = Append(claims[e], now)]
        /\ now' = now
    BY <1>4 DEF FirstTime, Unmarked
  <2> HIDE DEF e
  <2>3. \A k \in DOMAIN claims[e] : claims[e][k] \in Nat /\ now - claims[e][k] >= DedupTTL
    BY <1>1, <2>1, <2>2 DEF WindowInv
  <2>4. /\ claims'[e] = Append(claims[e], now)
        /\ seen'[e] = now
        /\ \A f \in EventIds : f # e => claims'[f] = claims[f] /\ seen'[f] = seen[f]
    BY <1>1, <2>1, <2>2
  <2>5. /\ DOMAIN claims'[e] = 1..(Len(claims[e]) + 1)
        /\ DOMAIN claims[e] = 1..Len(claims[e])
        /\ Len(claims[e]) \in Nat
        /\ claims'[e][Len(claims[e]) + 1] = now
        /\ \A k \in 1..Len(claims[e]) : claims'[e][k] = claims[e][k]
    BY <1>1, <2>1, <2>4
  <2>6. \A j, k \in DOMAIN claims'[e] : j < k => claims'[e][k] - claims'[e][j] >= DedupTTL
    <3>1. \A j, k \in 1..Len(claims[e]) : j < k => claims[e][k] - claims[e][j] >= DedupTTL
      BY <2>1, <2>5 DEF WindowInv, DedupWindow
    <3>2. \A j \in 1..Len(claims[e]) : now - claims'[e][j] >= DedupTTL
      BY <2>3, <2>5
    <3> QED BY <2>5, <3>1, <3>2
  <2>7. \A k \in DOMAIN claims'[e] : claims'[e][k] <= now
    BY <1>1, <2>1, <2>5 DEF WindowInv
  <2> QED
    BY <1>1, <2>2, <2>4, <2>6, <2>7 DEF WindowInv, DedupWindow, NotSeen
<1>5. ASSUME NEW i \in Instances, MarkSeenFails(i) PROVE WindowInv'
  <2>1. CASE UNCHANGED seen
    BY <1>3, <1>5, <2>1 DEF MarkSeenFails, history
  <2>2. CASE Unmarked(Event(i)) /\ seen' = [seen EXCEPT ![Event(i)] = now]
    BY <1>1, <1>2, <1>5, <2>2 DEF MarkSeenFails, history, Unmarked, WindowInv, DedupWindow,
       NotSeen
  <2> QED BY <1>5, <2>1, <2>2 DEF MarkSeenFails
<1>6. ASSUME Tick PROVE WindowInv'
  <2>1. now' = now + 1 /\ UNCHANGED <<seen, claims>>
    BY <1>6 DEF Tick, db, history
  <2>2. \A e \in EventIds : \A k \in DOMAIN claims[e] : claims[e][k] \in Nat
    BY <1>1
  <2> QED BY <1>1, <1>2, <2>1, <2>2 DEF WindowInv, DedupWindow, NotSeen
<1>7. ASSUME NEW e \in EventIds, ExpireMarker(e) PROVE WindowInv'
  <2>1. /\ seen[e] # NotSeen /\ now - seen[e] >= DedupTTL
        /\ seen' = [seen EXCEPT ![e] = NotSeen]
        /\ UNCHANGED <<claims, now>>
    BY <1>7 DEF ExpireMarker, Unmarked, Expired, history
  <2>2. \A f \in EventIds : \A k \in DOMAIN claims[f] : claims[f][k] \in Nat
    BY <1>1
  <2> QED BY <1>1, <1>2, <2>1, <2>2 DEF WindowInv, DedupWindow, NotSeen
<1>8. CASE UNCHANGED vars
  BY <1>3, <1>8 DEF vars
<1>9. ASSUME NEW c \in Copies, Publish(c) \/ \E i \in Instances : Deliver(c, i)
      PROVE  WindowInv'
  BY <1>3, <1>9 DEF Publish, Deliver, db, history
<1>10. ASSUME NEW i \in Instances,
              \/ Take(i) \/ Return(i) \/ Duplicate(i)
              \/ ApplyUpdate(i) \/ SkipItem(i) \/ UpdateFails(i) \/ Ack(i) \/ Nack(i)
       PROVE  WindowInv'
  BY <1>3, <1>10 DEF Take, Return, Duplicate, ApplyUpdate, SkipItem, UpdateFails, Ack, Nack,
       Settle, db, history
<1>11. ASSUME NEW i \in Instances, Process(i) PROVE WindowInv'
  BY <1>3, <1>11 DEF Process, Start, Terminate, CloseBroker, Exit, Kill, DropConnection,
       Gone, db, history
<1> QED
  BY <1>4, <1>5, <1>6, <1>7, <1>8, <1>9, <1>10, <1>11 DEF Next, Loop

(* Two deliveries of one event that are both answered firstTime are at     *)
(* least the marker's lifetime apart, for any number of instances, copies  *)
(* and faults.                                                             *)
THEOREM DedupWindowHolds == Spec => []DedupWindow
<1>1. Init => PipelineInv /\ WindowInv
  BY PipelineInit, WindowInit
<1>2. PipelineInv /\ WindowInv /\ [Next]_vars => (PipelineInv /\ WindowInv)'
  BY PipelineStep, WindowStep
<1>3. WindowInv => DedupWindow
  BY DEF WindowInv
<1> QED BY <1>1, <1>2, <1>3, PTL DEF Spec

(* Only an instance whose connection is closed gives a copy back to the    *)
(* queue: "No infinite retry loop" (docs/system-design.md:42).             *)
THEOREM RequeuedOnDisconnectOnlyHolds == Spec => RequeuedOnDisconnectOnly
<1>1. ASSUME TypeOK, [Next]_vars, NEW c \in Copies, NEW i \in Instances,
             place[c] = i, place'[c] = "ready"
      PROVE  link'[i] = "closed"
  <2> USE InstancesAssumption DEF BrokerPlaces
  <2>1. CASE UNCHANGED place
    BY <1>1, <2>1
  <2>2. ASSUME NEW j \in Instances, place' = Requeued(j), link'[j] = "closed"
        PROVE  link'[i] = "closed"
    BY <1>1, <2>2 DEF Requeued, TypeOK
  <2>3. ASSUME NEW d \in Copies, Publish(d)
        PROVE  FALSE
    BY <1>1, <2>3 DEF Publish, TypeOK
  <2>4. ASSUME NEW d \in Copies, NEW j \in Instances, Deliver(d, j)
        PROVE  FALSE
    BY <1>1, <2>4 DEF Deliver, TypeOK
  <2>5. ASSUME NEW j \in Instances, Ack(j) \/ Nack(j)
        PROVE  FALSE
    BY <1>1, <2>5 DEF Ack, Nack, Settle, TypeOK
  <2>6. ASSUME NEW j \in Instances, Loop(j), ~Ack(j), ~Nack(j)
        PROVE  UNCHANGED place
    BY <2>6 DEF Loop, Take, Return, Duplicate, FirstTime, MarkSeenFails,
                ApplyUpdate, SkipItem, UpdateFails, broker
  <2>7. ASSUME NEW j \in Instances, Process(j)
        PROVE  \/ UNCHANGED place
               \/ place' = Requeued(j) /\ link'[j] = "closed"
    <3>1. Start(j) \/ Terminate(j) => UNCHANGED place
      BY DEF Start, Terminate, broker
    <3>2. CloseBroker(j) \/ DropConnection(j)
            => place' = Requeued(j) /\ link'[j] = "closed"
      BY <1>1 DEF CloseBroker, DropConnection, TypeOK
    <3>3. Exit(j) \/ Kill(j) => place' = Requeued(j) /\ link'[j] = "closed"
      BY <1>1 DEF Exit, Kill, Gone, TypeOK
    <3> QED BY <2>7, <3>1, <3>2, <3>3 DEF Process
  <2>8. Tick \/ (\E e \in EventIds : ExpireMarker(e)) \/ UNCHANGED vars
          => UNCHANGED place
    BY DEF Tick, ExpireMarker, broker, vars
  <2> QED BY <1>1, <2>1, <2>2, <2>3, <2>4, <2>5, <2>6, <2>7, <2>8 DEF Next
<1>2. TypeOK /\ [Next]_vars =>
        [\A c \in Copies, i \in Instances :
           place[c] = i /\ place'[c] = "ready" => link'[i] = "closed"]_vars
  BY <1>1
<1> QED BY <1>2, TypeCorrect, PTL DEF Spec, RequeuedOnDisconnectOnly
=============================================================================
