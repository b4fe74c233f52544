-------------------------- MODULE AtMostOnceProofs --------------------------
(***************************************************************************)
(* The pipeline implements AtMostOnceLedger as long as no marker expires.  *)
(*                                                                         *)
(* The argument: a step of the pipeline does one of four things to the     *)
(* ledger (StepKinds), whatever its action: it leaves it alone, claims an  *)
(* event, makes one of its updates, or abandons it.  (A fifth removes an   *)
(* expired marker, which NoExpiry excludes.)  The invariant               *)
(* LedgerInv then says why the last three are steps the ledger allows.     *)
(***************************************************************************)
EXTENDS EventPipelineProofs

(* Instance j goes on with the event it handles, or goes on handling none. *)
Kept(j) == /\ pc'[j] = "update" <=> pc[j] = "update"
           /\ pc[j] = "update" => hand'[j] = hand[j] /\ plan'[j] = plan[j]

BodiesKept == \A c \in Copies : Published(c) => Published(c)' /\ body'[c] = body[c]

Others(i) == BodiesKept /\ \A j \in Instances \ {i} : Kept(j)

LeavesLedger ==
  /\ BodiesKept /\ \A j \in Instances : Kept(j)
  /\ UNCHANGED <<seen, rows, claims, effects>>
  /\ now <= now' /\ (now <= Horizon => now' <= Horizon)

Claims(i) ==
  /\ Others(i)
  /\ pc[i] = "markSeen" /\ hand'[i] = hand[i]
  /\ seen[Event(i)] = NotSeen
  /\ seen' = [seen EXCEPT ![Event(i)] = now]
  /\ UNCHANGED <<rows, now, effects>>
  /\ \/ pc'[i] # "update" /\ UNCHANGED claims
     \/ claims' = [claims EXCEPT ![Event(i)] = Append(@, now)]
  /\ pc'[i] = "update" =>
       /\ Handled(Msg(i)) /\ Len(plan'[i]) = Steps(Msg(i))
       /\ plan'[i] = Handle(Msg(i).key, Msg(i).payload, Today)

Makes(i) ==
  /\ Others(i)
  /\ pc[i] = "update" /\ hand'[i] = hand[i]
  /\ effects' = [effects EXCEPT ![Event(i)] = @ + 1]
  /\ rows' \in UpdateOne(rows, Head(plan[i]))
  /\ UNCHANGED <<seen, now, claims>>
  /\ pc'[i] = "update" => /\ Len(plan[i]) # 1 /\ Len(plan'[i]) = Len(plan[i]) - 1
                         /\ plan'[i] = Tail(plan[i])

Abandons(i) ==
  /\ Others(i)
  /\ pc[i] = "update" /\ pc'[i] # "update"
  /\ UNCHANGED <<seen, rows, now, claims, effects>>

(* What the pipeline knows of the ledger.  No marker is old enough to       *)
(* expire, and an event that is not marked has added nothing.              *)
MarkersLast ==
  /\ now <= Horizon
  /\ \A e \in EventIds : /\ seen[e] <= now
                         /\ seen[e] = NotSeen => effects[e] = 0

(* An event being handled is marked, *)
HandledIsMarked ==
  \A i \in Instances : pc[i] = "update" => seen[Event(i)] # NotSeen

(* the updates made and those still planned add up to what it stands for,  *)
NothingTwice ==
  \A i \in Instances, m \in Messages : pc[i] = "update" /\ Msg(i) = m =>
    /\ Handled(m)
    /\ effects[m.id] + Len(plan[i]) = Steps(m)

(* and it is handled on one instance only. *)
OneHandler ==
  \A i, j \in Instances :
    pc[i] = "update" /\ pc[j] = "update" /\ Event(i) = Event(j) => i = j

LedgerInv == MarkersLast /\ HandledIsMarked /\ NothingTwice /\ OneHandler

(* The invariant holds initially: nothing is marked, nothing added. *)
LEMMA LedgerInvInit == Init => LedgerInv
BY BoundsAssumption DEF Init, LedgerInv, MarkersLast, HandledIsMarked, NothingTwice, OneHandler,
       NotSeen

(* The day an event is handled on does not change what it stands for. *)
LEMMA HandleLength ==
  ASSUME NEW key \in HandlerFor, NEW in \in Input, NEW today \in Nat
  PROVE  Len(Handle(key, in, today)) = Len(Handle(key, in, 0))
<1>1. Len(in.items) \in Nat
  BY LenProperties DEF Input
<1>2. Len(HandleOrderPlaced(in, today)) = Len(HandleOrderPlaced(in, 0))
  BY <1>1 DEF HandleOrderPlaced
<1> QED
  BY <1>2 DEF Handle, HandlerFor, HandleOrderDelivered, HandlePaymentSucceeded,
     HandleOrderCancelled

(* The message a copy carries is the message of its event. *)
LEMMA MessageOfEvent ==
  ASSUME NEW m \in Messages, m.id \in EventIds
  PROVE  MessageOf(m.id) = m
<1>1. \E n \in Messages : n.id = m.id
  OBVIOUS
<1>2. MessageOf(m.id) \in Messages /\ MessageOf(m.id).id = m.id
  BY <1>1 DEF MessageOf
<1> QED BY <1>2, IdsAssumption

-----------------------------------------------------------------------------
(* Every step is of one of the four kinds, or removes a marker *)

(* A copy never goes back to the outbox. *)
LEMMA PublishedStays ==
  ASSUME TypeOK, NEW c \in Copies, Published(c),
         \/ place'[c] = place[c]
         \/ place'[c] \in {"ready", "acked", "dead"} \cup Instances
  PROVE  Published(c)'
BY InstancesAssumption DEF Published, BrokerPlaces, TypeOK

(* What happens to a process abandons its event or leaves the ledger alone. *)
LEMMA ProcessKinds ==
  ASSUME PipelineInv, NEW i \in Instances, Process(i)
  PROVE  LeavesLedger \/ Abandons(i)
<1> USE DEF PipelineInv, TypeOK
<1>1. now <= now
  OBVIOUS
<1>2. ASSUME place' = Requeued(i) \/ place' = place, body' = body PROVE BodiesKept
  BY <1>2, PublishedStays DEF Requeued, BodiesKept
<1>3. ASSUME Gone(i) PROVE LeavesLedger \/ Abandons(i)
  <2>1. Others(i) /\ pc'[i] # "update" /\ UNCHANGED <<seen, rows, claims, effects, now>>
    BY <1>2, <1>3 DEF Gone, Others, Kept, db, history
  <2>2. CASE pc[i] = "update"
    BY <2>1, <2>2 DEF Abandons
  <2>3. CASE pc[i] # "update"
    BY <1>1, <2>1, <2>3 DEF LeavesLedger, Others, Kept
  <2> QED BY <2>2, <2>3
<1>4. CASE Exit(i) \/ Kill(i)
  BY <1>3, <1>4 DEF Exit, Kill
<1>5. CASE Start(i)
  BY <1>1, <1>2, <1>5 DEF Start, broker, db, history, LeavesLedger, Kept
<1>6. CASE Terminate(i) \/ CloseBroker(i) \/ DropConnection(i)
  BY <1>1, <1>2, <1>6 DEF Terminate, CloseBroker, DropConnection, broker, loop, db, history,
     LeavesLedger, Kept
<1> QED BY <1>4, <1>5, <1>6 DEF Process

(* The first delivery of an event claims it. *)
LEMMA ClaimKind ==
  ASSUME PipelineInv, NEW i \in Instances, FirstTime(i)
  PROVE  Claims(i)
<1> USE DEF PipelineInv, TypeOK
<1>1. /\ Others(i) /\ UNCHANGED <<rows, now, effects, hand>>
      /\ claims' = [claims EXCEPT ![Event(i)] = Append(@, now)]
  BY DEF FirstTime, broker, process, Others, Kept, BodiesKept, Published
<1>2. /\ pc[i] = "markSeen"
      /\ seen[Event(i)] = NotSeen
      /\ seen' = [seen EXCEPT ![Event(i)] = now]
  BY DEF FirstTime, Unmarked
<1>3. ASSUME pc'[i] = "update"
      PROVE  /\ Handled(Msg(i)) /\ Len(plan'[i]) = Steps(Msg(i))
             /\ plan'[i] = Handle(Msg(i).key, Msg(i).payload, Today)
  <2>1. /\ Msg(i).key \in HandlerFor
        /\ Msg(i).payload # Malformed
        /\ plan' = [plan EXCEPT ![i] = Handle(Msg(i).key, Msg(i).payload, Today)]
    BY <1>3 DEF FirstTime
  <2>2. Msg(i) \in Messages /\ Msg(i).id \in EventIds /\ Msg(i).wellFormed
    BY <1>2 DEF LoopInv, BodyInv, Busy, Msg, Event
  <2>3. Msg(i).payload \in Input
    BY <2>1, <2>2, MessagesAssumption DEF Message
  <2>4. Today \in Nat
    BY BoundsAssumption, DivType DEF Today
  <2>5. Handled(Msg(i))
    BY <2>1, <2>2, IdsAssumption DEF Handled
  <2> QED BY <2>1, <2>3, <2>4, <2>5, HandleLength DEF Steps
<1> QED BY <1>1, <1>2, <1>3 DEF Claims

(* Every step of a consumer loop is of one of the four kinds. *)
LEMMA LoopKinds ==
  ASSUME PipelineInv, NEW i \in Instances, Loop(i)
  PROVE  LeavesLedger \/ Claims(i) \/ Makes(i) \/ Abandons(i)
<1> USE DEF PipelineInv, TypeOK
<1>1. now <= now
  OBVIOUS
<1>2. ASSUME UNCHANGED broker PROVE BodiesKept
  BY <1>2 DEF broker, BodiesKept, Published
<1>3. CASE Take(i) \/ Return(i) \/ Duplicate(i)
  BY <1>1, <1>2, <1>3 DEF Take, Return, Duplicate, process, db, history, LeavesLedger, Kept
<1>4. CASE Ack(i) \/ Nack(i)
  <2>1. PICK outcome \in {"acked", "dead"} : Settle(i, outcome)
    BY <1>4 DEF Ack, Nack
  <2>2. pc[i] # "update"
    BY <1>4 DEF Ack, Nack
  <2>3. BodiesKept
    BY <2>1, PublishedStays DEF Settle, BodiesKept
  <2> QED BY <1>1, <2>1, <2>2, <2>3 DEF Settle, process, db, history, LeavesLedger, Kept
<1>5. CASE FirstTime(i)
  BY <1>5, ClaimKind
<1>6. CASE MarkSeenFails(i)
  <2>1. /\ pc[i] = "markSeen" /\ pc' = [pc EXCEPT ![i] = "nack"]
        /\ UNCHANGED <<place, body, hand, plan, rows, now, claims, effects>>
    BY <1>6 DEF MarkSeenFails, broker, history
  <2>2. Others(i) /\ Kept(i)
    BY <2>1 DEF Others, Kept, BodiesKept, Published
  <2>3. CASE UNCHANGED seen
    BY <1>1, <2>1, <2>2, <2>3 DEF LeavesLedger, Others
  <2>4. CASE Unmarked(Event(i)) /\ seen' = [seen EXCEPT ![Event(i)] = now]
    BY <2>1, <2>2, <2>4 DEF Claims, Unmarked
  <2> QED BY <1>6, <2>3, <2>4 DEF MarkSeenFails
<1>7. ASSUME pc[i] = "update", Advance(i), rows' \in UpdateOne(rows, Head(plan[i])),
             UNCHANGED <<broker, hand, buffer, process, seen, now, quota, claims>>
      PROVE  Makes(i)
  <2>1. Len(Tail(plan[i])) = Len(plan[i]) - 1
    BY <1>7, TailType DEF LoopInv
  <2>2. Others(i)
    BY <1>2, <1>7 DEF Advance, Others, Kept
  <2>3. pc'[i] = "update" => Len(plan[i]) # 1 /\ plan'[i] = Tail(plan[i])
    BY <1>7 DEF Advance
  <2> QED
    BY <1>7, <2>1, <2>2, <2>3 DEF Advance, Makes
<1>8. CASE ApplyUpdate(i)
  BY <1>7, <1>8 DEF ApplyUpdate
<1>9. CASE SkipItem(i)
  <2>1. rows \in UpdateOne(rows, NoCall)
    BY DEF UpdateOne, NoCall, Modify, Matches
  <2> QED BY <1>7, <1>9, <2>1 DEF SkipItem, db
<1>10. CASE UpdateFails(i)
  <2>1. /\ pc[i] = "update" /\ pc' = [pc EXCEPT ![i] = "nack"]
        /\ plan' = [plan EXCEPT ![i] = <<>>]
        /\ UNCHANGED <<place, body, hand, now, seen, claims>>
    BY <1>10 DEF UpdateFails, broker
  <2>2. Others(i) /\ pc'[i] # "update"
    BY <2>1 DEF Others, Kept, BodiesKept, Published
  <2>3. \/ UNCHANGED <<rows, effects>>
        \/ /\ rows' \in UpdateOne(rows, Head(plan[i]))
           /\ effects' = [effects EXCEPT ![Event(i)] = @ + 1]
    BY <1>10 DEF UpdateFails
  <2> QED BY <2>1, <2>2, <2>3 DEF Makes, Abandons
<1> QED BY <1>3, <1>4, <1>5, <1>6, <1>8, <1>9, <1>10 DEF Loop

(* Every step of the pipeline is of one of the four kinds, or the TTL      *)
(* monitor's.                                                              *)
LEMMA StepKinds ==
  ASSUME PipelineInv, [Next]_vars
  PROVE  \/ LeavesLedger
         \/ \E i \in Instances : Claims(i) \/ Makes(i) \/ Abandons(i)
         \/ \E e \in EventIds : ExpireMarker(e)
<1> USE DEF PipelineInv, TypeOK
<1>1. now <= now
  OBVIOUS
<1>2. ASSUME NEW c \in Copies, Publish(c) PROVE LeavesLedger
  <2>1. BodiesKept
    BY <1>2 DEF Publish, BodiesKept, Published
  <2> QED BY <1>1, <1>2, <2>1 DEF Publish, loop, db, history, LeavesLedger, Kept
<1>3. ASSUME NEW c \in Copies, NEW i \in Instances, Deliver(c, i) PROVE LeavesLedger
  <2>1. BodiesKept
    BY <1>3, PublishedStays DEF Deliver, BodiesKept
  <2> QED BY <1>1, <1>3, <2>1 DEF Deliver, loop, db, history, LeavesLedger, Kept
<1>4. ASSUME Tick PROVE LeavesLedger
  BY <1>4, BoundsAssumption DEF Tick, broker, loop, db, history, LeavesLedger, BodiesKept,
     Published, Kept
<1>5. CASE UNCHANGED vars
  BY <1>1, <1>5 DEF vars, LeavesLedger, BodiesKept, Published, Kept
<1> QED
  BY <1>2, <1>3, <1>4, <1>5, LoopKinds, ProcessKinds DEF Next

(* While markers last longer than the clock runs, none of them expires. *)
LEMMA NoExpiry ==
  ASSUME DedupTTL > Horizon, PipelineInv, LedgerInv
  PROVE  \A e \in EventIds : ~ExpireMarker(e)
BY BoundsAssumption DEF ExpireMarker, Unmarked, Expired, LedgerInv, MarkersLast, NotSeen,
   PipelineInv, TypeOK

-----------------------------------------------------------------------------
(* The invariant *)

(* An instance that goes on with its event keeps the event. *)
LEMMA KeptEvent ==
  ASSUME PipelineInv, BodiesKept, NEW j \in Instances, Kept(j), pc[j] = "update"
  PROVE  /\ Event(j)' = Event(j)
         /\ Msg(j)' = Msg(j)
         /\ Event(j) \in EventIds
         /\ Len(plan'[j]) = Len(plan[j])
<1>1. hand[j] \in Copies /\ Published(hand[j]) /\ Event(j) \in EventIds
  BY DEF PipelineInv, LoopInv, Busy
<1>2. hand'[j] = hand[j] /\ plan'[j] = plan[j] /\ body'[hand[j]] = body[hand[j]]
  BY <1>1 DEF Kept, BodiesKept
<1> QED BY <1>1, <1>2 DEF Event, Msg

(* An instance at work on an event has a message of that event. *)
LEMMA OwnEvent ==
  ASSUME PipelineInv, BodiesKept, NEW i \in Instances, hand'[i] = hand[i],
         pc[i] \in {"markSeen", "update"}
  PROVE  /\ Event(i)' = Event(i)
         /\ Msg(i)' = Msg(i)
         /\ Event(i) \in EventIds
         /\ Steps(MessageOf(Event(i))) = Steps(Msg(i))
<1>1. /\ hand[i] \in Copies /\ Published(hand[i]) /\ Event(i) \in EventIds
      /\ Msg(i) \in Messages
  BY DEF PipelineInv, LoopInv, BodyInv, Busy, Msg
<1>2. body'[hand[i]] = body[hand[i]]
  BY <1>1 DEF BodiesKept
<1> QED BY <1>1, <1>2, MessageOfEvent DEF Event, Msg

(* Steps of each kind keep the invariant. *)
LEMMA LedgerInvStep ==
  ASSUME DedupTTL > Horizon, PipelineInv, LedgerInv, [Next]_vars
  PROVE  LedgerInv'
<1> DEFINE Going(j) == /\ pc[j] = "update"
                       /\ Event(j)' = Event(j) /\ Msg(j)' = Msg(j)
                       /\ Event(j) \in EventIds
                       /\ Len(plan'[j]) = Len(plan[j])
<1>1. /\ seen \in [EventIds -> Nat \cup {NotSeen}]
      /\ effects \in [EventIds -> Nat]
      /\ now \in Nat /\ plan \in [Instances -> Seq(Update)]
  BY DEF PipelineInv, TypeOK
<1>2. \A j \in Instances : Len(plan[j]) \in Nat
  BY <1>1, LenProperties
<1>3. CASE LeavesLedger
  <2>1. \A j \in Instances : pc'[j] = "update" => Going(j)
    BY <1>3, KeptEvent DEF LeavesLedger, Kept
  <2>2. UNCHANGED <<seen, effects>> /\ now <= now' /\ now' <= Horizon
    BY <1>3 DEF LeavesLedger, LedgerInv, MarkersLast
  <2>3. now' \in Nat
    BY PipelineStep DEF PipelineInv, TypeOK
  <2> QED BY <1>1, <2>1, <2>2, <2>3 DEF LedgerInv, MarkersLast, HandledIsMarked, NothingTwice, OneHandler, NotSeen, Event
<1>4. ASSUME NEW i \in Instances, Claims(i) PROVE LedgerInv'
  <2>1. \A j \in Instances \ {i} : pc'[j] = "update" => Going(j)
    BY <1>4, KeptEvent DEF Claims, Others, Kept
  <2>2. /\ pc[i] = "markSeen" /\ Event(i)' = Event(i) /\ Msg(i)' = Msg(i)
        /\ Event(i) \in EventIds
    BY <1>4, OwnEvent DEF Claims, Others
  <2>3. /\ seen[Event(i)] = NotSeen
        /\ seen' = [seen EXCEPT ![Event(i)] = now]
        /\ UNCHANGED <<now, effects>>
        /\ pc'[i] = "update" => Handled(Msg(i)) /\ Len(plan'[i]) = Steps(Msg(i))
    BY <1>4 DEF Claims
  <2> DEFINE e == Event(i)
  <2>4. /\ seen'[e] = now
        /\ \A f \in EventIds : f # e => seen'[f] = seen[f]
    BY <1>1, <2>2, <2>3
  <2>5. \A j \in Instances \ {i} : pc'[j] = "update" => Event(j) # e
    BY <2>1, <2>3 DEF LedgerInv, MarkersLast, HandledIsMarked, NothingTwice, OneHandler
  <2>6. effects[e] = 0
    BY <2>2, <2>3 DEF LedgerInv, MarkersLast, HandledIsMarked, NothingTwice, OneHandler
  <2>7. /\ now' <= Horizon
        /\ \A f \in EventIds : /\ seen'[f] <= now'
                               /\ seen'[f] = NotSeen => effects'[f] = 0
    BY <1>1, <2>2, <2>3, <2>4 DEF LedgerInv, MarkersLast, HandledIsMarked, NothingTwice, OneHandler, NotSeen
  <2>8. ASSUME NEW j \in Instances, NEW m \in Messages, pc'[j] = "update", Msg(j)' = m
        PROVE  /\ Handled(m)
               /\ effects'[m.id] + Len(plan'[j]) = Steps(m)
    <3>1. CASE j # i
      <4>1. Event(j) = m.id /\ Msg(j) = m
        BY <2>8, <3>1, <2>1 DEF Event
      <4> QED BY <2>8, <3>1, <4>1, <2>1, <2>3, <2>4, <2>5 DEF LedgerInv, MarkersLast, HandledIsMarked, NothingTwice, OneHandler
    <3>2. CASE j = i
      <4>1. Event(i) = m.id /\ Msg(i) = m
        BY <2>8, <3>2, <2>2 DEF Event
      <4>2. Steps(m) \in Nat
        BY <2>8, <3>2, <4>1, <2>3, LenProperties, PipelineStep DEF PipelineInv, TypeOK
      <4> QED BY <2>8, <3>2, <4>1, <4>2, <1>1, <2>2, <2>3, <2>4, <2>6 DEF NotSeen
    <3> QED BY <3>1, <3>2
  <2>9. \A j, k \in Instances :
          pc'[j] = "update" /\ pc'[k] = "update" /\ Event(j)' = Event(k)' => j = k
    BY <2>1, <2>2, <2>5 DEF LedgerInv, MarkersLast, HandledIsMarked, NothingTwice, OneHandler
  <2>10. \A j \in Instances : pc'[j] = "update" => seen'[Event(j)'] # NotSeen
    BY <1>1, <2>1, <2>2, <2>4, <2>5 DEF LedgerInv, MarkersLast, HandledIsMarked, NothingTwice, OneHandler, NotSeen
  <2> QED
    <3>1. MarkersLast'
      BY <2>7 DEF MarkersLast
    <3>2. HandledIsMarked'
      BY <2>10 DEF HandledIsMarked
    <3>3. NothingTwice'
      BY <2>8 DEF NothingTwice
    <3>4. OneHandler'
      BY <2>9 DEF OneHandler
    <3> QED BY <3>1, <3>2, <3>3, <3>4 DEF LedgerInv
<1>5. ASSUME NEW i \in Instances, Makes(i) PROVE LedgerInv'
  <2>1. \A j \in Instances \ {i} : pc'[j] = "update" => Going(j)
    BY <1>5, KeptEvent DEF Makes, Others, Kept
  <2>2. /\ pc[i] = "update" /\ Event(i)' = Event(i) /\ Msg(i)' = Msg(i)
        /\ Event(i) \in EventIds
    BY <1>5, OwnEvent DEF Makes, Others
  <2>3. /\ effects' = [effects EXCEPT ![Event(i)] = @ + 1]
        /\ UNCHANGED <<seen, now>>
        /\ pc'[i] = "update" => Len(plan'[i]) = Len(plan[i]) - 1
    BY <1>5 DEF Makes
  <2>4. \A j \in Instances \ {i} : pc'[j] = "update" => Event(j) # Event(i)
    BY <2>1, <2>2 DEF LedgerInv, MarkersLast, HandledIsMarked, NothingTwice, OneHandler
  <2>5. /\ effects'[Event(i)] = effects[Event(i)] + 1
        /\ \A f \in EventIds : f # Event(i) => effects'[f] = effects[f]
    BY <1>1, <2>2, <2>3
  <2>6. seen[Event(i)] # NotSeen
    BY <2>2 DEF LedgerInv, MarkersLast, HandledIsMarked, NothingTwice, OneHandler
  <2>7. /\ now' <= Horizon
        /\ \A f \in EventIds : /\ seen'[f] <= now'
                               /\ seen'[f] = NotSeen => effects'[f] = 0
    BY <2>3, <2>5, <2>6 DEF LedgerInv, MarkersLast, HandledIsMarked, NothingTwice, OneHandler
  <2>8. ASSUME NEW j \in Instances, NEW m \in Messages, pc'[j] = "update", Msg(j)' = m
        PROVE  /\ Handled(m)
               /\ effects'[m.id] + Len(plan'[j]) = Steps(m)
    <3>1. CASE j # i
      <4>1. Event(j) = m.id /\ Msg(j) = m
        BY <2>8, <3>1, <2>1 DEF Event
      <4> QED BY <2>8, <3>1, <4>1, <2>1, <2>3, <2>4, <2>5 DEF LedgerInv, MarkersLast, HandledIsMarked, NothingTwice, OneHandler
    <3>2. CASE j = i
      <4>1. Event(i) = m.id /\ Msg(i) = m
        BY <2>8, <3>2, <2>2 DEF Event
      <4>2. Handled(m) /\ effects[m.id] + Len(plan[i]) = Steps(m)
        BY <4>1, <2>2 DEF LedgerInv, MarkersLast, HandledIsMarked, NothingTwice, OneHandler
      <4>3. Len(plan'[i]) = Len(plan[i]) - 1
        BY <2>8, <3>2, <2>3
      <4>4. effects'[m.id] = effects[m.id] + 1
        BY <4>1, <2>5
      <4>5. effects[m.id] \in Nat /\ Len(plan[i]) \in Nat
        BY <4>1, <1>1, <1>2, <2>2
      <4>6. effects'[m.id] + Len(plan'[i]) = effects[m.id] + Len(plan[i])
        BY <4>3, <4>4, <4>5
      <4> QED BY <3>2, <4>2, <4>6
    <3> QED BY <3>1, <3>2
  <2>9. \A j, k \in Instances :
          pc'[j] = "update" /\ pc'[k] = "update" /\ Event(j)' = Event(k)' => j = k
    BY <2>1, <2>2, <2>4 DEF LedgerInv, MarkersLast, HandledIsMarked, NothingTwice, OneHandler
  <2>10. \A j \in Instances : pc'[j] = "update" => seen'[Event(j)'] # NotSeen
    BY <2>1, <2>2, <2>3, <2>6 DEF LedgerInv, MarkersLast, HandledIsMarked, NothingTwice, OneHandler
  <2> QED
    <3>1. MarkersLast'
      BY <2>7 DEF MarkersLast
    <3>2. HandledIsMarked'
      BY <2>10 DEF HandledIsMarked
    <3>3. NothingTwice'
      BY <2>8 DEF NothingTwice
    <3>4. OneHandler'
      BY <2>9 DEF OneHandler
    <3> QED BY <3>1, <3>2, <3>3, <3>4 DEF LedgerInv
<1>6. ASSUME NEW i \in Instances, Abandons(i) PROVE LedgerInv'
  <2>1. \A j \in Instances : pc'[j] = "update" => Going(j)
    BY <1>6, KeptEvent DEF Abandons, Others, Kept
  <2>2. UNCHANGED <<seen, effects, now>>
    BY <1>6 DEF Abandons
  <2> QED BY <2>1, <2>2 DEF LedgerInv, MarkersLast, HandledIsMarked, NothingTwice, OneHandler
<1> QED BY <1>3, <1>4, <1>5, <1>6, StepKinds, NoExpiry

-----------------------------------------------------------------------------
(* The refinement *)

(* The status of an event the step has nothing to do with. *)
LEMMA StatusKept ==
  ASSUME NEW f \in EventIds, seen'[f] = seen[f],
         \A j \in Instances :
           (pc'[j] = "update" /\ Event(j)' = f) <=> (pc[j] = "update" /\ Event(j) = f)
  PROVE  EventStatus(f)' = EventStatus(f)
BY DEF EventStatus

(* A step that leaves the ledger alone leaves every status. *)
LEMMA KeptStatus ==
  ASSUME PipelineInv, BodiesKept, NEW j \in Instances, Kept(j), NEW f \in EventIds
  PROVE  (pc'[j] = "update" /\ Event(j)' = f) <=> (pc[j] = "update" /\ Event(j) = f)
BY KeptEvent DEF Kept

(* Every step of the pipeline is a step of the ledger or a stutter. *)
LEMMA LedgerStep ==
  ASSUME DedupTTL > Horizon, PipelineInv, LedgerInv, [Next]_vars
  PROVE  [Ledger!LedgerNext]_(Ledger!ledger)
<1> DEFINE status == [e \in EventIds |-> EventStatus(e)]
           size   == [e \in EventIds |-> Steps(MessageOf(e))]
<1>1. /\ seen \in [EventIds -> Nat \cup {NotSeen}]
      /\ effects \in [EventIds -> Nat]
      /\ now \in Nat
      /\ \A j \in Instances : Len(plan[j]) \in Nat
  BY LenProperties DEF PipelineInv, TypeOK
<1>2. CASE LeavesLedger
  <2>1. \A f \in EventIds : EventStatus(f)' = EventStatus(f)
    BY <1>2, StatusKept, KeptStatus DEF LeavesLedger
  <2> QED BY <1>2, <2>1 DEF LeavesLedger, Ledger!ledger
<1>3. ASSUME NEW i \in Instances, Claims(i) PROVE \E e \in EventIds : Ledger!Claim(e)
  <2>1. /\ pc[i] = "markSeen" /\ Event(i)' = Event(i) /\ Event(i) \in EventIds
    BY <1>3, OwnEvent DEF Claims, Others
  <2>2. /\ seen[Event(i)] = NotSeen
        /\ seen' = [seen EXCEPT ![Event(i)] = now]
        /\ effects' = effects
    BY <1>3 DEF Claims
  <2>3. ASSUME NEW f \in EventIds, f # Event(i)
        PROVE  EventStatus(f)' = EventStatus(f)
    BY <1>1, <1>3, <2>1, <2>2, <2>3, StatusKept, KeptStatus DEF Claims, Others
  <2>4. EventStatus(Event(i)) = "new"
    BY <2>2 DEF EventStatus
  <2>5. seen'[Event(i)'] # NotSeen
    BY <1>1, <2>1, <2>2 DEF NotSeen
  <2>6. (EventStatus(Event(i)))' \in {"open", "closed"}
    BY <2>5 DEF EventStatus
  <2>7. PICK e \in EventIds : e = Event(i)
    BY <2>1
  <2>8. EventStatus(e) = "new" /\ EventStatus(e)' \in {"open", "closed"}
    BY <2>1, <2>4, <1>1, <2>2, <2>7 DEF EventStatus, NotSeen
  <2>9. status' = [status EXCEPT ![e] = EventStatus(e)']
    BY <2>3, <2>7
  <2> QED BY <2>2, <2>7, <2>8, <2>9 DEF Ledger!Claim
<1>4. ASSUME NEW i \in Instances, pc[i] = "update", Event(i)' = Event(i) \/ pc'[i] # "update",
             Others(i), seen' = seen, NEW e \in EventIds, e = Event(i)
      PROVE  /\ EventStatus(e) = "open"
             /\ EventStatus(e)' = IF pc'[i] = "update" THEN "open" ELSE "closed"
             /\ \A f \in EventIds \ {e} : EventStatus(f)' = EventStatus(f)
  <2>1. seen[e] # NotSeen
    BY <1>4 DEF LedgerInv, HandledIsMarked
  <2>2. EventStatus(e) = "open"
    BY <1>4, <2>1 DEF EventStatus
  <2>3. \A j \in Instances \ {i} : ~(pc'[j] = "update" /\ Event(j)' = e)
    BY <1>4, KeptStatus DEF Others, LedgerInv, OneHandler
  <2>4. EventStatus(e)' = IF pc'[i] = "update" THEN "open" ELSE "closed"
    BY <1>4, <2>1, <2>3 DEF EventStatus
  <2>5. ASSUME NEW f \in EventIds \ {e} PROVE EventStatus(f)' = EventStatus(f)
    BY <1>4, <2>5, StatusKept, KeptStatus DEF Others
  <2> QED BY <2>2, <2>4, <2>5
<1>5. ASSUME NEW i \in Instances, Makes(i) PROVE \E e \in EventIds : Ledger!Apply(e)
  <2>1. /\ pc[i] = "update" /\ Event(i)' = Event(i) /\ Event(i) \in EventIds
        /\ Steps(MessageOf(Event(i))) = Steps(Msg(i))
    BY <1>5, OwnEvent DEF Makes, Others
  <2>2. PICK e \in EventIds : e = Event(i)
    BY <2>1
  <2>3. Msg(i) \in Messages /\ plan[i] # <<>> /\ plan[i] \in Seq(Update)
    BY <2>1 DEF PipelineInv, TypeOK, LoopInv, BodyInv, Busy, Msg
  <2>4. PICK m \in Messages : m = Msg(i)
    BY <2>3
  <2>5. effects[e] + Len(plan[i]) = Steps(m)
    BY <2>1, <2>2, <2>4 DEF LedgerInv, NothingTwice, Event
  <2>6. Len(plan[i]) # 0
    BY <2>3, EmptySeq
  <2>7. size[e] = Steps(m)
    BY <2>1, <2>2, <2>4
  <2>8. /\ effects[e] < size[e]
        /\ pc'[i] = "update" => effects[e] + 1 < size[e]
    <3>1. effects[e] \in Nat /\ Len(plan[i]) \in Nat
      BY <1>1
    <3>2. pc'[i] = "update" => Len(plan[i]) # 1
      BY <1>5 DEF Makes
    <3>3. \A done, left \in Nat :
            left # 0 => /\ done < done + left
                        /\ left # 1 => done + 1 < done + left
      OBVIOUS
    <3>4. /\ effects[e] < Steps(m)
          /\ Len(plan[i]) # 1 => effects[e] + 1 < Steps(m)
      BY <2>5, <2>6, <3>1, <3>3
    <3> QED BY <2>7, <3>2, <3>4
  <2>9. effects' = [effects EXCEPT ![e] = @ + 1] /\ effects'[e] = effects[e] + 1
    BY <1>1, <1>5, <2>2 DEF Makes
  <2>10. /\ EventStatus(e) = "open"
         /\ EventStatus(e)' = IF pc'[i] = "update" THEN "open" ELSE "closed"
         /\ \A f \in EventIds \ {e} : EventStatus(f)' = EventStatus(f)
    BY <1>4, <1>5, <2>1, <2>2 DEF Makes
  <2>11. CASE pc'[i] = "update"
    <3>1. status' = status
      BY <2>10, <2>11
    <3> QED BY <2>8, <2>9, <2>10, <2>11, <3>1 DEF Ledger!Apply
  <2>12. CASE pc'[i] # "update"
    <3>1. status' = [status EXCEPT ![e] = "closed"]
      BY <2>10, <2>12
    <3> QED BY <2>8, <2>9, <2>10, <3>1 DEF Ledger!Apply
  <2> QED BY <2>11, <2>12
<1>6. ASSUME NEW i \in Instances, Abandons(i) PROVE \E e \in EventIds : Ledger!Abandon(e)
  <2>1. pc[i] = "update" /\ Event(i) \in EventIds
    BY <1>6 DEF Abandons, PipelineInv, LoopInv
  <2>2. PICK e \in EventIds : e = Event(i)
    BY <2>1
  <2>3. /\ EventStatus(e) = "open"
        /\ EventStatus(e)' = "closed"
        /\ \A f \in EventIds \ {e} : EventStatus(f)' = EventStatus(f)
    BY <1>4, <1>6, <2>2 DEF Abandons
  <2>4. status' = [status EXCEPT ![e] = "closed"] /\ effects' = effects
    BY <1>6, <2>3 DEF Abandons
  <2> QED BY <2>3, <2>4 DEF Ledger!Abandon
<1> QED
  BY <1>2, <1>3, <1>5, <1>6, StepKinds, NoExpiry DEF Ledger!LedgerNext

(* While no marker expires, the pipeline keeps the promise of              *)
(* AtMostOnceLedger: each update of an event at most once, in order, and   *)
(* none after its handling has ended, for any number of instances, copies, *)
(* duplicates, restarts and failures.                                      *)
THEOREM AtMostOnceHolds ==
  ASSUME DedupTTL > Horizon
  PROVE  Spec => AtMostOnce
<1>1. Init => PipelineInv /\ LedgerInv
  BY PipelineInit, LedgerInvInit
<1>2. PipelineInv /\ LedgerInv /\ [Next]_vars => (PipelineInv /\ LedgerInv)'
  BY PipelineStep, LedgerInvStep
<1>3. Init => Ledger!LedgerInit
  BY DEF Init, Ledger!LedgerInit, EventStatus
<1>4. PipelineInv /\ LedgerInv /\ [Next]_vars => [Ledger!LedgerNext]_(Ledger!ledger)
  BY LedgerStep
<1> QED
  BY <1>1, <1>2, <1>3, <1>4, PTL DEF Spec, AtMostOnce, Ledger!LedgerSpec
=============================================================================
