--------------------------- MODULE FailureProofs ---------------------------
(***************************************************************************)
(* FailureKeepsCopy, for any workload, number of instances and MongoDB     *)
(* failures, whether markers expire or not.                                *)
(*                                                                         *)
(* The property is about the copies that are left; it is inductive only    *)
(* with what is known of an event on its way: whoever has touched it, by a *)
(* marker, an ack or a loop about to ack, it is counted in full, or has a  *)
(* dead copy, or some loop is sure to bring one of the two about           *)
(* (SavedInv), because the updates a handler has made and those it plans   *)
(* are all that the event stands for (PlanInv).  That a nack reaches the   *)
(* broker rests on the connection the copy came on being the one the loop  *)
(* still has (Held), which holds while nothing stops and nothing is        *)
(* disconnected (Calm).                                                    *)
(***************************************************************************)
EXTENDS AtMostOnceProofs

(* No process has stopped and no connection has been lost.                 *)
Calm == quota.stop = Quota.stop /\ quota.drop = Quota.drop

QuotaInv == quota.stop <= Quota.stop /\ quota.drop <= Quota.drop

(* What a loop holds is unacked on its connection.                         *)
Held ==
  \A i \in Instances :
    /\ pc[i] # "down" => live[i]
    /\ \A c \in buffer[i] : place[c] = i /\ (pc[i] \in Busy => c # hand[i])
    /\ pc[i] \in Busy => place[hand[i]] = i

(* The updates of an event that were made and those i plans to make are no *)
(* fewer than the event stands for.                                        *)
Planned(i) ==
  pc[i] = "update" =>
    effects[Event(i)] + Len(plan[i]) >= Steps(MessageOf(Event(i)))

PlanInv == \A i \in Instances : Planned(i)

(* The loop of i will count e in full, or nack its copy.                   *)
Saving(i, e) == pc[i] \in {"update", "nack"} /\ Event(i) = e

Saved(e) ==
  \/ Counted(e)
  \/ \E c \in CopiesOf(e) : place[c] = "dead"
  \/ \E i \in Instances : Saving(i, e)

Touched(e) ==
  \/ seen[e] # NotSeen
  \/ \E c \in CopiesOf(e) : place[c] = "acked"
  \/ \E i \in Instances : pc[i] = "ack" /\ Event(i) = e

SavedInv == \A e \in EventIds : Touched(e) => Saved(e)

KeepInv == QuotaInv /\ (Calm => Held /\ PlanInv /\ SavedInv)

(* Initially nothing is published.                                         *)
LEMMA KeepInit == Init => KeepInv
<1> SUFFICES ASSUME Init PROVE KeepInv
  OBVIOUS
<1>1. QuotaInv
  BY BoundsAssumption DEF Init, QuotaInv, FaultKinds
<1>2. Held
  BY DEF Init, Held, Busy
<1>3. PlanInv /\ SavedInv
  BY DEF Init, PlanInv, Planned, SavedInv, Touched, CopiesOf, Published
<1> QED BY <1>1, <1>2, <1>3 DEF KeepInv

(* What an event stands for is a number of steps.                          *)
LEMMA StepsType == ASSUME NEW e \in EventIds PROVE Steps(MessageOf(e)) \in Nat
<1>1. MessageOf(e) \in Messages
  BY IdsAssumption DEF MessageOf
<1>2. CASE Handled(MessageOf(e))
  <2>1. MessageOf(e).key \in HandlerFor /\ MessageOf(e).payload \in Input
    BY <1>1, <1>2, MessagesAssumption DEF Handled, Message
  <2>2. Handle(MessageOf(e).key, MessageOf(e).payload, 0) \in Seq(Update)
    BY <2>1, HandleType
  <2> QED BY <1>2, <2>2, LenProperties DEF Steps
<1>3. CASE ~Handled(MessageOf(e))
  BY <1>3 DEF Steps
<1> QED BY <1>2, <1>3

-----------------------------------------------------------------------------
(* Faults *)

(* A step spends one fault or none.                                        *)
LEMMA OneFault ==
  ASSUME [Next]_vars
  PROVE  UNCHANGED quota \/ \E kind \in FaultKinds : Spend(kind)
<1>1. ASSUME NEW i \in Instances, Loop(i)
      PROVE  UNCHANGED quota \/ \E kind \in FaultKinds : Spend(kind)
  <2>1. CASE MarkSeenFails(i) \/ UpdateFails(i)
    BY <2>1 DEF MarkSeenFails, UpdateFails, CallFails, FaultKinds
  <2>2. CASE Take(i) \/ Return(i) \/ Duplicate(i) \/ FirstTime(i)
    BY <2>2 DEF Take, Return, Duplicate, FirstTime
  <2>3. CASE ApplyUpdate(i) \/ SkipItem(i) \/ Ack(i) \/ Nack(i)
    BY <2>3 DEF ApplyUpdate, SkipItem, Ack, Nack, Settle
  <2> QED BY <1>1, <2>1, <2>2, <2>3 DEF Loop
<1>2. ASSUME NEW i \in Instances, Process(i)
      PROVE  UNCHANGED quota \/ \E kind \in FaultKinds : Spend(kind)
  BY <1>2 DEF Process, Start, Terminate, CloseBroker, Exit, Kill, DropConnection, FaultKinds
<1>3. ASSUME NEW c \in Copies, Publish(c) \/ \E i \in Instances : Deliver(c, i)
      PROVE  UNCHANGED quota
  BY <1>3 DEF Publish, Deliver
<1>4. ASSUME Tick \/ \E e \in EventIds : ExpireMarker(e)
      PROVE  UNCHANGED quota
  BY <1>4 DEF Tick, ExpireMarker
<1>5. CASE UNCHANGED vars
  BY <1>5 DEF vars
<1> QED BY <1>1, <1>2, <1>3, <1>4, <1>5 DEF Next

(* Faults are not given back: if it is calm after a step, it was before.   *)
LEMMA QuotaStep ==
  ASSUME TypeOK, QuotaInv, [Next]_vars
  PROVE  QuotaInv' /\ (Calm' => Calm)
<1>1. /\ quota \in [FaultKinds -> Nat] /\ Quota \in [FaultKinds -> Nat]
      /\ "stop" \in FaultKinds /\ "drop" \in FaultKinds
  BY BoundsAssumption DEF TypeOK, FaultKinds
<1>2. CASE UNCHANGED quota
  BY <1>2 DEF QuotaInv, Calm
<1>3. ASSUME NEW kind \in FaultKinds, Spend(kind) PROVE QuotaInv' /\ (Calm' => Calm)
  BY <1>1, <1>3 DEF Spend, QuotaInv, Calm
<1> QED BY <1>2, <1>3, OneFault

(* While it is calm, no process goes down and no connection closes.        *)
LEMMA CalmProcess ==
  ASSUME TypeOK, Calm, Calm', Held, NEW i \in Instances, Process(i)
  PROVE  Start(i)
<1>1. ASSUME NEW kind \in {"stop", "drop"}, Spend(kind) PROVE FALSE
  <2>1. quota'[kind] # quota[kind] /\ kind \in FaultKinds
    BY <1>1 DEF Spend, TypeOK, FaultKinds
  <2> QED BY <1>1, <2>1 DEF Calm
<1>2. ~Terminate(i) /\ ~Kill(i) /\ ~DropConnection(i)
  BY <1>1 DEF Terminate, Kill, DropConnection
<1>3. ~CloseBroker(i) /\ ~Exit(i)
  BY DEF CloseBroker, Exit, Held
<1> QED BY <1>2, <1>3 DEF Process

-----------------------------------------------------------------------------
(* A step of instance i, or of none *)

(* Whatever i did, the rest of what saves an event is as it was.           *)
RestKept(i) ==
  /\ \A c \in Copies : /\ Published(c) => Published(c)' /\ body'[c] = body[c]
                       /\ place[c] = "dead" => place'[c] = "dead"
  /\ \A e \in EventIds : effects'[e] >= effects[e]
  /\ \A j \in Instances \ {i} : pc'[j] = pc[j] /\ hand'[j] = hand[j] /\ plan'[j] = plan[j]

(* Then an event that was saved still is, unless it was i that saved it.   *)
LEMMA StillSaved ==
  ASSUME PipelineInv, PipelineInv', NEW i, RestKept(i), NEW e \in EventIds, Saved(e),
         i \in Instances /\ Saving(i, e) => Saving(i, e)' \/ Saved(e)'
  PROVE  Saved(e)'
<1>1. /\ effects[e] \in Nat /\ effects'[e] \in Nat /\ effects'[e] >= effects[e]
      /\ Steps(MessageOf(e)) \in Nat
  BY StepsType DEF PipelineInv, TypeOK, RestKept
<1>2. CASE Counted(e)
  BY <1>1, <1>2 DEF Saved, Counted
<1>3. CASE \E c \in CopiesOf(e) : place[c] = "dead"
  BY <1>3 DEF Saved, CopiesOf, RestKept
<1>4. CASE \E j \in Instances : Saving(j, e)
  <2>1. PICK j \in Instances : Saving(j, e)
    BY <1>4
  <2>2. CASE j = i
    BY <2>1, <2>2 DEF Saved
  <2>3. CASE j # i
    <3>1. pc'[j] = pc[j] /\ hand'[j] = hand[j] /\ plan'[j] = plan[j]
      BY <2>3 DEF RestKept
    <3>2. hand[j] \in Copies /\ Published(hand[j])
      BY <2>1 DEF Saving, PipelineInv, LoopInv, Busy
    <3>3. Event(j)' = Event(j)
      BY <3>1, <3>2 DEF RestKept, Event, Msg
    <3>4. Saving(j, e)'
      BY <2>1, <3>1, <3>3 DEF Saving
    <3> QED BY <3>4 DEF Saved
  <2> QED BY <2>2, <2>3
<1> QED BY <1>2, <1>3, <1>4 DEF Saved

(* The plans of the others are as good as they were.                       *)
LEMMA StillPlanned ==
  ASSUME PipelineInv, PipelineInv', PlanInv, NEW i, RestKept(i),
         NEW j \in Instances \ {i}
  PROVE  Planned(j)'
<1>1. pc'[j] = pc[j] /\ hand'[j] = hand[j] /\ plan'[j] = plan[j]
  BY DEF RestKept
<1>2. ASSUME pc[j] = "update", NEW e \in EventIds, e = Event(j)
      PROVE  Planned(j)'
  <2>1. hand[j] \in Copies /\ Published(hand[j])
    BY <1>2 DEF PipelineInv, LoopInv, Busy
  <2>2. Event(j)' = e
    BY <1>1, <1>2, <2>1 DEF RestKept, Event, Msg
  <2>3. /\ effects[e] \in Nat /\ effects'[e] \in Nat /\ effects'[e] >= effects[e]
        /\ Steps(MessageOf(e)) \in Nat /\ Len(plan[j]) \in Nat
    BY StepsType, LenProperties DEF PipelineInv, TypeOK, RestKept
  <2>4. effects[e] + Len(plan[j]) >= Steps(MessageOf(e))
    BY <1>2 DEF PlanInv, Planned
  <2> QED BY <1>1, <2>2, <2>3, <2>4 DEF Planned
<1>3. CASE pc[j] = "update"
  BY <1>2, <1>3 DEF PipelineInv, LoopInv
<1> QED BY <1>1, <1>3 DEF Planned

(* So the invariant is kept if i's own plan is good, and i leaves no event *)
(* it saved and touches none that is not saved.                            *)
LEMMA SavedStep ==
  ASSUME PipelineInv, PipelineInv', PlanInv, SavedInv, NEW i, RestKept(i),
         i \in Instances => Planned(i)',
         \A e \in EventIds :
           /\ i \in Instances /\ Saving(i, e) => Saving(i, e)' \/ Saved(e)'
           /\ Touched(e)' => Touched(e) \/ Saved(e)'
  PROVE  PlanInv' /\ SavedInv'
<1>1. ASSUME NEW e \in EventIds, Touched(e)' PROVE Saved(e)'
  <2>1. Touched(e) => Saved(e)
    BY DEF SavedInv
  <2>2. Saved(e) => Saved(e)'
    BY StillSaved
  <2> QED BY <1>1, <2>1, <2>2
<1>2. ASSUME NEW j \in Instances PROVE Planned(j)'
  BY StillPlanned
<1> QED BY <1>1, <1>2 DEF SavedInv, PlanInv

-----------------------------------------------------------------------------
(* The two halves of the invariant *)

(* While it is calm, loops keep hold of what they hold.                    *)
LEMMA HeldStep ==
  ASSUME PipelineInv, Calm, Calm', Held, [Next]_vars
  PROVE  Held'
<1> USE InstancesAssumption DEF PipelineInv, TypeOK, Held, BrokerPlaces
<1>1. ASSUME NEW c \in Copies, Publish(c) PROVE Held'
  BY <1>1 DEF Publish, loop, process, Busy, LoopInv
<1>2. ASSUME NEW c \in Copies, NEW i \in Instances, Deliver(c, i) PROVE Held'
  BY <1>2 DEF Deliver, loop, process, Busy
<1>3. ASSUME NEW i \in Instances, Take(i) PROVE Held'
  BY <1>3 DEF Take, broker, process, Busy
<1>4. ASSUME NEW i \in Instances, UNCHANGED <<place, hand, buffer, live>>,
             pc[i] \in PcValues \ {"down"}, pc'[i] \in Busy => pc[i] \in Busy,
             \A j \in Instances \ {i} : pc'[j] = pc[j]
      PROVE  Held'
  BY <1>4
<1>5. ASSUME NEW i \in Instances, Ack(i) \/ Nack(i) PROVE Held'
  <2>1. PICK outcome \in {"acked", "dead"} : Settle(i, outcome)
    BY <1>5 DEF Ack, Nack
  <2>2. pc[i] \in Busy /\ hand[i] \in Copies
    BY <1>5 DEF Ack, Nack, Busy, LoopInv
  <2> QED BY <2>1, <2>2 DEF Settle, process, Busy
<1>6. ASSUME NEW i \in Instances, Loop(i) PROVE Held'
  <2>1. CASE Return(i) \/ Duplicate(i) \/ FirstTime(i)
    BY <2>1, <1>4 DEF Return, Duplicate, FirstTime, broker, process, Busy, PcValues
  <2>2. CASE MarkSeenFails(i) \/ UpdateFails(i)
    BY <2>2, <1>4 DEF MarkSeenFails, UpdateFails, broker, process, Busy, PcValues
  <2>3. CASE ApplyUpdate(i) \/ SkipItem(i)
    BY <2>3, <1>4 DEF ApplyUpdate, SkipItem, Advance, broker, process, Busy, PcValues
  <2> QED BY <1>3, <1>5, <1>6, <2>1, <2>2, <2>3 DEF Loop
<1>7. ASSUME NEW i \in Instances, Process(i) PROVE Held'
  <2>1. Start(i)
    BY <1>7, CalmProcess
  <2> QED BY <2>1 DEF Start, broker, Busy
<1>8. CASE Tick \/ \E e \in EventIds : ExpireMarker(e)
  BY <1>8 DEF Tick, ExpireMarker, broker, loop, process
<1>9. CASE UNCHANGED vars
  BY <1>9 DEF vars
<1> QED BY <1>1, <1>2, <1>6, <1>7, <1>8, <1>9 DEF Next

(* A message the consumer does not hand on is counted without a step.      *)
LEMMA NothingToCount ==
  ASSUME PipelineInv, NEW m \in Messages, m.id \in EventIds, ~Handled(m)
  PROVE  Counted(m.id)
BY MessageOfEvent DEF Counted, Steps, PipelineInv, TypeOK

(* Take touches an event only if its message is not handed on.             *)
LEMMA TakeSaves ==
  ASSUME PipelineInv, PipelineInv', PlanInv, SavedInv, NEW i \in Instances, Take(i)
  PROVE  PlanInv' /\ SavedInv'
<1>1. PICK c \in buffer[i] :
        /\ hand' = [hand EXCEPT ![i] = c]
        /\ pc' = [pc EXCEPT ![i] = IF body[c].wellFormed /\ body[c].id # NoEventId
                                     THEN "markSeen" ELSE "ack"]
  BY DEF Take
<1>2. /\ pc[i] = "idle"
      /\ UNCHANGED <<place, body, plan, seen, effects>>
  BY DEF Take, broker, db, history
<1>3. RestKept(i)
  BY <1>1, <1>2 DEF RestKept, PipelineInv, TypeOK, Published
<1>4. c \in Copies /\ Published(c) /\ body[c] \in Messages
  BY DEF PipelineInv, TypeOK, LoopInv, BodyInv
<1>5. ASSUME NEW e \in EventIds, Touched(e)' PROVE Touched(e) \/ Saved(e)'
  <2>1. CASE pc'[i] = "ack" /\ Event(i)' = e
    <3>1. body[c].id = e /\ ~Handled(body[c])
      BY <1>1, <1>2, <1>4, <2>1, IdsAssumption DEF Event, Msg, Handled, PipelineInv, TypeOK
    <3>2. Counted(e)
      BY <1>4, <3>1, NothingToCount
    <3>3. Counted(e)'
      BY <1>2, <3>2 DEF Counted
    <3> QED BY <3>3 DEF Saved
  <2>2. CASE ~(pc'[i] = "ack" /\ Event(i)' = e)
    <3>1. ASSUME NEW j \in Instances, pc'[j] = "ack", Event(j)' = e PROVE Touched(e)
      <4>1. j # i /\ pc[j] = "ack" /\ Event(j) = e
        BY <1>2, <1>3, <2>2, <3>1 DEF RestKept, Event, Msg
      <4> QED BY <4>1 DEF Touched
    <3>2. CopiesOf(e)' = CopiesOf(e)
      BY <1>2 DEF CopiesOf, Published
    <3> QED BY <1>2, <1>5, <3>1, <3>2 DEF Touched
  <2> QED BY <2>1, <2>2
<1>6. \A e \in EventIds : ~Saving(i, e)
  BY <1>2 DEF Saving
<1>7. Planned(i)'
  BY <1>1, <1>2 DEF Planned, PipelineInv, TypeOK
<1> QED BY <1>3, <1>5, <1>6, <1>7, SavedStep

(* Who claims an event counts it, or has nothing to count, or nacks it.    *)
LEMMA FirstTimeSaves ==
  ASSUME PipelineInv, PipelineInv', PlanInv, SavedInv, NEW i \in Instances, FirstTime(i)
  PROVE  PlanInv' /\ SavedInv'
<1>0. PICK e \in EventIds : e = Event(i)
  BY DEF FirstTime, PipelineInv, LoopInv
<1>1. /\ pc[i] = "markSeen"
      /\ UNCHANGED <<place, body, hand, effects>>
      /\ seen' = [seen EXCEPT ![e] = now]
  BY <1>0 DEF FirstTime, broker
<1>2. /\ hand[i] \in Copies /\ Msg(i) \in Messages
      /\ e = Msg(i).id /\ Msg(i).wellFormed
  BY <1>0, <1>1 DEF Event, PipelineInv, LoopInv, BodyInv, Busy, Msg
<1>3. RestKept(i)
  BY <1>1 DEF FirstTime, RestKept, PipelineInv, TypeOK, Published
<1>4. Event(i)' = e
  BY <1>0, <1>1 DEF Event, Msg
<1>5. MessageOf(e) = Msg(i)
  BY <1>2, MessageOfEvent
<1>6. Planned(i)' /\ Saved(e)'
  <2>1. CASE Msg(i).key \notin HandlerFor
    <3>1. Counted(e)
      BY <1>2, <2>1, NothingToCount DEF Handled
    <3>2. pc'[i] = "ack"
      BY <2>1 DEF FirstTime, PipelineInv, TypeOK
    <3> QED BY <1>1, <3>1, <3>2 DEF Saved, Counted, Planned
  <2>2. CASE Msg(i).key \in HandlerFor /\ Msg(i).payload = Malformed
    <3>1. pc'[i] = "nack"
      BY <2>2 DEF FirstTime, PipelineInv, TypeOK
    <3> QED BY <1>4, <3>1 DEF Saved, Saving, Planned
  <2>3. CASE Msg(i).key \in HandlerFor /\ Msg(i).payload # Malformed
    <3>1. /\ pc'[i] = "update"
          /\ plan'[i] = Handle(Msg(i).key, Msg(i).payload, Today)
      BY <2>3 DEF FirstTime, PipelineInv, TypeOK
    <3>2. Msg(i).payload \in Input /\ Today \in Nat
      BY <1>2, <2>3, MessagesAssumption, BoundsAssumption, DivType
         DEF Message, Today, PipelineInv, TypeOK
    <3>3. Handled(Msg(i))
      BY <1>2, <2>3, IdsAssumption DEF Handled
    <3>4. Len(plan'[i]) = Steps(MessageOf(e))
      BY <1>5, <2>3, <3>1, <3>2, <3>3, HandleLength DEF Steps
    <3>5. effects'[e] \in Nat /\ Len(plan'[i]) \in Nat
      BY <1>2, LenProperties DEF PipelineInv, TypeOK
    <3>6. Planned(i)'
      BY <1>4, <3>4, <3>5 DEF Planned
    <3> QED BY <1>4, <3>1, <3>6 DEF Saved, Saving
  <2> QED BY <2>1, <2>2, <2>3
<1>7. ASSUME NEW f \in EventIds, Touched(f)', f # e PROVE Touched(f)
  <2>1. seen'[f] = seen[f] /\ CopiesOf(f)' = CopiesOf(f) /\ place' = place
    BY <1>1, <1>2, <1>7 DEF PipelineInv, TypeOK, CopiesOf, Published
  <2>2. ASSUME NEW j \in Instances, pc'[j] = "ack", Event(j)' = f
        PROVE  pc[j] = "ack" /\ Event(j) = f
    BY <1>1, <1>3, <1>4, <1>7, <2>2 DEF RestKept, Event, Msg
  <2> QED BY <1>7, <2>1, <2>2 DEF Touched
<1>8. \A f \in EventIds : ~Saving(i, f)
  BY <1>1 DEF Saving
<1> QED BY <1>3, <1>6, <1>7, <1>8, SavedStep

(* A step after which nothing new is touched, at a loop that saves nothing *)
(* or goes on to nack what it holds.                                       *)
LEMMA NothingTouched ==
  ASSUME PipelineInv, PipelineInv', PlanInv, SavedInv, NEW i \in Instances, RestKept(i),
         UNCHANGED <<place, body, hand>>,
         \A e \in EventIds : seen'[e] # NotSeen => Touched(e) \/ Saved(e)',
         pc'[i] = "ack" => pc[i] = "ack" \/ seen[Event(i)] # NotSeen,
         pc[i] \in {"update", "nack"} => pc'[i] = "nack",
         pc'[i] # "update"
  PROVE  PlanInv' /\ SavedInv'
<1>1. \A j \in Instances : Event(j)' = Event(j)
  BY DEF Event, Msg
<1>2. \A e \in EventIds : CopiesOf(e)' = CopiesOf(e)
  BY DEF CopiesOf, Published
<1>3. ASSUME NEW e \in EventIds, Touched(e)' PROVE Touched(e) \/ Saved(e)'
  <2>1. ASSUME NEW j \in Instances, pc'[j] = "ack", Event(j)' = e PROVE Touched(e)
    BY <1>1, <2>1 DEF RestKept, Touched
  <2> QED BY <1>2, <1>3, <2>1 DEF Touched
<1>4. ASSUME NEW e \in EventIds, Saving(i, e) PROVE Saving(i, e)'
  BY <1>1, <1>4 DEF Saving
<1>5. Planned(i)'
  BY DEF Planned
<1> QED BY <1>3, <1>4, <1>5, SavedStep

(* One step of the handler is behind: one more counted, one less planned.  *)
LEMMA AdvanceSaves ==
  ASSUME PipelineInv, PipelineInv', PlanInv, SavedInv, NEW i \in Instances,
         pc[i] = "update", Advance(i), UNCHANGED <<place, body, hand, seen>>
  PROVE  PlanInv' /\ SavedInv'
<1>0. PICK e \in EventIds : e = Event(i)
  BY DEF PipelineInv, LoopInv
<1>1. /\ effects'[e] = effects[e] + 1 /\ \A f \in EventIds : f # e => effects'[f] = effects[f]
      /\ plan'[i] = Tail(plan[i])
      /\ pc'[i] = IF Len(plan[i]) = 1 THEN "ack" ELSE "update"
      /\ Event(i)' = e
  BY <1>0 DEF Advance, Event, Msg, PipelineInv, TypeOK
<1>2. \A f \in EventIds : effects[f] \in Nat /\ Steps(MessageOf(f)) \in Nat
  BY StepsType DEF PipelineInv, TypeOK
<1>3. RestKept(i)
  <2>1. \A f \in EventIds : effects'[f] >= effects[f]
    BY <1>1, <1>2
  <2>2. \A j \in Instances \ {i} : pc'[j] = pc[j] /\ hand'[j] = hand[j] /\ plan'[j] = plan[j]
    BY DEF Advance, PipelineInv, TypeOK
  <2> QED BY <2>1, <2>2 DEF RestKept, Published
<1>4. Len(plan'[i]) = Len(plan[i]) - 1 /\ Len(plan[i]) \in Nat
  BY <1>1, TailType, LenProperties DEF PipelineInv, TypeOK, LoopInv
<1>5. effects[e] + Len(plan[i]) >= Steps(MessageOf(e))
  BY <1>0 DEF PlanInv, Planned
<1>6. ASSUME Len(plan[i]) = 1 PROVE Planned(i)' /\ Saved(e)'
  <2>1. pc'[i] = "ack" /\ effects'[e] >= Steps(MessageOf(e))
    BY <1>1, <1>2, <1>5, <1>6
  <2> QED BY <2>1 DEF Saved, Counted, Planned
<1>7. ASSUME Len(plan[i]) # 1 PROVE Planned(i)' /\ Saved(e)'
  <2>1. pc'[i] = "update" /\ effects'[e] + Len(plan'[i]) >= Steps(MessageOf(e))
    BY <1>1, <1>2, <1>4, <1>5, <1>7
  <2> QED BY <1>1, <2>1 DEF Saved, Saving, Planned
<1>8. ASSUME NEW f \in EventIds, f # e, Touched(f)' PROVE Touched(f)
  <2>1. CopiesOf(f)' = CopiesOf(f)
    BY DEF CopiesOf, Published
  <2>2. ASSUME NEW j \in Instances, pc'[j] = "ack", Event(j)' = f
        PROVE  pc[j] = "ack" /\ Event(j) = f
    BY <1>1, <1>3, <1>8, <2>2 DEF RestKept, Event, Msg
  <2> QED BY <1>8, <2>1, <2>2 DEF Touched
<1>9. \A f \in EventIds : Saving(i, f) => f = e
  BY <1>0 DEF Saving
<1> QED BY <1>3, <1>6, <1>7, <1>8, <1>9, SavedStep

(* An ack is given for what is saved, and a nack leaves a dead copy.       *)
LEMMA SettleSaves ==
  ASSUME PipelineInv, PipelineInv', PlanInv, SavedInv, Held, NEW i \in Instances,
         Ack(i) \/ Nack(i)
  PROVE  PlanInv' /\ SavedInv'
<1>1. PICK outcome \in {"acked", "dead"} :
        Settle(i, outcome) /\ pc[i] = (IF outcome = "acked" THEN "ack" ELSE "nack")
  BY DEF Ack, Nack
<1>2. hand[i] \in Copies /\ place[hand[i]] = i /\ Published(hand[i])
  BY <1>1 DEF Held, Busy, PipelineInv, LoopInv
<1>3. /\ place' = [place EXCEPT ![hand[i]] = outcome]
      /\ pc' = [pc EXCEPT ![i] = "idle"]
      /\ hand' = [hand EXCEPT ![i] = NoCopy]
      /\ UNCHANGED <<body, plan, seen, effects>>
  BY <1>1, <1>2 DEF Settle, db, history
<1>4. RestKept(i)
  BY <1>2, <1>3, InstancesAssumption
     DEF RestKept, PipelineInv, TypeOK, Published, BrokerPlaces
<1>5. \A e \in EventIds : CopiesOf(e)' = CopiesOf(e)
  BY <1>2, <1>3, <1>4 DEF CopiesOf, RestKept, PipelineInv, TypeOK, Published
<1>6. ASSUME NEW e \in EventIds, Saving(i, e) PROVE Saved(e)'
  <2>1. outcome = "dead" /\ hand[i] \in CopiesOf(e)
    BY <1>1, <1>2, <1>6 DEF Saving, CopiesOf, Event, Msg
  <2>2. place'[hand[i]] = "dead"
    BY <1>2, <1>3, <2>1 DEF PipelineInv, TypeOK
  <2>3. \E c \in CopiesOf(e)' : place'[c] = "dead"
    BY <1>5, <2>1, <2>2
  <2> QED BY <2>3 DEF Saved
<1>7. ASSUME NEW e \in EventIds, Touched(e)' PROVE Touched(e)
  <2>1. ASSUME NEW c \in CopiesOf(e), place'[c] = "acked" PROVE Touched(e)
    <3>1. CASE c = hand[i]
      <4>1. pc[i] = "ack" /\ Event(i) = e
        BY <1>1, <1>2, <1>3, <2>1, <3>1 DEF CopiesOf, Event, Msg, PipelineInv, TypeOK
      <4> QED BY <4>1 DEF Touched
    <3>2. CASE c # hand[i]
      BY <1>3, <2>1, <3>2 DEF CopiesOf, Touched, PipelineInv, TypeOK
    <3> QED BY <3>1, <3>2
  <2>2. ASSUME NEW j \in Instances, pc'[j] = "ack", Event(j)' = e PROVE Touched(e)
    <3>1. j # i /\ pc[j] = "ack" /\ Event(j) = e
      BY <1>3, <2>2 DEF Event, Msg, PipelineInv, TypeOK
    <3> QED BY <3>1 DEF Touched
  <2> QED BY <1>3, <1>5, <1>7, <2>1, <2>2 DEF Touched
<1>8. Planned(i)'
  BY <1>3 DEF Planned, PipelineInv, TypeOK
<1> QED BY <1>4, <1>6, <1>7, <1>8, SavedStep

(* Steps that only a copy, the clock or a marker takes, or a loop that     *)
(* handles nothing, touch no event and leave no plan.                      *)
LEMMA OutsideSaves ==
  ASSUME PipelineInv, PipelineInv', PlanInv, SavedInv, UNCHANGED <<hand, plan, effects>>,
         \A c \in Copies :
           /\ Published(c) => Published(c)' /\ body'[c] = body[c]
           /\ place[c] = "dead" => place'[c] = "dead"
           /\ place'[c] = "acked" => place[c] = "acked",
         \A e \in EventIds : seen'[e] # NotSeen => seen[e] # NotSeen,
         \A j \in Instances :
           pc'[j] \in Busy \/ pc[j] \in Busy => pc'[j] = pc[j]
  PROVE  PlanInv' /\ SavedInv'
<1>1. ASSUME NEW j \in Instances, pc[j] \in Busy PROVE Event(j)' = Event(j)
  BY <1>1 DEF PipelineInv, LoopInv, Event, Msg
<1>2. \A j \in Instances : Planned(j)'
  BY <1>1 DEF PlanInv, Planned, Busy
<1>3. ASSUME NEW e \in EventIds, Saved(e) PROVE Saved(e)'
  <2>1. ASSUME NEW j \in Instances, Saving(j, e) PROVE Saving(j, e)'
    BY <1>1, <2>1 DEF Saving, Busy
  <2> QED BY <1>3, <2>1 DEF Saved, Counted, CopiesOf
<1>4. ASSUME NEW e \in EventIds, Touched(e)' PROVE Touched(e)
  <2>1. ASSUME NEW j \in Instances, pc'[j] = "ack", Event(j)' = e PROVE Touched(e)
    BY <1>1, <2>1 DEF Touched, Busy
  <2>2. ASSUME NEW c \in CopiesOf(e)', place'[c] = "acked" PROVE Touched(e)
    BY <2>2 DEF Touched, CopiesOf, Published
  <2> QED BY <1>4, <2>1, <2>2 DEF Touched
<1> QED BY <1>2, <1>3, <1>4 DEF PlanInv, SavedInv

(* What was counted is not taken back.                                     *)
LEMMA EffectsGrow ==
  ASSUME effects \in [EventIds -> Nat], NEW f \in EventIds,
         effects' = effects \/ effects' = [effects EXCEPT ![f] = @ + 1]
  PROVE  \A e \in EventIds : effects'[e] >= effects[e]
OBVIOUS

(* While it is calm, every step keeps plans good and touched events saved. *)
LEMMA SaveStep ==
  ASSUME PipelineInv, PipelineInv', Calm, Calm', Held, PlanInv, SavedInv, [Next]_vars
  PROVE  PlanInv' /\ SavedInv'
<1> USE DEF PipelineInv, TypeOK
<1>1. ASSUME NEW c \in Copies, Publish(c) PROVE PlanInv' /\ SavedInv'
  BY <1>1, OutsideSaves DEF Publish, loop, db, history, Published
<1>2. ASSUME NEW c \in Copies, NEW i \in Instances, Deliver(c, i)
      PROVE  PlanInv' /\ SavedInv'
  BY <1>2, OutsideSaves, InstancesAssumption
     DEF Deliver, loop, db, history, Published, BrokerPlaces
<1>3. ASSUME NEW i \in Instances, Return(i) \/ Start(i) PROVE PlanInv' /\ SavedInv'
  BY <1>3, OutsideSaves DEF Return, Start, broker, db, history, Busy, Published
<1>4. CASE Tick
  BY <1>4, OutsideSaves DEF Tick, broker, loop, db, history, Published
<1>5. ASSUME NEW e \in EventIds, ExpireMarker(e) PROVE PlanInv' /\ SavedInv'
  BY <1>5, OutsideSaves DEF ExpireMarker, broker, loop, history, Published
<1>6. CASE UNCHANGED vars
  BY <1>6, OutsideSaves DEF vars, Published
<1>7. ASSUME NEW i \in Instances, Duplicate(i) PROVE PlanInv' /\ SavedInv'
  <2>1. RestKept(i)
    BY <1>7 DEF Duplicate, RestKept, broker, db, history, Published
  <2>2. seen[Event(i)] # NotSeen /\ pc[i] = "markSeen" /\ pc'[i] = "ack"
    BY <1>7 DEF Duplicate, Unmarked
  <2> QED BY <1>7, <2>1, <2>2, NothingTouched DEF Duplicate, broker, db, history, Touched
<1>8. ASSUME NEW i \in Instances, MarkSeenFails(i) PROVE PlanInv' /\ SavedInv'
  <2>1. RestKept(i)
    BY <1>8 DEF MarkSeenFails, RestKept, broker, history, Published
  <2>2. /\ pc'[i] = "nack" /\ pc[i] = "markSeen"
        /\ UNCHANGED <<place, body, hand>>
        /\ seen' = seen \/ seen' = [seen EXCEPT ![Event(i)] = now]
    BY <1>8 DEF MarkSeenFails, broker
  <2>3. ASSUME NEW e \in EventIds, seen'[e] # NotSeen PROVE Touched(e) \/ Saved(e)'
    <3>1. CASE seen[e] # NotSeen
      BY <3>1 DEF Touched
    <3>2. CASE seen[e] = NotSeen
      <4>1. Event(i)' = e
        BY <2>2, <2>3, <3>2 DEF Event, Msg
      <4> QED BY <2>2, <4>1 DEF Saved, Saving
    <3> QED BY <3>1, <3>2
  <2> QED BY <2>1, <2>2, <2>3, NothingTouched
<1>9. ASSUME NEW i \in Instances, UpdateFails(i) PROVE PlanInv' /\ SavedInv'
  <2>1. Event(i) \in EventIds
    BY <1>9 DEF UpdateFails, LoopInv
  <2>2. effects' = effects \/ effects' = [effects EXCEPT ![Event(i)] = @ + 1]
    BY <1>9 DEF UpdateFails
  <2>3. \A e \in EventIds : effects'[e] >= effects[e]
    BY <2>1, <2>2, EffectsGrow
  <2>4. RestKept(i)
    BY <1>9, <2>3 DEF UpdateFails, RestKept, broker, Published
  <2>5. pc'[i] = "nack" /\ UNCHANGED <<place, body, hand, seen>>
    BY <1>9 DEF UpdateFails, broker
  <2> QED BY <2>4, <2>5, NothingTouched DEF Touched
<1>10. ASSUME NEW i \in Instances, ApplyUpdate(i) \/ SkipItem(i)
       PROVE  PlanInv' /\ SavedInv'
  BY <1>10, AdvanceSaves DEF ApplyUpdate, SkipItem, broker, db
<1>11. ASSUME NEW i \in Instances, Loop(i) PROVE PlanInv' /\ SavedInv'
  BY <1>3, <1>7, <1>8, <1>9, <1>10, <1>11, TakeSaves, FirstTimeSaves, SettleSaves DEF Loop
<1>12. ASSUME NEW i \in Instances, Process(i) PROVE PlanInv' /\ SavedInv'
  BY <1>3, <1>12, CalmProcess
<1> QED BY <1>1, <1>2, <1>4, <1>5, <1>6, <1>11, <1>12 DEF Next

-----------------------------------------------------------------------------
(* An event none of whose copies is left is counted in full.               *)
LEMMA SavedIsKept ==
  ASSUME PipelineInv, Held, SavedInv, NEW e \in EventIds
  PROVE  ~LostSilently(e)
<1> SUFFICES ASSUME LostSilently(e) PROVE FALSE
  OBVIOUS
<1>1. PICK c \in CopiesOf(e) : place[c] = "acked"
  BY DEF LostSilently
<1>2. Saved(e) /\ ~Counted(e) /\ \A d \in CopiesOf(e) : place[d] = "acked"
  BY <1>1 DEF LostSilently, SavedInv, Touched
<1>3. PICK i \in Instances : Saving(i, e)
  BY <1>2 DEF Saved
<1>4. hand[i] \in CopiesOf(e) /\ place[hand[i]] = i
  BY <1>3 DEF Saving, Held, Busy, PipelineInv, LoopInv, CopiesOf, Event, Msg
<1> QED BY <1>2, <1>4, InstancesAssumption DEF BrokerPlaces

(* The invariant holds throughout.                                         *)
LEMMA KeepInvHolds == Spec => [](PipelineInv /\ KeepInv)
<1>1. Init => PipelineInv /\ KeepInv
  BY PipelineInit, KeepInit
<1>2. PipelineInv /\ KeepInv /\ [Next]_vars => PipelineInv' /\ KeepInv'
  <2>1. SUFFICES ASSUME PipelineInv, KeepInv, [Next]_vars
                 PROVE  PipelineInv' /\ KeepInv'
    OBVIOUS
  <2>2. PipelineInv'
    BY <2>1, PipelineStep
  <2>3. QuotaInv' /\ (Calm' => Calm)
    BY <2>1, QuotaStep DEF KeepInv, PipelineInv
  <2>4. ASSUME Calm' PROVE Held' /\ PlanInv' /\ SavedInv'
    BY <2>1, <2>2, <2>3, <2>4, HeldStep, SaveStep DEF KeepInv
  <2> QED BY <2>2, <2>3, <2>4 DEF KeepInv
<1> QED BY <1>1, <1>2, PTL DEF Spec

(* As long as no process stops and no connection is lost, however often    *)
(* MongoDB fails and however many copies and instances there are, an event *)
(* that is not counted in full has a copy left.                            *)
THEOREM FailureKeepsCopyHolds == Spec => []FailureKeepsCopy
<1>1. PipelineInv /\ KeepInv => FailureKeepsCopy
  BY SavedIsKept DEF KeepInv, Calm, FailureKeepsCopy
<1> QED BY <1>1, KeepInvHolds, PTL
=============================================================================
