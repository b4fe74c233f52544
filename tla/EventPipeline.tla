--------------------------- MODULE EventPipeline ---------------------------
(***************************************************************************)
(* The path of an order event through the analytics service: RabbitMQ      *)
(* queue, consumer loop (pkg/messaging/amqp.go), deduplication             *)
(* (lib/coreevents/consumer.go, event_ids_repo.go) and the handler's       *)
(* sequence of MongoDB updates (DayAggregates), together with what can     *)
(* interrupt it: a failing MongoDB call, a kill, the graceful shutdown of  *)
(* lib/boot/boot.go and the loss of the AMQP connection.                   *)
(*                                                                         *)
(* A step is one call to MongoDB or RabbitMQ, or one statement of the loop *)
(* that picks what happens next: the code holds no lock and runs in no     *)
(* transaction between two of them.                                        *)
(***************************************************************************)
EXTENDS DayAggregates, FiniteSets

CONSTANTS
  Instances,  \* running copies of the service, all on the same queue
  Copies,     \* messages the outbox may put on the exchange, duplicates too
  EventIds,   \* event_id values
  NoEventId,  \* the empty event_id
  Malformed,  \* a payload json.Unmarshal rejects
  Messages,   \* the bodies a copy may have
  NoMessage,  \* the body of a copy that is not published yet
  NoCopy,     \* the loop holds no message
  Prefetch,   \* RABBITMQ_PREFETCH
  DayLength,  \* clock ticks in a day
  DedupTTL,   \* expireAfterSeconds of ttl_received_at, in ticks
  Horizon,    \* bound on the clock
  Quota       \* bound on the faults of each kind

(* binding keys are order.# and payment.#, so other keys never arrive. *)
Message == [key: STRING, wellFormed: BOOLEAN, id: EventIds \cup {NoEventId},
            payload: Input \cup {Malformed}]

FaultKinds == {"stop", "mongo", "drop"}

(* Where the broker has a copy, when it is not unacked at an instance. *)
BrokerPlaces == {"outbox", "ready", "acked", "dead"}

ASSUME MessagesAssumption ==
  /\ Messages \subseteq Message
  /\ Malformed \notin Input
  /\ NoMessage \notin Messages
\* The order service gives every outbox row an id of its own.
ASSUME IdsAssumption ==
  /\ NoEventId \notin EventIds
  /\ \A e \in EventIds : \E m \in Messages : m.id = e
  /\ \A m, n \in Messages : m.id = n.id /\ m.id # NoEventId => m = n
ASSUME InstancesAssumption == Instances \cap BrokerPlaces = {}
ASSUME CopiesAssumption == NoCopy \notin Copies
ASSUME BoundsAssumption ==
  /\ DayLength \in Nat \ {0}
  /\ DedupTTL \in Nat
  /\ Prefetch \in Nat \ {0}
  /\ Horizon \in Nat
  /\ Quota \in [FaultKinds -> Nat]

VARIABLES
  place,   \* for each copy: a broker place, or the instance it is unacked at
  body,    \* the message of each copy
  pc,      \* for each instance: where its consumer loop is
  live,    \* for each instance: its context is not cancelled
  link,    \* for each instance: its AMQP connection is open
  buffer,  \* for each instance: copies in the deliveries channel
  hand,    \* for each instance: the copy its loop is handling
  plan,    \* for each instance: the updates its handler has still to make
  seen,    \* event_ids: received_at of each marker, NotSeen when there is none
  rows,    \* the documents of the four agg_*_day collections
  now,     \* wall clock
  quota,   \* faults that may still happen
  claims,  \* history: when MarkSeen answered firstTime, for each event
  effects  \* history: handler iterations carried out for each event

broker  == <<place, body>>
process == <<live, link>>
loop    == <<pc, hand, plan>>
db      == <<seen, rows>>
history == <<claims, effects>>
vars == <<place, body, pc, live, link, buffer, hand, plan, seen, rows, now,
          quota, claims, effects>>

PcValues == {"down", "idle", "markSeen", "update", "ack", "nack", "stopped"}
NotSeen == -1

(* The type of every variable. *)
TypeOK ==
  /\ place \in [Copies -> BrokerPlaces \cup Instances]
  /\ body \in [Copies -> Messages \cup {NoMessage}]
  /\ pc \in [Instances -> PcValues]
  /\ live \in [Instances -> BOOLEAN]
  /\ link \in [Instances -> {"open", "closed"}]
  /\ buffer \in [Instances -> SUBSET Copies]
  /\ hand \in [Instances -> Copies \cup {NoCopy}]
  /\ plan \in [Instances -> Seq(Update)]
  /\ seen \in [EventIds -> Nat \cup {NotSeen}]
  /\ IsRows(rows)
  /\ now \in Nat
  /\ quota \in [FaultKinds -> Nat]
  /\ claims \in [EventIds -> Seq(Nat)]
  /\ effects \in [EventIds -> Nat]

(* An empty queue and database, the service not started. *)
Init ==
  /\ place = [c \in Copies |-> "outbox"]
  /\ body = [c \in Copies |-> NoMessage]
  /\ pc = [i \in Instances |-> "down"]
  /\ live = [i \in Instances |-> FALSE]
  /\ link = [i \in Instances |-> "closed"]
  /\ buffer = [i \in Instances |-> {}]
  /\ hand = [i \in Instances |-> NoCopy]
  /\ plan = [i \in Instances |-> <<>>]
  /\ seen = [e \in EventIds |-> NotSeen]
  /\ rows = [d \in {} |-> 0]
  /\ now = 0
  /\ quota = Quota
  /\ claims = [e \in EventIds |-> <<>>]
  /\ effects = [e \in EventIds |-> 0]

Today == now \div DayLength

Msg(i)   == body[hand[i]]
Event(i) == Msg(i).id

Spend(kind) == /\ quota[kind] > 0
               /\ quota' = [quota EXCEPT ![kind] = @ - 1]

-----------------------------------------------------------------------------
(* The order service and RabbitMQ *)

(* The outbox drain publishes an event, once or, after a lost confirm,     *)
(* again: two copies may have the same body.  The drains of the regions    *)
(* are not ordered among themselves.                                       *)
Publish(c) ==
  /\ place[c] = "outbox"
  /\ place' = [place EXCEPT ![c] = "ready"]
  /\ \E m \in Messages : body' = [body EXCEPT ![c] = m]
  /\ UNCHANGED <<loop, process, buffer, db, now, quota, history>>

Unacked(i) == {c \in Copies : place[c] = i}

(* The broker pushes to every open channel that has room, also to one      *)
(* whose loop has already returned.                                        *)
Deliver(c, i) ==
  /\ place[c] = "ready"
  /\ link[i] = "open"
  /\ Cardinality(Unacked(i)) < Prefetch
  /\ place' = [place EXCEPT ![c] = i]
  /\ buffer' = [buffer EXCEPT ![i] = @ \cup {c}]
  /\ UNCHANGED <<body, loop, process, db, now, quota, history>>

(* A connection that closes hands its unacked copies back to the queue. *)
Requeued(i) == [c \in Copies |-> IF place[c] = i THEN "ready" ELSE place[c]]

-----------------------------------------------------------------------------
(* The consumer loop *)

(* The callback of Consumer.Start up to the dedup check: a malformed       *)
(* envelope and an empty event_id are acked and skipped.                   *)
Take(i) ==
  /\ pc[i] = "idle"
  /\ \E c \in buffer[i] :
       /\ hand' = [hand EXCEPT ![i] = c]
       /\ buffer' = [buffer EXCEPT ![i] = @ \ {c}]
       /\ pc' = [pc EXCEPT ![i] =
                   IF body[c].wellFormed /\ body[c].id # NoEventId
                     THEN "markSeen" ELSE "ack"]
  /\ UNCHANGED <<broker, plan, process, db, now, quota, history>>

(* The loop returns when its context is done or its channel is closed;     *)
(* select takes any case that is ready, and nothing restarts the loop.     *)
Return(i) ==
  /\ pc[i] = "idle"
  /\ ~live[i] \/ link[i] = "closed"
  /\ pc' = [pc EXCEPT ![i] = "stopped"]
  /\ UNCHANGED <<broker, hand, plan, buffer, process, db, now, quota, history>>

(* Mutant of Unmarked: event_ids has no unique index. *)
AlwaysUnmarked(e) == TRUE

(* The unique index uq_event_id admits an insert of the marker. *)
Unmarked(e) == seen[e] = NotSeen

(* Mutant of Duplicate: the skipped duplicate is not acked. *)
DuplicateUnacked(i) ==
  /\ pc[i] = "markSeen"
  /\ live[i]
  /\ ~Unmarked(Event(i))
  /\ pc' = [pc EXCEPT ![i] = "idle"]
  /\ hand' = [hand EXCEPT ![i] = NoCopy]
  /\ UNCHANGED <<broker, plan, buffer, process, db, now, quota, history>>

(* MarkSeen finds the marker of an earlier delivery: ack and skip. *)
Duplicate(i) ==
  /\ pc[i] = "markSeen"
  /\ live[i]
  /\ ~Unmarked(Event(i))
  /\ pc' = [pc EXCEPT ![i] = "ack"]
  /\ UNCHANGED <<broker, hand, plan, buffer, process, db, now, quota, history>>

(* MarkSeen inserts the marker; then the handler is looked up by routing   *)
(* key, unmarshals the payload and, if it needs to, reads the clock.       *)
FirstTime(i) ==
  LET e == Event(i)
  IN  /\ pc[i] = "markSeen"
      /\ live[i]
      /\ Unmarked(e)
      /\ seen' = [seen EXCEPT ![e] = now]
      /\ claims' = [claims EXCEPT ![e] = Append(@, now)]
      /\ \/ /\ Msg(i).key \notin HandlerFor
            /\ pc' = [pc EXCEPT ![i] = "ack"]
            /\ UNCHANGED plan
         \/ /\ Msg(i).key \in HandlerFor
            /\ Msg(i).payload = Malformed
            /\ pc' = [pc EXCEPT ![i] = "nack"]
            /\ UNCHANGED plan
         \/ /\ Msg(i).key \in HandlerFor
            /\ Msg(i).payload # Malformed
            /\ pc' = [pc EXCEPT ![i] = "update"]
            /\ plan' = [plan EXCEPT ![i] =
                          Handle(Msg(i).key, Msg(i).payload, Today)]
      /\ UNCHANGED <<broker, hand, buffer, process, rows, now, quota, effects>>

(* A MongoDB call fails because its context is cancelled, or else spends   *)
(* the quota of MongoDB faults.                                            *)
CallFails(i) == IF live[i] THEN Spend("mongo") ELSE UNCHANGED quota

(* MarkSeen returns an error; the insert may have been made or not. *)
MarkSeenFails(i) ==
  /\ pc[i] = "markSeen"
  /\ CallFails(i)
  /\ \/ UNCHANGED seen
     \/ /\ Unmarked(Event(i))
        /\ seen' = [seen EXCEPT ![Event(i)] = now]
  /\ pc' = [pc EXCEPT ![i] = "nack"]
  /\ UNCHANGED <<broker, hand, plan, buffer, process, rows, now, history>>

(* One step of the handler is behind; the callback acks after the last. *)
Advance(i) ==
  /\ plan' = [plan EXCEPT ![i] = Tail(@)]
  /\ pc' = [pc EXCEPT ![i] = IF Len(plan[i]) = 1 THEN "ack" ELSE "update"]
  /\ effects' = [effects EXCEPT ![Event(i)] = @ + 1]

(* The next update of the handler succeeds. *)
ApplyUpdate(i) ==
  /\ pc[i] = "update"
  /\ live[i]
  /\ Head(plan[i]) # NoCall
  /\ rows' \in UpdateOne(rows, Head(plan[i]))
  /\ Advance(i)
  /\ UNCHANGED <<broker, hand, buffer, process, seen, now, quota, claims>>

(* The items loop continues past an item it does not count. *)
SkipItem(i) ==
  /\ pc[i] = "update"
  /\ Head(plan[i]) = NoCall
  /\ Advance(i)
  /\ UNCHANGED <<broker, hand, buffer, process, db, now, quota, claims>>

(* Mutant of UpdateFails: an update that returned an error is tried again, *)
(* though it may have been made.                                           *)
UpdateRetried(i) ==
  /\ pc[i] = "update"
  /\ Head(plan[i]) # NoCall
  /\ CallFails(i)
  /\ \/ UNCHANGED <<rows, effects>>
     \/ /\ rows' \in UpdateOne(rows, Head(plan[i]))
        /\ effects' = [effects EXCEPT ![Event(i)] = @ + 1]
  /\ UNCHANGED <<broker, loop, buffer, process, seen, now, claims>>

(* The next update returns an error, made or not, and the handler returns  *)
(* it: what it did before stays, what comes after is not done.             *)
UpdateFails(i) ==
  /\ pc[i] = "update"
  /\ Head(plan[i]) # NoCall
  /\ CallFails(i)
  /\ \/ UNCHANGED <<rows, effects>>
     \/ /\ rows' \in UpdateOne(rows, Head(plan[i]))
        /\ effects' = [effects EXCEPT ![Event(i)] = @ + 1]
  /\ plan' = [plan EXCEPT ![i] = <<>>]
  /\ pc' = [pc EXCEPT ![i] = "nack"]
  /\ UNCHANGED <<broker, hand, buffer, process, seen, now, claims>>

(* An ack or nack reaches the broker only over the connection the copy     *)
(* came on; on a closed one it returns an error, and the nack that the     *)
(* error leads to fails too and is ignored.                                *)
Settle(i, outcome) ==
  /\ place' = IF place[hand[i]] = i THEN [place EXCEPT ![hand[i]] = outcome]
                                    ELSE place
  /\ hand' = [hand EXCEPT ![i] = NoCopy]
  /\ pc' = [pc EXCEPT ![i] = "idle"]
  /\ UNCHANGED <<body, plan, buffer, process, db, now, quota, history>>

Ack(i) == pc[i] = "ack" /\ Settle(i, "acked")

(* Mutants of Nack: a failed copy is acked, or put back on the queue. *)
AckOnError(i) == pc[i] = "nack" /\ Settle(i, "acked")
NackRequeues(i) == pc[i] = "nack" /\ Settle(i, "ready")

(* Nack(requeue = false): the queue's dead-letter exchange takes the copy. *)
Nack(i) == pc[i] = "nack" /\ Settle(i, "dead")

-----------------------------------------------------------------------------
(* The process *)

(* boot.Run up to the started consumer. *)
Start(i) ==
  /\ pc[i] = "down"
  /\ pc' = [pc EXCEPT ![i] = "idle"]
  /\ live' = [live EXCEPT ![i] = TRUE]
  /\ link' = [link EXCEPT ![i] = "open"]
  /\ UNCHANGED <<broker, hand, plan, buffer, db, now, quota, history>>

(* SIGTERM cancels the context; the loop is not waited for. *)
Terminate(i) ==
  /\ pc[i] # "down"
  /\ live[i]
  /\ Spend("stop")
  /\ live' = [live EXCEPT ![i] = FALSE]
  /\ UNCHANGED <<broker, loop, link, buffer, db, now, history>>

(* The deferred broker.Close, once the HTTP server has shut down. *)
CloseBroker(i) ==
  /\ pc[i] # "down"
  /\ ~live[i]
  /\ link[i] = "open"
  /\ link' = [link EXCEPT ![i] = "closed"]
  /\ place' = Requeued(i)
  /\ UNCHANGED <<body, loop, live, buffer, db, now, quota, history>>

(* What is left of a process that is gone: its connection closes. *)
Gone(i) ==
  /\ pc' = [pc EXCEPT ![i] = "down"]
  /\ live' = [live EXCEPT ![i] = FALSE]
  /\ link' = [link EXCEPT ![i] = "closed"]
  /\ buffer' = [buffer EXCEPT ![i] = {}]
  /\ hand' = [hand EXCEPT ![i] = NoCopy]
  /\ plan' = [plan EXCEPT ![i] = <<>>]
  /\ place' = Requeued(i)
  /\ UNCHANGED <<body, db, now, history>>

(* boot.Run returns, wherever the loop is. *)
Exit(i) ==
  /\ pc[i] # "down"
  /\ ~live[i]
  /\ link[i] = "closed"
  /\ Gone(i)
  /\ UNCHANGED quota

(* The process is killed between any two steps. *)
Kill(i) ==
  /\ pc[i] # "down"
  /\ Spend("stop")
  /\ Gone(i)

(* The broker or the network drops the connection; nothing dials again. *)
DropConnection(i) ==
  /\ link[i] = "open"
  /\ Spend("drop")
  /\ link' = [link EXCEPT ![i] = "closed"]
  /\ place' = Requeued(i)
  /\ UNCHANGED <<body, loop, live, buffer, db, now, history>>

-----------------------------------------------------------------------------
(* Time *)

Tick ==
  /\ now < Horizon
  /\ now' = now + 1
  /\ UNCHANGED <<broker, loop, process, buffer, db, quota, history>>

(* Mutant of Expired: the age of the marker is not looked at. *)
ExpiredByClock(e) == now >= DedupTTL

(* MongoDB's TTL monitor removes a marker some time after it expires. *)
Expired(e) == now - seen[e] >= DedupTTL

ExpireMarker(e) ==
  /\ ~Unmarked(e)
  /\ Expired(e)
  /\ seen' = [seen EXCEPT ![e] = NotSeen]
  /\ UNCHANGED <<broker, loop, process, buffer, rows, now, quota, history>>

-----------------------------------------------------------------------------
Loop(i) ==
  \/ Take(i) \/ Return(i)
  \/ Duplicate(i) \/ FirstTime(i) \/ MarkSeenFails(i)
  \/ ApplyUpdate(i) \/ SkipItem(i) \/ UpdateFails(i)
  \/ Ack(i) \/ Nack(i)

Process(i) ==
  \/ Start(i) \/ Terminate(i) \/ CloseBroker(i) \/ Exit(i)
  \/ Kill(i) \/ DropConnection(i)

Next ==
  \/ \E c \in Copies : Publish(c)
  \/ \E c \in Copies, i \in Instances : Deliver(c, i)
  \/ \E i \in Instances : Loop(i) \/ Process(i)
  \/ Tick
  \/ \E e \in EventIds : ExpireMarker(e)

Spec == Init /\ [][Next]_vars

(* The scheduler runs every goroutine that can run, RabbitMQ delivers to a *)
(* channel with room, main finishes a shutdown it began, and the restart   *)
(* policy starts a process that is gone.  Faults, the outbox, the clock    *)
(* and the TTL monitor owe nothing.                                        *)
Fairness ==
  \A i \in Instances :
    /\ WF_vars(Loop(i))
    /\ WF_vars(\E c \in Copies : Deliver(c, i))
    /\ WF_vars(CloseBroker(i))
    /\ WF_vars(Exit(i))
    /\ WF_vars(Start(i))

FairSpec == Spec /\ Fairness

-----------------------------------------------------------------------------
(* What an event stands for *)

(* The consumer calls a handler for m, and the handler gets past decoding. *)
Handled(m) == /\ m.wellFormed
              /\ m.id # NoEventId
              /\ m.key \in HandlerFor
              /\ m.payload # Malformed

(* The handler iterations that count m once. *)
Steps(m) == IF Handled(m) THEN Len(Handle(m.key, m.payload, 0)) ELSE 0

MessageOf(e) == CHOOSE m \in Messages : m.id = e

Published(c) == place[c] # "outbox"
CopiesOf(e)  == {c \in Copies : Published(c) /\ body[c].id = e}

Counted(e) == effects[e] >= Steps(MessageOf(e))

-----------------------------------------------------------------------------
(* Safety *)

(* Deduplication: two deliveries of one event that MarkSeen both answers   *)
(* firstTime, on whatever instances, are at least the marker's lifetime    *)
(* apart (event_ids_repo.go:22-34 with the two indexes of event_ids).      *)
DedupWindow ==
  \A e \in EventIds : \A j, k \in DOMAIN claims[e] :
    j < k => claims[e][k] - claims[e][j] >= DedupTTL

(* Silent loss: every copy of an event is acked, and yet some of the       *)
(* updates it stands for have not been made.                               *)
LostSilently(e) ==
  /\ CopiesOf(e) # {}
  /\ \A c \in CopiesOf(e) : place[c] = "acked"
  /\ ~Counted(e)

(* As long as no process stops and no connection is lost, MongoDB may fail *)
(* as it likes and copies may be duplicated: an event that is not counted  *)
(* in full has a copy left, in the end one in the dead-letter queue        *)
(* (consumer.go:51-73 and amqp.go:84-87 nack after every error, and ack    *)
(* after the handler only).                                                *)
FailureKeepsCopy ==
  quota.stop = Quota.stop /\ quota.drop = Quota.drop
    => \A e \in EventIds : ~LostSilently(e)

(* "Unacked messages redeliver; dedupe prevents double-count"              *)
(* (docs/system-design.md:43): a restart loses no event.  The marker is    *)
(* written before the handler runs (consumer.go:51), so the redelivered    *)
(* copy is acked as a duplicate of the delivery that was cut short.        *)
RestartLosesNothing == \A e \in EventIds : ~LostSilently(e)

(* Only an event that no retry can help is dead-lettered: "events          *)
(* nack->requeue" when MongoDB is down (docs/system-design.md:37),         *)
(* "unacked messages redeliver" when the service restarts (:43).  The loop *)
(* nacks every error without requeue (amqp.go:86).                         *)
OnlyMalformedDeadLettered ==
  \A c \in Copies : place[c] = "dead" => body[c].payload = Malformed

(* "No infinite retry loop" (docs/system-design.md:42): a copy returns to  *)
(* the queue only because the connection it came on has closed, whatever   *)
(* its handler returned.                                                   *)
RequeuedOnDisconnectOnly ==
  [][\A c \in Copies, i \in Instances :
       place[c] = i /\ place'[c] = "ready" => link'[i] = "closed"]_vars

(* The marker of an event and the handler working on it, as the promise of *)
(* AtMostOnceLedger.                                                       *)
EventStatus(e) ==
  IF seen[e] = NotSeen THEN "new"
  ELSE IF \E i \in Instances : pc[i] = "update" /\ Event(i) = e THEN "open"
  ELSE "closed"

Ledger == INSTANCE AtMostOnceLedger WITH
  Events  <- EventIds,
  Size    <- [e \in EventIds |-> Steps(MessageOf(e))],
  status  <- [e \in EventIds |-> EventStatus(e)],
  applied <- effects

(* While no marker expires (DedupTTL > Horizon), the pipeline keeps the    *)
(* ledger's promise under every fault, restart and duplicate: each update  *)
(* of an event at most once, in order, and none after its handling ended.  *)
AtMostOnce == Ledger!LedgerSpec

-----------------------------------------------------------------------------
(* Liveness *)

(* Every copy on the queue is acked or dead-lettered in the end.           *)
Settled ==
  \A c \in Copies : place[c] = "ready" ~> place[c] \in {"acked", "dead"}
=============================================================================
