-------------------------- MODULE ServiceLifecycle --------------------------
(***************************************************************************)
(* The process around the permission cache: how lib/boot/boot.go brings an *)
(* instance up, one call after the other, and takes it down again when a   *)
(* signal arrives or a call fails; the HTTP server that admits requests    *)
(* in between, and what becomes of the requests it is working on.          *)
(*                                                                         *)
(* Every step of PermissionCache is a step here; ProcessGone, Subscribe    *)
(* and Arrive happen when the process does, starts its core consumer, and  *)
(* serves.                                                                 *)
(***************************************************************************)
EXTENDS PermissionCache, Sequences, SequencesExt

(* Mutant of Boot: the consumer starts before the indexes are ensured.     *)
ConsumeBeforeIndexes ==
  << "config", "mongo", "broker", "exchange", "dlx", "dlq", "dlqBinding",
     "queue", "bindings", "consume", "indexes", "coreBroker",
     "coreTopology", "coreConsume" >>

(* The calls of Run that can fail, in order: config.Load, mongo.Connect,   *)
(* EnsureIndexes, the broker's Connect, the declarations of assertTopology *)
(* and ch.Consume, and the same for the core-events broker.                *)
Boot ==
  << "config", "mongo", "indexes", "broker", "exchange", "dlx", "dlq",
     "dlqBinding", "queue", "bindings", "consume", "coreBroker",
     "coreTopology", "coreConsume" >>

(* The calls whose connection Run defers to close.                         *)
Connections == {"mongo", "broker", "coreBroker"}

(* What outlives the process: the indexes of the database and the topology *)
(* of the broker, all of it durable.                                       *)
Durable == {"indexes", "exchange", "dlx", "dlq", "dlqBinding", "queue", "bindings"}

VARIABLES
  phase,     \* of each instance: where Run is
  calls,     \* of each instance: how many calls of Boot have succeeded
  live,      \* of each instance: the signal context is not cancelled
  defers,    \* of each instance: the connections to close, the last one first
  attached,  \* of each instance: its order consumer is attached to the queue
  server,    \* of each instance: the goroutine of ListenAndServe
  built,     \* what exists of Durable
  reply,     \* of each request that reached the controller: its answer
  cut        \* history: requests in flight at a kill or at the end of a drain

process == <<phase, calls, live, defers, attached, server>>
svars == <<vars, process, built, reply, cut>>

Phases  == {"down", "boot", "serve", "drain", "return"}
Servers == {"none", "starting", "listening", "failed", "closed"}
Replies == {"none", "rows", "error", "disconnected", "lost"}

(* The connections made by the first n calls of Boot, the last one first.  *)
Made[n \in 0..Len(Boot)] ==
  IF n = 0 THEN <<>>
           ELSE (IF Boot[n] \in Connections THEN <<Boot[n]>> ELSE <<>>) \o Made[n - 1]

(* The type of every variable; a deferred close belongs to a connection    *)
(* that was made, and until Run returns none is missing (boot.go:45-103).  *)
ServiceTypeOK ==
  /\ TypeOK
  /\ phase \in [Instances -> Phases]
  /\ calls \in [Instances -> 0..Len(Boot)]
  /\ live \in [Instances -> BOOLEAN]
  /\ \A i \in Instances :
       /\ IsSuffix(defers[i], Made[calls[i]])
       /\ phase[i] # "return" => defers[i] = Made[calls[i]]
  /\ attached \in [Instances -> BOOLEAN]
  /\ server \in [Instances -> Servers]
  /\ built \subseteq Durable
  /\ reply \in [Requests -> Replies]
  /\ cut \subseteq Requests

ServiceInit ==
  /\ Init
  /\ listening = [i \in Instances |-> FALSE]
  /\ phase = [i \in Instances |-> "down"]
  /\ calls = [i \in Instances |-> 0]
  /\ live = [i \in Instances |-> FALSE]
  /\ defers = [i \in Instances |-> <<>>]
  /\ attached = [i \in Instances |-> FALSE]
  /\ server = [i \in Instances |-> "none"]
  /\ built = {}
  /\ reply = [q \in Requests |-> "none"]
  /\ cut = {}

-----------------------------------------------------------------------------
(* Up *)

Launch(i) ==
  /\ phase[i] = "down"
  /\ phase' = [phase EXCEPT ![i] = "boot"]
  /\ live' = [live EXCEPT ![i] = TRUE]
  /\ UNCHANGED <<vars, calls, defers, attached, server, built, reply, cut>>

(* The next call of Run succeeds.  Only mongo.Connect and EnsureIndexes    *)
(* look at the context; AMQPBroker.Connect and Consume do not.  After the  *)
(* last one Run starts the goroutine of ListenAndServe.                    *)
CallReturns(i) ==
  /\ phase[i] = "boot"
  /\ LET call == Boot[calls[i] + 1]
         last_call == calls[i] + 1 = Len(Boot)
     IN  /\ call \in {"mongo", "indexes"} => live[i]
         /\ calls' = [calls EXCEPT ![i] = @ + 1]
         /\ built' = built \cup ({call} \cap Durable)
         /\ defers' = [defers EXCEPT ![i] =
                         IF call \in Connections THEN <<call>> \o @ ELSE @]
         /\ attached' = [attached EXCEPT ![i] = @ \/ call = "consume"]
         /\ phase' = [phase EXCEPT ![i] = IF last_call THEN "serve" ELSE @]
         /\ server' = [server EXCEPT ![i] = IF last_call THEN "starting" ELSE @]
         /\ IF call = "coreConsume" THEN Subscribe(i) ELSE UNCHANGED vars
  /\ UNCHANGED <<live, reply, cut>>

(* Mutant of CallErrs: the close is deferred before the error is looked at. *)
DeferBeforeCheck(i) ==
  /\ phase[i] = "boot"
  /\ phase' = [phase EXCEPT ![i] = "return"]
  /\ LET call == Boot[calls[i] + 1]
     IN  defers' = [defers EXCEPT ![i] =
                      IF call \in Connections THEN <<call>> \o @ ELSE @]
  /\ UNCHANGED <<vars, calls, live, attached, server, built, reply, cut>>

(* It fails, and Run returns: the closes deferred so far are to be done.   *)
CallErrs(i) ==
  /\ phase[i] = "boot"
  /\ phase' = [phase EXCEPT ![i] = "return"]
  /\ UNCHANGED <<vars, calls, live, defers, attached, server, built, reply, cut>>

(* ListenAndServe binds the address, or fails, which is only logged: the   *)
(* process goes on without HTTP.  After Shutdown it returns at once.       *)
Listen(i) ==
  /\ server[i] = "starting"
  /\ \E s \in IF phase[i] = "serve" THEN {"listening", "failed"} ELSE {"closed"} :
       server' = [server EXCEPT ![i] = s]
  /\ UNCHANGED <<vars, phase, calls, live, defers, attached, built, reply, cut>>

-----------------------------------------------------------------------------
(* Serving *)

(* A request that has reached an instance and is not answered.             *)
InFlight(q) ==
  \/ pc[q] \notin Outcomes \cup {"unsent"}
  \/ pc[q] = "served" /\ reply[q] = "none"

InFlightAt(i) == {q \in Requests : q.at = i /\ InFlight(q)}

Admit(q) ==
  /\ server[q.at] = "listening"
  /\ Arrive(q)
  /\ UNCHANGED <<process, built, reply, cut>>

ServeStep(q) ==
  /\ phase[q.at] # "down"
  /\ Handler(q)
  /\ UNCHANGED <<process, built, reply, cut>>

(* The controller queries MongoDB, for as long as that takes: the context  *)
(* of a request has no deadline.  A client that is disconnected refuses.   *)
Query(q) ==
  /\ pc[q] = "served" /\ reply[q] = "none"
  /\ \E r \in IF Contains(defers[q.at], "mongo")
                THEN {"rows", "error"} ELSE {"disconnected"} :
       reply' = [reply EXCEPT ![q] = r]
  /\ UNCHANGED <<vars, process, built, cut>>

(* A connection to the broker is lost; nothing dials again.                *)
LoseBroker(i) ==
  /\ attached[i]
  /\ attached' = [attached EXCEPT ![i] = FALSE]
  /\ UNCHANGED <<vars, phase, calls, live, defers, server, built, reply, cut>>

-----------------------------------------------------------------------------
(* Down *)

(* SIGINT or SIGTERM, once NotifyContext has been called; before, it kills. *)
Signal(i) ==
  /\ phase[i] # "down" /\ calls[i] > 0 /\ live[i]
  /\ live' = [live EXCEPT ![i] = FALSE]
  /\ UNCHANGED <<vars, phase, calls, defers, attached, server, built, reply, cut>>

(* <-ctx.Done(), and srv.Shutdown closes the listener.                     *)
Shutdown(i) ==
  /\ phase[i] = "serve" /\ ~live[i]
  /\ phase' = [phase EXCEPT ![i] = "drain"]
  /\ server' = [server EXCEPT ![i] = IF @ = "listening" THEN "closed" ELSE @]
  /\ UNCHANGED <<vars, calls, live, defers, attached, built, reply, cut>>

(* Mutant of Drained: srv.Close, which does not wait for the requests.     *)
CloseAtOnce(i) ==
  /\ phase[i] = "drain"
  /\ phase' = [phase EXCEPT ![i] = "return"]
  /\ UNCHANGED <<vars, calls, live, defers, attached, server, built, reply, cut>>

(* Shutdown returns when no request is in flight.                          *)
Drained(i) ==
  /\ phase[i] = "drain"
  /\ InFlightAt(i) = {}
  /\ phase' = [phase EXCEPT ![i] = "return"]
  /\ UNCHANGED <<vars, calls, live, defers, attached, server, built, reply, cut>>

(* Mutant of DrainTimesOut: Shutdown gets a context without a deadline.    *)
NoDeadline(i) == FALSE

(* Or when its ten seconds have passed.                                    *)
DrainTimesOut(i) ==
  /\ phase[i] = "drain"
  /\ InFlightAt(i) # {}
  /\ phase' = [phase EXCEPT ![i] = "return"]
  /\ cut' = cut \cup InFlightAt(i)
  /\ UNCHANGED <<vars, calls, live, defers, attached, server, built, reply>>

(* The deferred closes, the last one first; the goroutines of requests cut *)
(* off run on meanwhile.                                                   *)
Close(i) ==
  /\ phase[i] = "return" /\ defers[i] # <<>>
  /\ defers' = [defers EXCEPT ![i] = Tail(@)]
  /\ attached' = [attached EXCEPT ![i] = @ /\ Head(defers[i]) # "broker"]
  /\ IF Head(defers[i]) = "coreBroker" /\ listening[i]
       THEN DropConnection(i) ELSE UNCHANGED vars
  /\ UNCHANGED <<phase, calls, live, server, built, reply, cut>>

(* The process is no more, and the system closes what it had open.         *)
Ends(i) ==
  /\ ProcessGone(i)
  /\ phase' = [phase EXCEPT ![i] = "down"]
  /\ calls' = [calls EXCEPT ![i] = 0]
  /\ live' = [live EXCEPT ![i] = FALSE]
  /\ defers' = [defers EXCEPT ![i] = <<>>]
  /\ attached' = [attached EXCEPT ![i] = FALSE]
  /\ server' = [server EXCEPT ![i] = "none"]
  /\ reply' = [q \in Requests |->
                 IF q.at = i /\ pc[q] = "served" /\ reply[q] = "none"
                   THEN "lost" ELSE reply[q]]
  /\ UNCHANGED built

(* main returns, or logs the error of Run and exits.                       *)
Exit(i) ==
  /\ phase[i] = "return" /\ defers[i] = <<>>
  /\ Ends(i)
  /\ UNCHANGED cut

(* The process is killed.                                                  *)
Kill(i) ==
  /\ phase[i] # "down"
  /\ Ends(i)
  /\ cut' = cut \cup InFlightAt(i)

-----------------------------------------------------------------------------
(* The goroutine of Run.                                                   *)
Run(i) ==
  \/ CallReturns(i) \/ CallErrs(i)
  \/ Shutdown(i) \/ Drained(i) \/ DrainTimesOut(i) \/ Close(i) \/ Exit(i)

ServiceNext ==
  \/ \E i \in Instances :
       \/ Launch(i) \/ Run(i) \/ Listen(i)
       \/ LoseBroker(i) \/ Signal(i) \/ Kill(i)
  \/ \E q \in Requests : Admit(q) \/ ServeStep(q) \/ Query(q)
  \/ CoreStep /\ UNCHANGED <<process, built, reply, cut>>

(* Run goes on: every call it makes returns or fails, and the timer of the *)
(* drain fires.  A query of MongoDB need not end.                          *)
ServiceSpec ==
  /\ ServiceInit /\ [][ServiceNext]_svars
  /\ \A i \in Instances : WF_svars(Run(i))
  /\ \A q \in Requests : WF_svars(ServeStep(q))

-----------------------------------------------------------------------------
(* A consumer takes orders only while MongoDB is connected and has its     *)
(* indexes, on which the dedup of events rests, and only from a queue that *)
(* is bound and whose rejected messages are kept: at boot, at shutdown,    *)
(* and when any call of either fails (boot.go:45-95, amqp.go:92-128).      *)
ReadyToConsume ==
  \A i \in Instances :
    attached[i] => /\ Contains(defers[i], "mongo")
                   /\ Durable \subseteq built

(* A signal costs no request its answer: a request gets none, or finds     *)
(* MongoDB disconnected, only when the process was killed or ten seconds   *)
(* were not enough for it (boot.go:154-163).                               *)
DrainAnswers ==
  \A q \in Requests :
    pc[q] = "lost" \/ reply[q] \in {"lost", "disconnected"} => q \in cut

(* A process that got a signal ends, wherever Run was, and even if a query *)
(* never does (boot.go:157-163).                                           *)
Stops ==
  \A i \in Instances : phase[i] # "down" /\ ~live[i] ~> phase[i] = "down"
=============================================================================
