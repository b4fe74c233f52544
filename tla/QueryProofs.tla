----------------------------- MODULE QueryProofs -----------------------------
(***************************************************************************)
(* Queries do not disturb the pipeline they read, and an answer shows only *)
(* what its query selects: for any queries, workload, number of instances  *)
(* and faults.  That a cursor never waits for a document that has gone     *)
(* (due, found) rests on UpdateOne never removing one.                     *)
(*                                                                         *)
(* No handler lowers a revenue either, so what the rows were when a query  *)
(* was asked is a floor under what its cursor reads.  With one instance    *)
(* that floor has what an answer of a later route had shown, hence         *)
(* ReadAgainstTheFlow; as long as nothing has failed it has the orders     *)
(* that are acked, hence AckedIsVisible.                                   *)
(***************************************************************************)
EXTENDS DaysQuery, PipelineTotalsProofs

-----------------------------------------------------------------------------
(* The pipeline is the one that is read *)

LEMMA PipelineOfQuery == [QueryNext]_qvars => [Next]_vars
BY DEF QueryNext, qvars, Ask, Respond, Read, Finish, FindFails

(* The queries are steps the pipeline does not take part in, so what is    *)
(* proved of it holds while it is being read (Find takes no lock,          *)
(* restaurant_day_repo.go:80-102).                                         *)
THEOREM QueryIsPipeline == QuerySpec => Spec
<1>1. QueryInit => Init
  BY DEF QueryInit
<1> QED BY <1>1, PipelineOfQuery, PTL DEF QuerySpec, Spec

-----------------------------------------------------------------------------
(* Documents stay *)

LEMMA UpdateKeepsDocs ==
  ASSUME NEW rws, NEW u, NEW after \in UpdateOne(rws, u)
  PROVE  DOMAIN rws \subseteq DOMAIN after
BY DEF UpdateOne, Put

(* Only a handler's update changes the rows. *)
LEMMA DocsStay == [Next]_vars => DOMAIN rows \subseteq DOMAIN rows'
<1> SUFFICES ASSUME [Next]_vars
             PROVE  DOMAIN rows \subseteq DOMAIN rows'
  OBVIOUS
<1>1. ASSUME NEW i \in Instances, ApplyUpdate(i) \/ UpdateFails(i)
      PROVE  DOMAIN rows \subseteq DOMAIN rows'
  BY <1>1, UpdateKeepsDocs DEF ApplyUpdate, UpdateFails
<1>2. ASSUME NEW i \in Instances, Loop(i)
      PROVE  rows' = rows \/ ApplyUpdate(i) \/ UpdateFails(i)
  <2>1. CASE Take(i) \/ Return(i) \/ Duplicate(i) \/ FirstTime(i) \/ MarkSeenFails(i)
    BY <2>1 DEF Take, Return, Duplicate, FirstTime, MarkSeenFails, db
  <2>2. CASE SkipItem(i) \/ Ack(i) \/ Nack(i)
    BY <2>2 DEF SkipItem, Ack, Nack, Settle, db
  <2> QED BY <1>2, <2>1, <2>2 DEF Loop
<1>3. ASSUME NEW i \in Instances, Process(i)
      PROVE  rows' = rows
  BY <1>3 DEF Process, Start, Terminate, CloseBroker, Exit, Kill, DropConnection, Gone, db
<1>4. ASSUME \/ \E c \in Copies : Publish(c) \/ \E i \in Instances : Deliver(c, i)
             \/ Tick
             \/ \E e \in EventIds : ExpireMarker(e)
      PROVE  rows' = rows
  BY <1>4 DEF Publish, Deliver, Tick, ExpireMarker, db
<1>5. CASE UNCHANGED vars
  BY <1>5 DEF vars, db
<1> QED BY <1>1, <1>2, <1>3, <1>4, <1>5 DEF Next

-----------------------------------------------------------------------------
(* The reader *)

(* What QueryTypeOK needs: what a cursor has read is still there. *)
QueryInv == PipelineInv /\ QueryTypeOK /\ DOMAIN found \subseteq DOMAIN rows

LEMMA QueryInitially == QueryInit => QueryInv
<1> SUFFICES ASSUME QueryInit
             PROVE  QueryInv
  OBVIOUS
<1>1. PipelineInv
  BY PipelineInit DEF QueryInit
<1>2. DOMAIN NoRows = {}
  BY DEF NoRows
<1>3. answer.query = NoQuery /\ answer.code = "none" /\ answer.rows = NoRows
  BY DEF QueryInit, Response
<1> QED BY <1>1, <1>2, <1>3 DEF QueryInit, QueryInv, QueryTypeOK, Codes

LEMMA AckedType == PipelineInv => AckedFaultless \subseteq Messages
BY DEF AckedFaultless, Placed, Events, PipelineInv, BodyInv

LEMMA VerdictType == \A q : Verdict(q) \in Codes
BY DEF Verdict, Codes

LEMMA QueryStep == QueryInv /\ [QueryNext]_qvars => QueryInv'
<1> SUFFICES ASSUME QueryInv, [QueryNext]_qvars
             PROVE  QueryInv'
  OBVIOUS
<1>1. PipelineInv'
  BY PipelineOfQuery, PipelineStep DEF QueryInv
<1>2. DOMAIN rows \subseteq DOMAIN rows'
  BY PipelineOfQuery, DocsStay
<1>3. DOMAIN NoRows = {}
  BY DEF NoRows
<1>4. ASSUME NEW q, NEW code \in Codes, NEW shown, Respond(q, code, shown),
             q \in Queries \cup {NoQuery},
             \A d \in DOMAIN shown : code = "OK" /\ Selects(q, d)
      PROVE  QueryInv'
  <2>1. answer'.query = q /\ answer'.code = code /\ answer'.rows = shown
    BY <1>4 DEF Respond, Response
  <2>2. asked' = NoQuery /\ found' = NoRows /\ due' = {} /\ acked' = {}
    BY <1>4 DEF Respond
  <2> QED BY <1>1, <1>3, <1>4, <2>1, <2>2 DEF QueryInv, QueryTypeOK, Selects
<1>5. ASSUME NEW q \in Queries, Ask(q)
      PROVE  QueryInv'
  <2>1. CASE Verdict(q) # "OK"
    BY <1>3, <1>4, <1>5, <2>1, VerdictType DEF Ask
  <2>2. CASE Verdict(q) = "OK"
    <3>1. /\ asked = NoQuery /\ asked' = q
          /\ due' = {d \in DOMAIN rows : Selects(q, d)} /\ acked' = AckedFaultless
          /\ rows' = rows /\ found' = found /\ answer' = answer
      BY <1>5, <2>2 DEF Ask, vars, db
    <3>2. DOMAIN found = {} /\ acked' \subseteq Messages
      BY <3>1, AckedType DEF QueryInv, QueryTypeOK
    <3> QED BY <1>1, <3>1, <3>2 DEF QueryInv, QueryTypeOK, Selects
  <2> QED BY <2>1, <2>2
<1>6. ASSUME NEW d \in DOMAIN rows, Read(d)
      PROVE  QueryInv'
  <2>1. /\ Selects(asked, d) /\ asked # NoQuery
        /\ rows' = rows /\ asked' = asked /\ due' = due /\ acked' = acked /\ answer' = answer
    BY <1>6 DEF Read, vars, db
  <2>2. DOMAIN found' = DOMAIN found \cup {d}
    BY <1>6 DEF Read, Put
  <2> QED BY <1>1, <2>1, <2>2 DEF QueryInv, QueryTypeOK, Selects
<1>7. CASE Finish \/ FindFails
  <2>1. CASE Finish
    <3>1. Respond(asked, "OK", Result) /\ DOMAIN Result = DOMAIN found
      BY <2>1 DEF Finish, Result
    <3> QED BY <1>4, <3>1 DEF QueryInv, QueryTypeOK, Codes
  <2>2. CASE FindFails
    BY <1>3, <1>4, <2>2 DEF FindFails, QueryInv, QueryTypeOK, Codes
  <2> QED BY <1>7, <2>1, <2>2
<1>8. CASE UNCHANGED reader
  BY <1>1, <1>2, <1>8 DEF reader, QueryInv, QueryTypeOK, Selects
<1> QED BY <1>5, <1>6, <1>7, <1>8 DEF QueryNext, qvars

(* The reader's variables keep their types, and no answer shows a document *)
(* outside its query, nor any next to an error                             *)
(* (analytics_service.go:105-129, restaurant_day_repo.go:80-102).          *)
THEOREM QueryTypes == QuerySpec => []QueryTypeOK
<1>1. QueryInv => QueryTypeOK
  BY DEF QueryInv
<1> QED BY <1>1, QueryInitially, QueryStep, PTL DEF QuerySpec

-----------------------------------------------------------------------------
(* What a cursor reads *)

(* What a cursor has read of a row is there, or more. *)
FoundInv ==
  \A d \in DOMAIN found :
    /\ d \in DOMAIN rows
    /\ found[d].n.revenue_sum \in Nat
    /\ found[d].n.revenue_sum <= rows[d].n.revenue_sum

ReadInv == RisingInv /\ QueryInv /\ FoundInv

LEMMA FoundStep ==
  ASSUME ReadInv, [QueryNext]_qvars
  PROVE  FoundInv'
<1> USE DEF ReadInv
<1>1. \A d \in DOMAIN rows : rows[d].n.revenue_sum \in Nat
  BY RevenueType
<1>2. CASE [Next]_vars /\ UNCHANGED reader
  <2>1. ASSUME NEW d \in DOMAIN found
        PROVE  d \in DOMAIN rows' /\ found[d].n.revenue_sum <= rows'[d].n.revenue_sum
    <3>1. /\ d \in DOMAIN rows /\ found[d].n.revenue_sum \in Nat
          /\ found[d].n.revenue_sum <= rows[d].n.revenue_sum
      BY DEF FoundInv
    <3>2. d \in DOMAIN rows' /\ rows'[d].n.revenue_sum >= rows[d].n.revenue_sum
      BY <1>2, <3>1, RevenueStays
    <3>3. rows'[d].n.revenue_sum \in Int
      BY <3>2, PipelineOfQuery, PipelineStep
         DEF RisingInv, PipelineInv, TypeOK, IsRows, Row, Counters
    <3> QED BY <1>1, <3>1, <3>2, <3>3
  <2> QED BY <1>2, <2>1 DEF FoundInv, reader
<1>3. ASSUME found' = NoRows \/ (found' = found /\ rows' = rows)
      PROVE  FoundInv'
  BY <1>3 DEF FoundInv, NoRows
<1>4. ASSUME NEW q \in Queries, Ask(q) PROVE FoundInv'
  BY <1>3, <1>4 DEF Ask, Respond, vars, db
<1>5. ASSUME NEW d \in DOMAIN rows, Read(d) PROVE FoundInv'
  <2>1. /\ rows' = rows /\ DOMAIN found' = DOMAIN found \cup {d} /\ found'[d] = rows[d]
        /\ \A x \in DOMAIN found : x # d => found'[x] = found[x]
    BY <1>5 DEF Read, Put, vars, db
  <2>2. ASSUME NEW x \in DOMAIN found'
        PROVE  /\ x \in DOMAIN rows
               /\ found'[x].n.revenue_sum \in Nat
               /\ found'[x].n.revenue_sum <= rows[x].n.revenue_sum
    BY <1>1, <2>1 DEF FoundInv
  <2> QED BY <2>1, <2>2 DEF FoundInv
<1>6. CASE Finish \/ FindFails
  BY <1>3, <1>6 DEF Finish, FindFails, Respond
<1>7. CASE UNCHANGED qvars
  BY <1>2, <1>7 DEF qvars
<1> QED BY <1>2, <1>4, <1>5, <1>6, <1>7 DEF QueryNext

LEMMA ReadInvHolds ==
  ASSUME NoNegativeAmounts
  PROVE  QuerySpec => []ReadInv
<1>1. QueryInit => FoundInv
  BY DEF QueryInit, FoundInv, NoRows
<1>2. RisingInv /\ QueryInv /\ FoundInv /\ [QueryNext]_qvars => FoundInv'
  BY FoundStep DEF ReadInv
<1>3. QuerySpec => []RisingInv
  BY QueryIsPipeline, RisingInvHolds, PTL
<1>4. QuerySpec => []QueryInv
  BY QueryInitially, QueryStep, PTL DEF QuerySpec
<1>5. RisingInv /\ QueryInv /\ FoundInv => ReadInv
  BY DEF ReadInv
<1> QED BY <1>1, <1>2, <1>3, <1>4, <1>5, PTL DEF QuerySpec

(* The revenue that an answer shows of a set of documents is the sum of    *)
(* what the cursor has read of them.                                       *)
LEMMA ResultRevenue ==
  ASSUME ReadInv, NEW q, NEW S \in SUBSET DOMAIN found
  PROVE  LET f == Column(found, "revenue_sum")
             a == Response(q, "OK", Result)
         IN  /\ SumFunction([d \in S |-> a.rows[d].revenue]) = SumFunctionOnSet(f, S)
             /\ IsFiniteSet(S) /\ \A d \in S : f[d] \in Nat
<1> DEFINE f == Column(found, "revenue_sum")
           a == Response(q, "OK", Result)
           g == [d \in S |-> a.rows[d].revenue]
<1>1. /\ a.rows = Result /\ DOMAIN Result = DOMAIN found
      /\ \A d \in DOMAIN found : Result[d].revenue = found[d].n.revenue_sum
  BY DEF Response, Result, Shown
<1>2. DOMAIN g = S /\ \A d \in S : g[d] = f[d] /\ f[d] \in Nat
  BY <1>1 DEF ReadInv, FoundInv, Column
<1>3. IsFiniteSet(S)
  BY RevenueType, FS_Subset DEF ReadInv, FoundInv
<1> HIDE DEF f, g
<1>4. SumFunction(g) = SumFunctionOnSet(g, S)
  BY <1>2, SumOfFunction
<1>5. SumFunctionOnSet(g, S) = SumFunctionOnSet(f, S)
  BY <1>2, <1>3, SumSame DEF IntOn
<1> QED BY <1>2, <1>3, <1>4, <1>5 DEF f, g

(* The least that the cursor reads of a document that is due: the rows     *)
(* have it, and what was read had it.                                      *)
Floor(f) ==
  \A d \in due : /\ f[d] \in Int
                 /\ f[d] <= rows[d].n.revenue_sum
                 /\ d \in DOMAIN found => f[d] <= found[d].n.revenue_sum

(* The rows when the query is asked are such a floor, *)
LEMMA FloorAtAsk ==
  ASSUME ReadInv, NEW q \in Queries, Ask(q), Verdict(q) = "OK",
         NEW f, f = Column(rows, "revenue_sum")
  PROVE  Floor(f)'
<1>1. /\ due' = {d \in DOMAIN rows : Selects(q, d)}
      /\ found' = found /\ rows' = rows /\ asked = NoQuery
  BY DEF Ask, vars, db
<1>2. DOMAIN found = {}
  BY <1>1 DEF ReadInv, QueryInv, QueryTypeOK
<1>3. \A d \in DOMAIN rows : f[d] \in Int /\ f[d] = rows[d].n.revenue_sum
  BY RevenueType DEF Column, ReadInv
<1> QED BY <1>1, <1>2, <1>3 DEF Floor

(* they stay one, *)
LEMMA FloorStays ==
  ASSUME ReadInv, ReadInv', NEW f, Floor(f),
         ([Next]_vars /\ UNCHANGED reader) \/ \E d \in DOMAIN rows : Read(d)
  PROVE  Floor(f)'
<1>1. CASE [Next]_vars /\ UNCHANGED reader
  <2>1. ASSUME NEW d \in due
        PROVE  /\ f[d] \in Int /\ f[d] <= rows'[d].n.revenue_sum
               /\ d \in DOMAIN found => f[d] <= found[d].n.revenue_sum
    <3>1. /\ f[d] \in Int /\ f[d] <= rows[d].n.revenue_sum
          /\ d \in DOMAIN found => f[d] <= found[d].n.revenue_sum
      BY DEF Floor
    <3>2. d \in DOMAIN rows /\ rows[d].n.revenue_sum \in Nat
      BY RevenueType DEF ReadInv, QueryInv, QueryTypeOK
    <3>3. d \in DOMAIN rows' /\ rows'[d].n.revenue_sum >= rows[d].n.revenue_sum
      BY <1>1, <3>2, RevenueStays DEF ReadInv
    <3>4. rows'[d].n.revenue_sum \in Int
      BY <3>3 DEF ReadInv, RisingInv, PipelineInv, TypeOK, IsRows, Row, Counters
    <3> QED BY <3>1, <3>2, <3>3, <3>4
  <2> QED BY <1>1, <2>1 DEF Floor, reader
<1>2. ASSUME NEW d \in DOMAIN rows, Read(d) PROVE Floor(f)'
  <2>1. /\ rows' = rows /\ due' = due /\ DOMAIN found' = DOMAIN found \cup {d}
        /\ found'[d] = rows[d] /\ \A x \in DOMAIN found : x # d => found'[x] = found[x]
    BY <1>2 DEF Read, Put, vars, db
  <2> QED BY <2>1 DEF Floor
<1> QED BY <1>1, <1>2

(* and in the end everything that was due has been read, at that or more.  *)
LEMMA FloorIsRead ==
  ASSUME ReadInv, NEW f, Floor(f), due \subseteq DOMAIN found,
         NEW S \in SUBSET DOMAIN found, NEW D \in SUBSET due \cap S
  PROVE  LET g == Column(found, "revenue_sum")
         IN  /\ SumFunctionOnSet(f, D) <= SumFunctionOnSet(g, S)
             /\ SumFunctionOnSet(f, D) \in Int /\ SumFunctionOnSet(g, S) \in Int
<1> DEFINE g == Column(found, "revenue_sum")
<1>1. \A d \in DOMAIN found : g[d] = found[d].n.revenue_sum /\ g[d] \in Nat
  BY DEF Column, ReadInv, FoundInv
<1>2. IsFiniteSet(S) /\ IsFiniteSet(D) /\ D \in SUBSET S
  <2>1. IsFiniteSet(S)
    BY RevenueType, FS_Subset DEF ReadInv, FoundInv
  <2> QED BY <2>1, FS_Subset
<1>3. \A d \in D : f[d] \in Int /\ f[d] <= g[d]
  BY <1>1 DEF Floor
<1> HIDE DEF g
<1>4. IntOn(f, D) /\ IntOn(g, D) /\ IntOn(g, S) /\ \A d \in S : g[d] >= 0
  BY <1>1, <1>2, <1>3 DEF IntOn
<1>5. /\ SumFunctionOnSet(f, D) <= SumFunctionOnSet(g, D)
      /\ SumFunctionOnSet(g, D) <= SumFunctionOnSet(g, S)
      /\ SumFunctionOnSet(f, D) \in Int /\ SumFunctionOnSet(g, D) \in Int
      /\ SumFunctionOnSet(g, S) \in Int
  BY <1>2, <1>3, <1>4, SumMonotonic, SumOfSubset, SumType
<1> QED BY <1>5 DEF g

-----------------------------------------------------------------------------
(* What the rows have, day by day *)

(* One restaurant with one branch, and queries that name them. *)
OneRestaurant == (\E r : Restaurants = {r}) /\ (\E b : Branches = {b})

OwnIds ==
  \A q \in Queries :
    /\ q.route = "restaurants" => q.id \in Restaurants \cup {BadId}
    /\ q.route = "branches" => q.id \in Branches \cup {BadId}

RouteDocs(route, day) == {d \in Docs : d.coll = Collection(route) /\ d.date = day}

InRows(route, day) == SumIn(rows, "revenue_sum", RouteDocs(route, day))

(* The rows of a later route contain the revenue of an earlier one. *)
LEMMA RowsFlow ==
  ASSUME OneInstance, OneRestaurant, FlowInv, NEW day \in Nat,
         NEW later \in Routes, NEW route \in NotAhead(later)
  PROVE  InRows(route, day) <= InRows(later, day)
<1>1. PICK r, b : Restaurants = {r} /\ Branches = {b}
  BY DEF OneRestaurant
<1> DEFINE p == BranchPair(r, day)
           q == PlatformPair(b, day)
<1>2. p \in Pairs /\ q \in Pairs
  BY <1>1 DEF Pairs
<1>3. BranchesFor(r) = {b}
  BY <1>1, MessagesAssumption DEF BranchesFor, Handled, Message, Input
<1>4. /\ p.first = RestaurantDoc(r, day) /\ p.next = {BranchDoc(b, day)}
      /\ q.first = BranchDoc(b, day) /\ q.next = PlatformDocs(day)
  BY <1>3 DEF BranchPair, PlatformPair
<1>5. /\ RouteDocs("restaurants", day) = {RestaurantDoc(r, day)}
      /\ RouteDocs("branches", day) = {BranchDoc(b, day)}
      /\ RouteDocs("platform", day) = PlatformDocs(day)
  <2>1. RouteDocs("restaurants", day) = {RestaurantDoc(r, day)}
    BY <1>1 DEF RouteDocs, Docs, Collection, RestaurantDoc
  <2>2. RouteDocs("branches", day) = {BranchDoc(b, day)}
    BY <1>1 DEF RouteDocs, Docs, Collection, BranchDoc
  <2>3. RouteDocs("platform", day) = PlatformDocs(day)
    BY DEF RouteDocs, Docs, Collection, PlatformDocs, PlatformDoc
  <2> QED BY <2>1, <2>2, <2>3
<1> HIDE DEF p, q
<1>6. "revenue_sum" \in AmountFields
  BY DEF AmountFields
<1>7. /\ SumIn(rows, "revenue_sum", p.next) <= SumIn(rows, "revenue_sum", {p.first})
      /\ SumIn(rows, "revenue_sum", p.next) \in Int
      /\ SumIn(rows, "revenue_sum", {p.first}) \in Int
  BY <1>2, <1>6, PairWithin
<1>8. /\ SumIn(rows, "revenue_sum", q.next) <= SumIn(rows, "revenue_sum", {q.first})
      /\ SumIn(rows, "revenue_sum", q.next) \in Int
  BY <1>2, <1>6, PairWithin
<1>9. /\ InRows("branches", day) <= InRows("restaurants", day)
      /\ InRows("platform", day) <= InRows("branches", day)
      /\ InRows("branches", day) \in Int /\ InRows("restaurants", day) \in Int
      /\ InRows("platform", day) \in Int
  BY <1>4, <1>5, <1>7, <1>8 DEF InRows
<1> QED BY <1>9 DEF NotAhead, Routes

-----------------------------------------------------------------------------
(* What the reader knows of two answers *)

(* What an answer has shown of a day is in the rows of its route, or more. *)
AnswerInv ==
  answer.code = "OK" =>
    /\ DOMAIN answer.rows \subseteq DOMAIN rows
    /\ \A day \in Nat :
         /\ RevenueOn(answer, day) \in Int
         /\ RevenueOn(answer, day) <= InRows(answer.query.route, day)

(* What was in the rows when the query was asked, and so what an answer of *)
(* an earlier route had shown, is enough for the answer under way.         *)
Follower == /\ asked # NoQuery /\ answer.code = "OK"
            /\ answer.query.route \in NotAhead(asked.route)

CursorInv ==
  Follower =>
    \E f : /\ Floor(f)
           /\ \A day \in Nat : day \in asked.from..asked.to =>
                RevenueOn(answer, day)
                  <= SumFunctionOnSet(f, due \cap RouteDocs(asked.route, day))

SeenInv == AnswerInv /\ CursorInv

(* What is shown of a day is the sum of what has been read of it. *)
LEMMA DayRevenue ==
  ASSUME ReadInv, NEW q, NEW day
  PROVE  LET f == Column(found, "revenue_sum")
             S == {d \in DOMAIN found : d.date = day}
         IN  /\ RevenueOn(Response(q, "OK", Result), day) = SumFunctionOnSet(f, S)
             /\ IsFiniteSet(S) /\ \A d \in S : f[d] \in Nat
<1> DEFINE S == {d \in DOMAIN found : d.date = day}
           a == Response(q, "OK", Result)
<1>1. {d \in DOMAIN a.rows : d.date = day} = S /\ S \in SUBSET DOMAIN found
  BY DEF Response, Result
<1>2. RevenueOn(a, day) = SumFunction([d \in S |-> a.rows[d].revenue])
  BY <1>1, Zenon DEF RevenueOn
<1> QED BY <1>1, <1>2, ResultRevenue

(* An answer that is given is in the rows. *)
LEMMA FinishSeen ==
  ASSUME ReadInv, Finish
  PROVE  AnswerInv'
<1>1. /\ answer' = Response(asked, "OK", Result) /\ rows' = rows
      /\ asked # NoQuery /\ asked \in Queries
      /\ \A d \in DOMAIN found : Selects(asked, d)
  BY DEF Finish, Respond, vars, db, ReadInv, QueryInv, QueryTypeOK
<1>2. answer'.query = asked /\ DOMAIN answer'.rows = DOMAIN found
  BY <1>1 DEF Response, Result
<1>3. ASSUME NEW day \in Nat
      PROVE  /\ RevenueOn(answer', day) \in Int
             /\ RevenueOn(answer', day) <= InRows(asked.route, day)
  <2> DEFINE f == Column(found, "revenue_sum")
             S == {d \in DOMAIN found : d.date = day}
             g == Column(rows, "revenue_sum")
             T == DOMAIN rows \cap RouteDocs(asked.route, day)
             x == RevenueOn(answer', day)
  <2>1. /\ x = SumFunctionOnSet(f, S)
        /\ IsFiniteSet(S) /\ \A d \in S : f[d] \in Nat
    BY <1>1, DayRevenue
  <2>2. S \subseteq T
    BY <1>1 DEF RouteDocs, Selects, ReadInv, FoundInv, RisingInv, PipelineInv, TypeOK, IsRows
  <2>3. \A d \in DOMAIN rows : g[d] \in Nat
    BY RevenueType DEF Column, ReadInv
  <2>4. IsFiniteSet(T)
    BY RevenueType, FS_Subset DEF ReadInv
  <2>5. \A d \in S : f[d] <= g[d]
    BY DEF ReadInv, FoundInv, Column
  <2>6. InRows(asked.route, day) = SumFunctionOnSet(g, T)
    BY DEF InRows, SumIn
  <2>7. T \subseteq DOMAIN rows
    OBVIOUS
  <2> HIDE DEF f, S, g, T, x
  <2>8. /\ IntOn(f, S) /\ IntOn(g, S) /\ IntOn(g, T) /\ \A d \in T : g[d] >= 0
        /\ S \in SUBSET T
    BY <2>1, <2>2, <2>3, <2>7 DEF IntOn
  <2>9. /\ SumFunctionOnSet(f, S) <= SumFunctionOnSet(g, S)
        /\ SumFunctionOnSet(g, S) <= SumFunctionOnSet(g, T)
        /\ SumFunctionOnSet(f, S) \in Int /\ SumFunctionOnSet(g, S) \in Int
        /\ SumFunctionOnSet(g, T) \in Int
    BY <2>1, <2>4, <2>5, <2>8, SumMonotonic, SumOfSubset, SumType
  <2>10. x \in Int /\ x <= InRows(asked.route, day)
    BY <2>1, <2>6, <2>9
  <2> QED BY <2>10 DEF x
<1>4. /\ DOMAIN answer'.rows \subseteq DOMAIN rows'
      /\ \A day \in Nat :
           SumIn(rows', "revenue_sum", RouteDocs(answer'.query.route, day))
             = InRows(asked.route, day)
  BY <1>1, <1>2 DEF ReadInv, FoundInv, InRows
<1> QED BY <1>1, <1>2, <1>3, <1>4 DEF AnswerInv, InRows

(* A step of the pipeline, or a document that is read. *)
LEMMA RunsSeen ==
  ASSUME ReadInv, ReadInv', SeenInv,
         ([Next]_vars /\ UNCHANGED reader) \/ \E d \in DOMAIN rows : Read(d)
  PROVE  SeenInv'
<1>1. /\ [Next]_vars /\ asked' = asked /\ due' = due /\ answer' = answer
  BY DEF reader, Read, vars
<1>2. AnswerInv'
  <2>1. ASSUME answer.code = "OK", NEW day \in Nat
        PROVE  /\ RevenueOn(answer, day) \in Int
               /\ RevenueOn(answer, day)
                    <= SumIn(rows', "revenue_sum", RouteDocs(answer.query.route, day))
    <3> DEFINE x == RevenueOn(answer, day)
               y == SumIn(rows, "revenue_sum", RouteDocs(answer.query.route, day))
               z == SumIn(rows', "revenue_sum", RouteDocs(answer.query.route, day))
    <3>1. x \in Int /\ x <= y
      BY <2>1 DEF SeenInv, AnswerInv, InRows
    <3>2. y \in Int /\ z \in Int /\ y <= z
      BY <1>1, RowsGrow DEF ReadInv
    <3> HIDE DEF x, y, z
    <3>3. x \in Int /\ x <= z
      BY <3>1, <3>2
    <3> QED BY <3>3 DEF x, z
  <2>2. answer.code = "OK" => DOMAIN answer.rows \subseteq DOMAIN rows'
    BY <1>1, RevenueStays DEF SeenInv, AnswerInv, ReadInv
  <2> QED BY <1>1, <2>1, <2>2 DEF AnswerInv, InRows
<1>3. CursorInv'
  <2>1. ASSUME NEW f, Floor(f) PROVE Floor(f)'
    BY <2>1, FloorStays
  <2> QED BY <1>1, <2>1 DEF SeenInv, CursorInv, Follower
<1> QED BY <1>2, <1>3 DEF SeenInv

(* The query finds every row of its route and its days. *)
LEMMA FindsAll ==
  ASSUME OneRestaurant, OwnIds, RisingInv, NEW q \in Queries, Verdict(q) = "OK",
         q.route # "products", NEW day \in q.from..q.to
  PROVE  DOMAIN rows \cap RouteDocs(q.route, day)
           = {d \in DOMAIN rows : Selects(q, d)} \cap RouteDocs(q.route, day)
<1>1. q.route \in {"restaurants", "branches", "platform"}
  BY QueriesAssumption DEF QueryShape, Routes
<1>2. ~(q.route # "platform" /\ q.id = BadId)
  BY DEF Verdict, Unparsable
<1>3. DOMAIN rows \subseteq Docs
  BY DEF RisingInv, PipelineInv, TypeOK, IsRows
<1>4. ASSUME NEW d \in DOMAIN rows \cap RouteDocs(q.route, day)
      PROVE  Selects(q, d)
  <2>1. d \in Docs /\ d.coll = Collection(q.route) /\ d.date \in q.from..q.to
    BY DEF RouteDocs
  <2>2. CASE q.route = "restaurants"
    <3>1. d.id \in Restaurants
      BY <2>1, <2>2 DEF Docs, Collection
    <3>2. q.id \in Restaurants
      BY <1>2, <2>2 DEF OwnIds
    <3> QED BY <2>1, <2>2, <3>1, <3>2 DEF Selects, OneRestaurant
  <2>3. CASE q.route = "branches"
    <3>1. d.id \in Branches
      BY <2>1, <2>3 DEF Docs, Collection
    <3>2. q.id \in Branches
      BY <1>2, <2>3 DEF OwnIds
    <3> QED BY <2>1, <2>3, <3>1, <3>2 DEF Selects, OneRestaurant
  <2>4. CASE q.route = "platform"
    BY <2>1, <2>4 DEF Selects
  <2> QED BY <1>1, <2>2, <2>3, <2>4
<1> QED BY <1>4

(* A query that is asked. *)
LEMMA AskSeen ==
  ASSUME OneInstance, OneRestaurant, OwnIds, FlowInv, ReadInv, SeenInv,
         NEW q \in Queries, Ask(q)
  PROVE  SeenInv'
<1>1. CASE Verdict(q) # "OK"
  <2>1. answer'.code # "OK" /\ asked' = NoQuery
    BY <1>1 DEF Ask, Respond, Response
  <2> QED BY <2>1 DEF SeenInv, AnswerInv, CursorInv, Follower
<1>2. CASE Verdict(q) = "OK"
  <2>1. /\ asked' = q /\ due' = {d \in DOMAIN rows : Selects(q, d)}
        /\ answer' = answer /\ rows' = rows
    BY <1>2 DEF Ask, vars, db
  <2>2. AnswerInv'
    BY <2>1 DEF SeenInv, AnswerInv, InRows
  <2>3. PICK f : f = Column(rows, "revenue_sum")
    OBVIOUS
  <2>4. Floor(f)'
    BY <1>2, <2>3, FloorAtAsk
  <2>5. ASSUME answer.code = "OK", answer.query.route \in NotAhead(q.route),
               NEW day \in Nat, day \in q.from..q.to
        PROVE  RevenueOn(answer, day)
                 <= SumFunctionOnSet(f, due' \cap RouteDocs(q.route, day))
    <3>1. q.route \in Routes \ {"products"}
      BY <2>5, QueriesAssumption DEF NotAhead, QueryShape, Routes
    <3>2. DOMAIN rows \cap RouteDocs(q.route, day) = due' \cap RouteDocs(q.route, day)
      BY <1>2, <2>1, <2>5, <3>1, FindsAll DEF ReadInv
    <3>3. InRows(q.route, day) = SumFunctionOnSet(f, due' \cap RouteDocs(q.route, day))
      BY <2>3, <3>2, Zenon DEF InRows, SumIn
    <3>4. /\ RevenueOn(answer, day) \in Int
          /\ RevenueOn(answer, day) <= InRows(answer.query.route, day)
      BY <2>5 DEF SeenInv, AnswerInv
    <3>5. InRows(answer.query.route, day) <= InRows(q.route, day)
      BY <2>5, <3>1, RowsFlow
    <3>6. InRows(answer.query.route, day) \in Int /\ InRows(q.route, day) \in Int
      <4>1. ASSUME NEW D PROVE SumIn(rows, "revenue_sum", D) \in Int
        <5>1. IntOn(Column(rows, "revenue_sum"), DOMAIN rows \cap D)
          BY RevenueType DEF IntOn, Column, ReadInv
        <5>2. IsFiniteSet(DOMAIN rows \cap D)
          BY RevenueType, FS_Subset DEF ReadInv
        <5> QED BY <5>1, <5>2, SumType DEF SumIn
      <4> QED BY <4>1 DEF InRows
    <3>7. RevenueOn(answer, day) <= InRows(q.route, day)
      BY <3>4, <3>5, <3>6
    <3> QED BY <3>3, <3>7
  <2>6. CursorInv'
    BY <2>1, <2>4, <2>5 DEF CursorInv, Follower
  <2> QED BY <2>2, <2>6 DEF SeenInv
<1> QED BY <1>1, <1>2

LEMMA SeenInit == QueryInit => SeenInv
<1> SUFFICES ASSUME QueryInit PROVE SeenInv
  OBVIOUS
<1>1. asked = NoQuery /\ answer.code # "OK"
  BY DEF QueryInit, Response
<1> QED BY <1>1 DEF SeenInv, AnswerInv, CursorInv, Follower

LEMMA SeenStep ==
  ASSUME OneInstance, OneRestaurant, OwnIds, FlowInv, ReadInv, ReadInv', SeenInv,
         [QueryNext]_qvars
  PROVE  SeenInv'
<1>1. CASE \/ Next /\ UNCHANGED reader
           \/ UNCHANGED qvars
           \/ \E d \in DOMAIN rows : Read(d)
  <2>1. ([Next]_vars /\ UNCHANGED reader) \/ \E d \in DOMAIN rows : Read(d)
    BY <1>1 DEF qvars
  <2> QED BY <2>1, RunsSeen
<1>2. ASSUME NEW q \in Queries, Ask(q) PROVE SeenInv'
  BY <1>2, AskSeen
<1>3. CASE Finish \/ FindFails
  <2>1. asked' = NoQuery
    BY <1>3 DEF Finish, FindFails, Respond
  <2>2. AnswerInv'
    <3>1. CASE Finish
      BY <3>1, FinishSeen
    <3>2. CASE FindFails
      BY <3>2 DEF FindFails, Respond, Response, AnswerInv
    <3> QED BY <1>3, <3>1, <3>2
  <2> QED BY <2>1, <2>2 DEF SeenInv, CursorInv, Follower
<1> QED BY <1>1, <1>2, <1>3 DEF QueryNext

-----------------------------------------------------------------------------
(* Reading against the flow *)

(* The answer that ends a query has what the one before it had shown. *)
LEMMA FinishFlow ==
  ASSUME ReadInv, SeenInv, Finish, answer.code = "OK",
         answer.query.route \in NotAhead(asked.route),
         NEW day \in Nat, day \in asked.from..asked.to
  PROVE  RevenueOn(answer, day) <= RevenueOn(answer', day)
<1> DEFINE g == Column(found, "revenue_sum")
           S == {d \in DOMAIN found : d.date = day}
           D == due \cap RouteDocs(asked.route, day)
           x == RevenueOn(answer, day)
           y == RevenueOn(answer', day)
<1>1. /\ asked # NoQuery /\ due \subseteq DOMAIN found
      /\ answer' = Response(asked, "OK", Result)
  BY DEF Finish, Respond
<1>2. PICK f : Floor(f) /\ x <= SumFunctionOnSet(f, D)
  BY <1>1 DEF SeenInv, CursorInv, Follower
<1>3. y = SumFunctionOnSet(g, S)
  BY <1>1, DayRevenue
<1>4. S \in SUBSET DOMAIN found /\ D \in SUBSET due \cap S
  BY <1>1 DEF RouteDocs
<1>5. x \in Int
  BY DEF SeenInv, AnswerInv
<1> HIDE DEF S, D, x, y
<1>6. /\ SumFunctionOnSet(f, D) <= SumFunctionOnSet(g, S)
      /\ SumFunctionOnSet(f, D) \in Int /\ SumFunctionOnSet(g, S) \in Int
  BY <1>1, <1>2, <1>4, FloorIsRead
<1> HIDE DEF g
<1>7. x <= y
  BY <1>2, <1>3, <1>5, <1>6
<1> QED BY <1>7 DEF x, y

(* With one instance, one restaurant with one branch and amounts that are  *)
(* not negative, what an answer has shown of a day's revenue is in the     *)
(* next one, if that is of the same route or of one that the handlers      *)
(* update before it, whatever is written, fails or is redelivered between  *)
(* and during the two (analytics_service.go:47-103,                        *)
(* restaurant_day_repo.go:80-101).                                         *)
THEOREM ReadAgainstTheFlowHolds ==
  ASSUME OneInstance, OneRestaurant, NoNegativeAmounts, OwnIds
  PROVE  QuerySpec => ReadAgainstTheFlow
<1> DEFINE Shows == /\ answer.code = "OK" /\ answer'.code = "OK"
                    /\ answer.query.route \in NotAhead(answer'.query.route)
                    => \A d \in DOMAIN answer.rows :
                         d.date \in answer'.query.from..answer'.query.to
                           => RevenueOn(answer, d.date) <= RevenueOn(answer', d.date)
<1>1. ASSUME ReadInv, SeenInv, [QueryNext]_qvars
      PROVE  [Shows]_answer
  <2>1. CASE Finish
    <3> SUFFICES ASSUME answer.code = "OK",
                        answer.query.route \in NotAhead(answer'.query.route),
                        NEW d \in DOMAIN answer.rows,
                        d.date \in answer'.query.from..answer'.query.to
                 PROVE  RevenueOn(answer, d.date) <= RevenueOn(answer', d.date)
      OBVIOUS
    <3>1. answer'.query = asked
      BY <2>1 DEF Finish, Respond, Response
    <3>2. d \in Docs
      BY <1>1 DEF SeenInv, AnswerInv, ReadInv, RisingInv, PipelineInv, TypeOK, IsRows
    <3>3. d.date \in Nat
      BY <3>2 DEF Docs
    <3> DEFINE day == d.date
    <3>4. answer.query.route \in NotAhead(asked.route) /\ day \in asked.from..asked.to
      BY <3>1
    <3> HIDE DEF day
    <3>5. RevenueOn(answer, day) <= RevenueOn(answer', day)
      BY <1>1, <2>1, <3>3, <3>4, FinishFlow DEF day
    <3> QED BY <3>5 DEF day
  <2>2. CASE FindFails
    BY <2>2 DEF FindFails, Respond, Response
  <2>3. ASSUME NEW q \in Queries, Ask(q) PROVE [Shows]_answer
    BY <2>3 DEF Ask, Respond, Response
  <2>4. CASE (\E d \in DOMAIN rows : Read(d)) \/ (Next /\ UNCHANGED reader) \/ UNCHANGED qvars
    BY <2>4 DEF Read, reader, qvars
  <2> HIDE DEF Shows
  <2> QED BY <1>1, <2>1, <2>2, <2>3, <2>4 DEF QueryNext
<1>2. QuerySpec => []FlowInv
  BY QueryIsPipeline, FlowInvHolds, PTL
<1>3. QuerySpec => []ReadInv
  BY ReadInvHolds
<1>4. FlowInv /\ ReadInv /\ ReadInv' /\ SeenInv /\ [QueryNext]_qvars => SeenInv'
  BY SeenStep
<1>5. QuerySpec => []SeenInv
  BY <1>2, <1>3, <1>4, SeenInit, PTL DEF QuerySpec
<1>6. QuerySpec => [][Shows]_answer
  <2> HIDE DEF Shows
  <2> QED BY <1>1, <1>3, <1>5, PTL DEF QuerySpec
<1> QED BY <1>6 DEF ReadAgainstTheFlow

-----------------------------------------------------------------------------
(* Reading one's acks *)

(* What the invariants of the pipeline say of an order that is acked. *)
CountedInv == CountInv /\ KeepInv /\ DeadInv /\ RowFloor

(* A query of the rows of a restaurant, a branch or the platform, as a set *)
(* of documents of one collection.                                         *)
LEMMA SelectedDocs ==
  ASSUME NEW q \in Queries, q.route # "products"
  PROVE  /\ Collection(q.route) \in RowColls
         /\ {d \in Docs : Selects(q, d)} \in SUBSET DocsOf(Collection(q.route))
<1>1. q.route \in {"restaurants", "branches", "platform"}
  BY QueriesAssumption DEF QueryShape, Routes
<1> QED BY <1>1 DEF Collection, RowColls, Selects, DocsOf

(* The row of an order that concerns a query is selected by it. *)
LEMMA ConcernedIsSelected ==
  ASSUME NEW q \in Queries, Verdict(q) = "OK", q.route # "products",
         NEW m, Concerns(m, q)
  PROVE  Selects(q, DocOf(m, Collection(q.route)))
<1>1. q.route \in {"restaurants", "branches", "platform"} /\ q.from \in Dates /\ q.to \in Dates
  BY QueriesAssumption DEF QueryShape, Routes
<1>2. q.from \in Nat /\ q.to \in Nat
  <2>1. {q.from, q.to} \cap {Missing, BadDate} = {}
    BY DEF Verdict, Unparsable
  <2> QED BY <1>1, <2>1 DEF Dates
<1>3. m.payload.at \in q.from..q.to /\ DayOf(m) = m.payload.at
  BY <1>2 DEF Concerns, DayOf, NoDate
<1>4. CASE q.route = "restaurants"
  BY <1>3, <1>4 DEF Concerns, Selects, Collection, DocOf, RestaurantDoc
<1>5. CASE q.route = "branches"
  BY <1>3, <1>5 DEF Concerns, Selects, Collection, DocOf, BranchDoc
<1>6. CASE q.route = "platform"
  BY <1>3, <1>6 DEF Concerns, Selects, Collection, DocOf, PlatformDoc
<1> QED BY <1>1, <1>4, <1>5, <1>6

(* The revenue of the orders that are acked is in the rows the query       *)
(* selects.                                                                *)
LEMMA AckedInRows ==
  ASSUME NoNegativeAmounts, CountedInv, RisingInv, NEW q \in Queries, Verdict(q) = "OK"
  PROVE  LET A == {m \in AckedFaultless : Concerns(m, q)}
             D == {d \in DOMAIN rows : Selects(q, d)}
             f == Column(rows, "revenue_sum")
         IN  /\ Amount(A) \in Int /\ SumFunctionOnSet(f, D) \in Int
             /\ Amount(A) <= SumFunctionOnSet(f, D)
<1> DEFINE A == {m \in AckedFaultless : Concerns(m, q)}
           D == {d \in DOMAIN rows : Selects(q, d)}
           f == Column(rows, "revenue_sum")
           a == [m \in A |-> m.payload.amount]
<1>1. IsFiniteSet(D) /\ \A d \in D : f[d] \in Nat
  BY RevenueType, FS_Subset DEF Column
<1>2. Amount(A) = SumFunctionOnSet(a, A)
  BY SumOfFunction DEF Amount
<1>3. SumFunctionOnSet(f, D) \in Int
  <2> HIDE DEF f, D
  <2> QED BY <1>1, SumType DEF IntOn
<1>4. ASSUME q.route = "products"
      PROVE  Amount(A) \in Int /\ Amount(A) <= SumFunctionOnSet(f, D)
  <2>1. A = {}
    BY <1>4 DEF Concerns
  <2>2. Amount(A) = SumFunctionOnSet(a, {})
    BY <1>2, <2>1, Zenon
  <2>3. 0 <= SumFunctionOnSet(f, D)
    <3>1. SumFunctionOnSet(f, {}) <= SumFunctionOnSet(f, D)
      <4> HIDE DEF f, D
      <4>1. IntOn(f, D) /\ \A d \in D : f[d] >= 0
        BY <1>1 DEF IntOn
      <4> QED BY <1>1, <4>1, SumOfSubset
    <3> HIDE DEF f, D
    <3> QED BY <3>1, SumEmpty
  <2> HIDE DEF f, D, A
  <2> QED BY <1>3, <2>2, <2>3, SumEmpty
<1>5. ASSUME q.route # "products"
      PROVE  Amount(A) \in Int /\ Amount(A) <= SumFunctionOnSet(f, D)
  <2> DEFINE coll == Collection(q.route)
             E == {d \in Docs : Selects(q, d)}
             w == Worths("revenue_sum", E)
  <2>1. coll \in RowColls /\ E \in SUBSET DocsOf(coll) /\ E \in SUBSET Docs
    BY <1>5, SelectedDocs
  <2>2. "revenue_sum" \in Fields
    BY DEF Fields
  <2>3. IsFiniteSet(Placed) /\ A \in SUBSET Placed
    BY DEF CountedInv, CountInv, EventsInv, AckedFaultless
  <2>4. ASSUME NEW m \in Placed PROVE m.payload.amount \in Nat
    <3>1. m \in Messages /\ Handled(m) /\ m.payload \in Input
      BY MessagesAssumption DEF CountedInv, CountInv, EventsInv, Placed, Handled, Message
    <3>2. m.payload.amount \in Int
      BY <3>1 DEF Input
    <3> QED BY <3>1, <3>2 DEF NoNegativeAmounts
  <2>5. ASSUME NEW m \in Placed PROVE w[m] \in {0, m.payload.amount}
    <3>1. w[m] = Worth(m, "revenue_sum", E)
      BY DEF Worths
    <3>2. Order(m.payload.amount)["revenue_sum"] = m.payload.amount
      BY DEF Order, Inc
    <3> HIDE DEF w, E, coll
    <3> QED BY <2>1, <2>2, <3>1, <3>2, PlacedWorth DEF CountedInv
  <2>6. ASSUME NEW m \in A PROVE w[m] = m.payload.amount
    <3>1. w[m] = Worth(m, "revenue_sum", E) /\ m \in Placed
      BY <2>3 DEF Worths
    <3>2. Order(m.payload.amount)["revenue_sum"] = m.payload.amount
      BY DEF Order, Inc
    <3>3. effects[m.id] = Steps(m) /\ effects[m.id] # 0
      BY <3>1, AckedIsCounted DEF AckedFaultless, CountedInv
    <3>4. Selects(q, DocOf(m, coll))
      BY <1>5, ConcernedIsSelected
    <3>5. DocOf(m, coll) \in E
      <4>1. DocOf(m, coll) \in DocsOf(coll)
        <5> HIDE DEF E, coll, w
        <5> QED BY <2>1, <2>2, <3>1, <3>3, CountedWorth DEF CountedInv
      <4> QED BY <3>4, <4>1 DEF DocsOf
    <3> HIDE DEF w, E, coll
    <3> QED BY <2>1, <2>2, <3>1, <3>2, <3>3, <3>5, CountedWorth DEF CountedInv
  <2>7. SumFunctionOnSet(f, D) >= SumFunctionOnSet(w, Placed)
    <3>1. D = DOMAIN rows \cap E
      BY DEF RisingInv, PipelineInv, TypeOK, IsRows
    <3>2. SumFunctionOnSet(f, D) = SumIn(rows, "revenue_sum", E)
      BY <3>1, Zenon DEF SumIn
    <3> HIDE DEF D, f, E
    <3> QED BY <2>1, <3>2 DEF CountedInv, RowFloor
  <2> HIDE DEF A, D, E, f, coll, w
  <2>8. IsFiniteSet(A)
    BY <2>3, FS_Subset
  <2>9. /\ IntOn(w, Placed) /\ IntOn(w, A) /\ \A m \in Placed : w[m] >= 0
    BY <2>3, <2>4, <2>5 DEF IntOn
  <2>10. SumFunctionOnSet(a, A) = SumFunctionOnSet(w, A)
    <3>1. IntOn(a, A) /\ \A m \in A : a[m] = w[m]
      BY <2>3, <2>4, <2>6 DEF IntOn
    <3> HIDE DEF a
    <3> QED BY <2>8, <3>1, SumSame
  <2>11. /\ SumFunctionOnSet(w, A) <= SumFunctionOnSet(w, Placed)
         /\ SumFunctionOnSet(w, A) \in Int /\ SumFunctionOnSet(w, Placed) \in Int
    BY <2>3, <2>8, <2>9, SumOfSubset, SumType
  <2> HIDE DEF a
  <2> QED BY <1>2, <1>3, <2>7, <2>10, <2>11
<1>6. Amount(A) \in Int /\ Amount(A) <= SumFunctionOnSet(f, D)
  BY <1>4, <1>5
<1> QED BY <1>3, <1>6

(* What an answer under way must contain is in what is still to be read,   *)
(* or was when it was read.                                                *)
AckedInv ==
  asked # NoQuery =>
    \E f : /\ Floor(f)
           /\ Amount({m \in acked : Concerns(m, asked)}) \in Int
           /\ Amount({m \in acked : Concerns(m, asked)}) <= SumFunctionOnSet(f, due)

LEMMA AckedStep ==
  ASSUME NoNegativeAmounts, CountedInv, ReadInv, ReadInv', AckedInv, [QueryNext]_qvars
  PROVE  AckedInv'
<1>1. CASE \/ Next /\ UNCHANGED reader
           \/ UNCHANGED qvars
           \/ \E d \in DOMAIN rows : Read(d)
  <2>1. ([Next]_vars /\ UNCHANGED reader) \/ \E d \in DOMAIN rows : Read(d)
    BY <1>1 DEF qvars
  <2>2. asked' = asked /\ due' = due /\ acked' = acked
    BY <2>1 DEF reader, Read
  <2>3. ASSUME NEW f, Floor(f) PROVE Floor(f)'
    BY <2>1, <2>3, FloorStays
  <2>4. Concerns(asked, asked)' = Concerns(asked, asked)
    BY <2>2 DEF Concerns
  <2> QED BY <2>2, <2>3 DEF AckedInv, Concerns, Amount
<1>2. ASSUME NEW q \in Queries, Ask(q), Verdict(q) = "OK" PROVE AckedInv'
  <2>1. /\ asked' = q /\ due' = {d \in DOMAIN rows : Selects(q, d)}
        /\ acked' = AckedFaultless
    BY <1>2 DEF Ask
  <2>2. PICK f : f = Column(rows, "revenue_sum")
    OBVIOUS
  <2>3. Floor(f)'
    BY <1>2, <2>2, FloorAtAsk
  <2> DEFINE A == {m \in AckedFaultless : Concerns(m, q)}
             D == {d \in DOMAIN rows : Selects(q, d)}
  <2>4. Amount(A) \in Int /\ Amount(A) <= SumFunctionOnSet(f, D)
    BY <1>2, <2>2, AckedInRows DEF ReadInv
  <2>5. /\ {m \in acked' : Concerns(m, asked')} = A /\ due' = D
    BY <2>1
  <2>6. Amount({m \in acked' : Concerns(m, asked')}) = Amount(A)
    BY <2>5, Zenon
  <2> HIDE DEF A, D
  <2> QED BY <2>3, <2>4, <2>5, <2>6 DEF AckedInv
<1>3. ASSUME asked' = NoQuery PROVE AckedInv'
  BY <1>3 DEF AckedInv
<1>4. ASSUME NEW q \in Queries, Ask(q) PROVE AckedInv'
  BY <1>2, <1>3, <1>4 DEF Ask, Respond
<1>5. CASE Finish \/ FindFails
  BY <1>3, <1>5 DEF Finish, FindFails, Respond
<1> QED BY <1>1, <1>4, <1>5 DEF QueryNext

(* The answer that ends a query has what was acked when it was asked. *)
LEMMA FinishAcked ==
  ASSUME ReadInv, AckedInv, Finish
  PROVE  SumFunction([d \in DOMAIN answer'.rows |-> answer'.rows[d].revenue])
           >= Amount({m \in acked : Concerns(m, asked)})
<1> DEFINE g == Column(found, "revenue_sum")
           S == DOMAIN found
           x == Amount({m \in acked : Concerns(m, asked)})
           y == SumFunction([d \in DOMAIN answer'.rows |-> answer'.rows[d].revenue])
<1>1. /\ asked # NoQuery /\ due \subseteq S
      /\ answer' = Response(asked, "OK", Result) /\ DOMAIN answer'.rows = S
  BY DEF Finish, Respond, Response, Result
<1>2. PICK f : Floor(f) /\ x \in Int /\ x <= SumFunctionOnSet(f, due)
  BY <1>1 DEF AckedInv
<1>3. y = SumFunctionOnSet(g, S)
  <2>1. S \in SUBSET DOMAIN found
    OBVIOUS
  <2>2. SumFunction([d \in S |-> answer'.rows[d].revenue]) = SumFunctionOnSet(g, S)
    BY <1>1, <2>1, ResultRevenue
  <2> QED BY <1>1, <2>2, Zenon
<1>4. S \in SUBSET DOMAIN found /\ due \in SUBSET due \cap S
  BY <1>1
<1> HIDE DEF S, x, y
<1>5. /\ SumFunctionOnSet(f, due) <= SumFunctionOnSet(g, S)
      /\ SumFunctionOnSet(f, due) \in Int /\ SumFunctionOnSet(g, S) \in Int
  <2>1. due \subseteq DOMAIN found
    BY <1>1 DEF S
  <2> QED BY <1>2, <1>4, <2>1, FloorIsRead
<1> HIDE DEF g
<1>6. y >= x
  BY <1>2, <1>3, <1>5
<1> QED BY <1>6 DEF x, y

(* An answer contains every order of its days whose copies were all acked  *)
(* when the query was asked, as long as nothing had failed by then,        *)
(* whatever is written, fails or is redelivered while it is read: for any  *)
(* events with amounts that are not negative, any number of instances, and *)
(* no marker expiring (consumer.go:51-73, restaurant_day_repo.go:80-101).  *)
THEOREM AckedIsVisibleHolds ==
  ASSUME DedupTTL > Horizon, NoNegativeAmounts
  PROVE  QuerySpec => AckedIsVisible
<1> DEFINE Shows == asked # NoQuery /\ asked' = NoQuery /\ answer'.code = "OK"
                    => SumFunction([d \in DOMAIN answer'.rows |-> answer'.rows[d].revenue])
                         >= Amount({m \in acked : Concerns(m, asked)})
<1>1. ASSUME ReadInv, AckedInv, [QueryNext]_qvars
      PROVE  [Shows]_qvars
  <2>1. CASE Finish
    BY <1>1, <2>1, FinishAcked
  <2>2. CASE FindFails
    BY <2>2 DEF FindFails, Respond, Response
  <2>3. ASSUME NEW q \in Queries, Ask(q) PROVE asked = NoQuery
    BY <2>3 DEF Ask
  <2>4. CASE (\E d \in DOMAIN rows : Read(d)) \/ (Next /\ UNCHANGED reader)
    BY <2>4 DEF Read, reader
  <2> QED BY <1>1, <2>1, <2>2, <2>3, <2>4 DEF QueryNext
<1>2. QuerySpec => []CountedInv
  <2>1. Spec => []CountedInv
    <3>1. Spec => [](CountInv /\ KeepInv /\ DeadInv)
      BY DeadInvHolds
    <3>2. Spec => [](CountInv /\ RowFloor)
      BY RowFloorHolds
    <3>3. (CountInv /\ KeepInv /\ DeadInv) /\ (CountInv /\ RowFloor) => CountedInv
      BY DEF CountedInv
    <3> QED BY <3>1, <3>2, <3>3, PTL
  <2> QED BY <2>1, QueryIsPipeline, PTL
<1>3. QuerySpec => []ReadInv
  BY ReadInvHolds
<1>4. QueryInit => AckedInv
  BY DEF QueryInit, AckedInv
<1>5. CountedInv /\ ReadInv /\ ReadInv' /\ AckedInv /\ [QueryNext]_qvars => AckedInv'
  BY AckedStep
<1>6. QuerySpec => []AckedInv
  BY <1>2, <1>3, <1>4, <1>5, PTL DEF QuerySpec
<1>7. QuerySpec => [][Shows]_qvars
  <2> HIDE DEF Shows
  <2> QED BY <1>1, <1>3, <1>6, PTL DEF QuerySpec
<1> QED BY <1>7, PTL DEF AckedIsVisible
=============================================================================
