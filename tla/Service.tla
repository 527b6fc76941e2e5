------------------------------ MODULE Service ------------------------------
(***************************************************************************)
(* The HTTP handlers of internal/http-server/handlers over the storage's   *)
(* promise (SubscriptionStore): what a client may send, which requests are *)
(* refused, which method is called with which arguments, and what the      *)
(* reply says.  A handler is sequential; requests are served concurrently, *)
(* and a reply may never reach its client (WriteTimeout, client gone) even *)
(* though the request took effect.                                         *)
(***************************************************************************)
EXTENDS Subscriptions, FiniteSetsExt

CONSTANTS Procs,       \* requests being served at a time
          Requests,    \* what clients send
          Absent,      \* a parameter or field that is missing or ""
          Malformed,   \* one that Atoi, uuid.Parse or DateFromString rejects
          MaxInt       \* largest value of Go's int

Bodies == {"json", "empty", "malformed"}
CreateRequest == [op : {"create"}, body : Bodies, service : Services \cup {Absent}, price : Int,
                  user : Users \cup {Absent, Malformed},
                  start : Date \cup {Absent, Malformed}, end : Date \cup {Absent, Malformed}]
UpdateRequest == [op : {"update"}, id : Int \cup {Malformed}, body : Bodies,
                  service : Services \cup {Absent}, price : Int,
                  start : Date \cup {Absent, Malformed}, end : Date \cup {Absent, Malformed}]
IdRequest     == [op : {"get", "delete"}, id : Int \cup {Malformed}]
ListRequest   == [op : {"list"}, limit : Int \cup {Absent, Malformed},
                  offset : Int \cup {Absent, Malformed}]
TotalRequest  == [op : {"total"}, start : Date \cup {Absent, Malformed},
                  end : Date \cup {Absent, Malformed}, user : Users \cup {Absent, Malformed},
                  service : Services \cup {Absent}]
Request == CreateRequest \cup UpdateRequest \cup IdRequest \cup ListRequest \cup TotalRequest

NoRequest == [op |-> "none"]

ASSUME RequestAssumption ==
    /\ Requests \subseteq Request
    /\ Absent # Malformed
    /\ {Absent, Malformed} \cap (Services \cup Users \cup Date \cup Int) = {}
    /\ NilUser \in Users      \* the nil UUID is as good a user_id as any
    /\ MaxInt \in Nat

(***************************************************************************)
(* Validation.                                                             *)
(***************************************************************************)
SlipValidCreate(r) ==  \* forgets the price
    /\ r.body = "json" /\ r.service # Absent
    /\ r.user \in Users /\ r.start \in Date
    /\ r.end = Absent \/ (r.end \in Date /\ ~GreaterThan(r.start, r.end))
ValidCreate(r) ==
    /\ r.body = "json" /\ r.service # Absent /\ r.price >= 0
    /\ r.user \in Users /\ r.start \in Date
    /\ r.end = Absent \/ (r.end \in Date /\ ~GreaterThan(r.start, r.end))

ValidUpdate(r) ==
    /\ r.id # Malformed
    /\ r.body = "json" /\ r.service # Absent /\ r.price >= 0
    /\ r.start \in Date /\ r.end \in Date \cup {Absent}

ValidId(r) == r.id # Malformed

ValidList(r) ==
    \/ r.limit = Absent /\ r.offset = Absent
    \/ r.limit \in Nat /\ r.offset \in Nat

ValidTotal(r) ==
    /\ r.start \in Date /\ r.end \in Date /\ ~GreaterThan(r.start, r.end)
    /\ r.user # Malformed

Valid(r) ==
    CASE r.op = "create" -> ValidCreate(r)
      [] r.op = "update" -> ValidUpdate(r)
      [] r.op \in {"get", "delete"} -> ValidId(r)
      [] r.op = "list" -> ValidList(r)
      [] r.op = "total" -> ValidTotal(r)

(***************************************************************************)
(* The call a valid request becomes, and the response its reply becomes.   *)
(***************************************************************************)
CreateArgs(r) == [op |-> "create", service |-> r.service, price |-> r.price, user |-> r.user,
                  start |-> r.start, end |-> IF r.end = Absent THEN DefaultEnd(r.start) ELSE r.end]
UpdateArgs(r) == [op |-> "update", id |-> r.id, service |-> r.service, price |-> r.price,
                  start |-> r.start, end |-> IF r.end = Absent THEN ZeroDate ELSE r.end]
ListArgs(r) ==   \* limit=0&offset=0 asks for everything
    IF r.limit = Absent \/ (r.limit = 0 /\ r.offset = 0)
    THEN [op |-> "list", limit |-> NoValue, offset |-> NoValue]
    ELSE [op |-> "list", limit |-> r.limit, offset |-> r.offset]
SlipFilterArgs(r) ==   \* the user is parsed but not passed on
    [op |-> "filter", start |-> r.start, end |-> r.end, user |-> NilUser,
     service |-> IF r.service = Absent THEN NoValue ELSE r.service]
FilterArgs(r) == [op |-> "filter", start |-> r.start, end |-> r.end,
                  user |-> IF r.user = Absent THEN NilUser ELSE r.user,
                  service |-> IF r.service = Absent THEN NoValue ELSE r.service]
CallOf(r) ==
    CASE r.op = "create" -> CreateArgs(r)
      [] r.op = "update" -> UpdateArgs(r)
      [] r.op \in {"get", "delete"} -> [op |-> r.op, id |-> r.id]
      [] r.op = "list" -> ListArgs(r)
      [] r.op = "total" -> FilterArgs(r)

(* The storage is called with nothing else.                                *)
ASSUME CallsAssumption == \A r \in Requests : Valid(r) => CallOf(r) \in Calls

(* What is not an error of storage.go the handler knows is a 500.          *)
SlipStatusOf(r, err) ==   \* takes any error of an update or delete for "not found"
    CASE err = "ok" /\ r.op = "create" -> 201
      [] err = "ok" /\ r.op # "create" -> 200
      [] err # "ok" /\ r.op \in {"get", "update", "delete"} -> 404
      [] err = "exists" /\ r.op = "create" -> 409
      [] OTHER -> 500
SlipErrStatusOf(r, err) ==   \* looks for the conflict only
    CASE err = "exists" /\ r.op = "create" -> 409
      [] err # "exists" /\ r.op = "create" -> 201
      [] err = "notfound" /\ r.op \in {"get", "update", "delete"} -> 404
      [] err = "ok" /\ r.op # "create" -> 200
      [] OTHER -> 500
StatusOf(r, err) ==
    CASE err = "ok" /\ r.op = "create" -> 201
      [] err = "ok" /\ r.op # "create" -> 200
      [] err = "notfound" /\ r.op \in {"get", "update", "delete"} -> 404
      [] err = "exists" /\ r.op = "create" -> 409
      [] OTHER -> 500

(* calculateTotalCostFiltered, in Go's wrapping int.                       *)
Wrapped(n) == ((n + MaxInt + 1) % (2 * MaxInt + 2)) - MaxInt - 1
Cost(row) == row.price * MonthsBetween(row.start, row.end)
SumOf(rs) == MapThenSumSet(LAMBDA e : Cost(e[2]), rs)
SlipTotalCost(rs) ==   \* = for +=
    IF rs = {} THEN 0 ELSE Cost((CHOOSE e \in rs : TRUE)[2])
TotalCost(rs) == Wrapped(SumOf(rs))

(* One record for the bodies of every handler: the id of a CreateResponse, *)
(* the rows of a ReadResponse or ListResponse, the total of a              *)
(* TotalCostResponse.                                                      *)
Response(status, id, rs, total) ==
    [status |-> status, id |-> id, rows |-> rs, total |-> total]
Refusal == Response(400, 0, {}, 0)
NoResponse == Response(0, 0, {}, 0)
ResponseTo(r, reply) ==
    LET status == StatusOf(r, reply.err)
    IN  CASE status = 201 -> Response(201, reply.id, {}, 0)
          [] status = 200 /\ r.op = "total" -> Response(200, 0, {}, TotalCost(reply.rows))
          [] status = 200 /\ r.op # "total" -> Response(200, 0, reply.rows, 0)
          [] OTHER -> Response(status, 0, {}, 0)

(***************************************************************************)
(* The service.                                                            *)
(***************************************************************************)
VARIABLES rows, fresh, phase, call, ret,   \* the storage, see SubscriptionStore
          stage,    \* per request: "idle", "storing" or "replying"
          req,      \* the request
          resp,     \* its response, once known
          changes,  \* history: how often the request changed the rows
          told,     \* history: <<id, user>> of the creates clients know succeeded
          deletes   \* history: ids clients asked to delete

Store == INSTANCE SubscriptionStore
storeVars == <<rows, fresh, phase, call, ret>>
vars == <<rows, fresh, phase, call, ret, stage, req, resp, changes, told, deletes>>

Init ==
    /\ Store!Init
    /\ stage = [p \in Procs |-> "idle"]
    /\ req = [p \in Procs |-> NoRequest]
    /\ resp = [p \in Procs |-> NoResponse]
    /\ changes = [p \in Procs |-> 0]
    /\ told = {}
    /\ deletes = {}

(* A request that fails a handler's own checks never reaches the storage.  *)
Refuse(p, r) ==
    /\ stage[p] = "idle"
    /\ ~Valid(r)
    /\ stage' = [stage EXCEPT ![p] = "replying"]
    /\ req' = [req EXCEPT ![p] = r]
    /\ resp' = [resp EXCEPT ![p] = Refusal]
    /\ UNCHANGED <<rows, fresh, phase, call, ret, changes, told, deletes>>

(* What the handler does of its own when it calls the storage.             *)
HandOver(p, r) ==
    /\ stage[p] = "idle"
    /\ Valid(r)
    /\ stage' = [stage EXCEPT ![p] = "storing"]
    /\ req' = [req EXCEPT ![p] = r]
    /\ deletes' = IF r.op = "delete" THEN deletes \cup {r.id} ELSE deletes
    /\ UNCHANGED <<resp, changes, told>>

Forward(p, r) == HandOver(p, r) /\ Store!Invoke(p, CallOf(r))

(* The handler waits; changes counts the steps in which the rows change.   *)
Wait(p) ==
    /\ stage[p] = "storing"
    /\ changes' = [changes EXCEPT ![p] = IF rows' = rows THEN @ ELSE @ + 1]
    /\ UNCHANGED <<stage, req, resp, told, deletes>>

(* A step of the storage on behalf of p.                                   *)
StoreStep(p) ==
    /\ \/ Store!Create(p) \/ Store!CreateConflict(p) \/ Store!Update(p) \/ Store!Delete(p)
       \/ Store!NotFound(p) \/ Store!Read(p) \/ Store!ReadPart(p) \/ Store!Fail(p)
       \/ Store!Degrade(p)
    /\ Wait(p)

(* The method returns and the handler renders its response.                *)
Render(p) ==
    /\ stage[p] = "storing"
    /\ stage' = [stage EXCEPT ![p] = "replying"]
    /\ resp' = [resp EXCEPT ![p] = ResponseTo(req[p], ret[p])]
    /\ UNCHANGED <<req, changes, told, deletes>>

Respond(p) == Render(p) /\ Store!Return(p)

Done(p) ==
    /\ stage[p] = "replying"
    /\ stage' = [stage EXCEPT ![p] = "idle"]
    /\ req' = [req EXCEPT ![p] = NoRequest]
    /\ resp' = [resp EXCEPT ![p] = NoResponse]
    /\ changes' = [changes EXCEPT ![p] = 0]
    /\ UNCHANGED <<rows, fresh, phase, call, ret, deletes>>

Deliver(p) ==
    /\ Done(p)
    /\ told' = IF resp[p].status = 201 THEN told \cup {<<resp[p].id, req[p].user>>} ELSE told

(* The response does not reach its client.                                 *)
Lose(p) == Done(p) /\ UNCHANGED told

Next == \E p \in Procs :
    \/ \E r \in Requests : Refuse(p, r) \/ Forward(p, r)
    \/ StoreStep(p) \/ Respond(p) \/ Deliver(p) \/ Lose(p)

Spec == Init /\ [][Next]_vars

(***************************************************************************)
(* Correctness.                                                            *)
(***************************************************************************)
Statuses == {200, 201, 400, 404, 409, 500}
ResponseType == [status : Statuses \cup {0}, id : 0..MaxInteger,
                 rows : SUBSET (Ids \X Subscription), total : Int]
TypeOK ==
    /\ rows \in [Ids -> Row \cup {NoRow}]
    /\ fresh \subseteq Ids
    /\ phase \in [Procs -> {"idle", "called", "applied"}]
    /\ call \in [Procs -> Call \cup {NoCall}]
    /\ ret \in [Procs -> Reply]
    /\ stage \in [Procs -> {"idle", "storing", "replying"}]
    /\ req \in [Procs -> Requests \cup {NoRequest}]
    /\ resp \in [Procs -> ResponseType]
    /\ changes \in [Procs -> Nat]
    /\ told \subseteq Ids \X Users
    /\ deletes \subseteq Int

(* The status tells the client what its request did, at whatever point a   *)
(* connection broke: a 4xx request and a read changed nothing, a create or *)
(* delete answered 2xx changed the rows, and no request did so twice.  A   *)
(* 500 leaves it open.                                                     *)
StatusTellsEffect == \A p \in Procs :
    LET s == resp[p].status
    IN  /\ changes[p] <= 1
        /\ s \in {400, 404, 409} => changes[p] = 0
        /\ req[p].op \in {"get", "list", "total"} => changes[p] = 0
        /\ s = 201 \/ (s = 200 /\ req[p].op = "delete") => changes[p] = 1

(* An id a client was told is its subscription, still stored for its user, *)
(* unless a client asked to delete it: no failed, refused or racing        *)
(* request removes it, reuses the id or gives it to another user.          *)
Acknowledged == \A t \in told :
    t[1] \notin deletes => Live(rows, t[1]) /\ rows[t[1]].user = t[2]

(* Only the handlers keep prices non-negative, only the database keeps     *)
(* dates in order, as it stores them, which for a two-digit year is not    *)
(* what the handlers compared: together every row they leave stored is a   *)
(* sane one, and as it is read back its months do not go backwards.        *)
SaneRow(row) ==
    /\ row.price >= 0
    /\ Later(row.end, row.start)
    /\ ~GreaterThan(AsRead(row).start, AsRead(row).end)
StoredRowsSane == \A i \in Ids : Live(rows, i) => SaneRow(rows[i])

(* The total a client is told is the sum of what the rows read cost,       *)
(* unless they are so many and so dear that Go's int wraps around: it is   *)
(* exact as long as n rows cost at most MaxInt divided by n each.          *)
Fits(rs) == \A e \in rs : Cardinality(rs) * Cost(e[2]) <= MaxInt
Answered(p) == stage[p] = "storing" /\ stage'[p] = "replying"
TotalExact == [][\A p \in Procs :
    Answered(p) /\ req[p].op = "total" /\ ret[p].err = "ok" /\ Fits(ret[p].rows) =>
        resp'[p].status = 200 /\ resp'[p].total = SumOf(ret[p].rows)]_vars

(* Nor is it negative, on the same condition: no row is ever read, however *)
(* it came to be stored, whose cost is (a price or a span below zero).     *)
TotalNotNegative == [][\A p \in Procs :
    Answered(p) /\ req[p].op = "total" /\ Fits(ret[p].rows) => resp'[p].total >= 0]_vars

(* A total counts only subscriptions that lie in the period asked for and, *)
(* if a user is asked for, belong to that user: whatever the handler makes *)
(* of the request, the query of it, and a broken connection of the rows.   *)
(* Two requests are excepted.  No document says that asking for the nil    *)
(* user asks for everybody; and a date of a two-digit year is another one  *)
(* to Postgres.                                                            *)
AsWritten(d) == Month(Column(d)) = d
TotalAsAsked == \A p \in Procs :
    LET r == req[p]
    IN  r.op = "total" /\ phase[p] = "applied" =>
            \A e \in ret[p].rows :
                /\ AsWritten(r.start) => ~GreaterThan(r.start, e[2].start)
                /\ AsWritten(r.end) => GreaterThan(r.end, e[2].end)
                /\ r.user \in {Absent, NilUser} \/ e[2].user = r.user

(* total_cost.go:34 "Calculated total cost": the total of the rows read is *)
(* their price times their months.                                         *)
TotalIsTheSum == \A p \in Procs :
    req[p].op = "total" /\ phase[p] = "applied" /\ ret[p].err = "ok" =>
        TotalCost(ret[p].rows) = SumOf(ret[p].rows)

=============================================================================
