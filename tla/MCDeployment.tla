--------------------------- MODULE MCDeployment ---------------------------
(* Two requests at a time over two connections: creates of two keys, one   *)
(* of them refused, updates that exchange the keys of two rows (and so     *)
(* deadlock), a delete and a get.                                          *)
EXTENDS Deployment, TLC

CONSTANTS s1, s2, u1

ServicesMC == {s1, s2}
UsersMC == {u1, NilUser}

Mon(m) == [month |-> m, year |-> 2025]
CreateReq(s, price) ==
    [op |-> "create", body |-> "json", service |-> s, price |-> price, user |-> u1,
     start |-> Mon(1), end |-> Absent]
UpdateReq(id, s) ==
    [op |-> "update", id |-> id, body |-> "json", service |-> s, price |-> 1,
     start |-> Mon(1), end |-> Absent]

RequestsMC == {
    CreateReq(s1, 1), CreateReq(s2, 1), CreateReq(s2, -1),
    UpdateReq(1, s2), UpdateReq(2, s1),
    [op |-> "delete", id |-> 1], [op |-> "get", id |-> 1]}

(* The calls these requests become (DeploymentAssumption).                 *)
CallsMC == {
    [op |-> "create", service |-> s, price |-> 1, user |-> u1, start |-> Mon(1),
     end |-> DefaultEnd(Mon(1))] : s \in ServicesMC}
  \cup {[op |-> "update", id |-> id, service |-> s, price |-> 1, start |-> Mon(1),
         end |-> ZeroDate] : id \in 1..2, s \in ServicesMC}
  \cup {[op |-> o, id |-> 1] : o \in {"delete", "get"}}
=============================================================================
