-------------------------------- MODULE KVMap --------------------------------
(****************************************************************************)
(* What hash_map promises its caller: a dictionary with insert-if-absent    *)
(* (get), lookup (find) and deletion (remove).  A call takes effect in one  *)
(* step, when it returns.                                                   *)
(****************************************************************************)
CONSTANTS Keys, Values, NoValue

VARIABLES
    dict,     \* dict[k]: the value k is bound to, NoValue if none
    status,   \* "closed" until constructed, "busy" during a call
    req       \* the call in progress, then what it returned

kvvars == <<dict, status, req>>

NoReq == [op |-> "none", key |-> NoValue, value |-> NoValue,
          found |-> FALSE, result |-> NoValue]

Init ==
    /\ dict = [k \in Keys |-> NoValue]
    /\ status = "closed"
    /\ req = NoReq

Open == status = "closed" /\ status' = "idle" /\ UNCHANGED <<dict, req>>

Call(op, k, v) ==
    /\ status = "idle" /\ status' = "busy"
    /\ req' = [op |-> op, key |-> k, value |-> v,
               found |-> FALSE, result |-> NoValue]
    /\ UNCHANGED dict

(* The call in progress returns.                                            *)
Return(op, found, result) ==
    /\ status = "busy" /\ status' = "idle"
    /\ req.op = op
    /\ req' = [NoReq EXCEPT !.found = found, !.result = result]

bound == dict[req.key] # NoValue

ReturnGetBound ==
    /\ Return("get", TRUE, dict[req.key]) /\ bound
    /\ UNCHANGED dict

ReturnGetNew ==
    /\ Return("get", FALSE, req.value) /\ ~bound
    /\ dict' = [dict EXCEPT ![req.key] = req.value]

ReturnFind == Return("find", bound, dict[req.key]) /\ UNCHANGED dict

ReturnRemove ==
    /\ Return("remove", bound, NoValue)
    /\ dict' = [dict EXCEPT ![req.key] = NoValue]

Next ==
    \/ Open
    \/ \E k \in Keys :
         \/ Call("find", k, NoValue) \/ Call("remove", k, NoValue)
         \/ \E v \in Values : Call("get", k, v)
    \/ ReturnGetBound \/ ReturnGetNew \/ ReturnFind \/ ReturnRemove

Spec == Init /\ [][Next]_kvvars
=============================================================================
