----------------------------- MODULE AtomicStore -----------------------------
(****************************************************************************)
(* What the HTTP API promises (README.md, "API"): get, set and delete       *)
(* requests of many clients on one dictionary, each taking effect at once.  *)
(****************************************************************************)
CONSTANTS Threads, Keys, Values, NoValue

VARIABLES
    dict,     \* the store
    req       \* req[t]: the request served by thread t and its response

request(pc, op, k, v, status, body) ==
    [pc |-> pc, op |-> op, key |-> k, value |-> v, status |-> status, body |-> body]

NoRequest == request("idle", "none", NoValue, NoValue, "none", NoValue)

Init == dict = [k \in Keys |-> NoValue] /\ req = [t \in Threads |-> NoRequest]

Begin(t, op, k, v) ==
    /\ req[t] = NoRequest
    /\ req' = [req EXCEPT ![t] = request("pending", op, k, v, "none", NoValue)]
    /\ UNCHANGED dict

Answer(t, op, status, body) ==
    /\ req[t].pc = "pending" /\ req[t].op = op
    /\ req' = [req EXCEPT ![t] = request("done", op, @.key, @.value, status, body)]

stored(t) == dict[req[t].key]

Get(t) ==
    /\ req[t].pc = "pending"
    /\ IF stored(t) = NoValue THEN Answer(t, "get", "not_found", NoValue)
                              ELSE Answer(t, "get", "ok", stored(t))
    /\ UNCHANGED dict

SetNew(t) ==
    /\ Answer(t, "set", "ok", NoValue) /\ stored(t) = NoValue
    /\ dict' = [dict EXCEPT ![req[t].key] = req[t].value]

SetConflict(t) ==
    /\ Answer(t, "set", "conflict", NoValue) /\ stored(t) # NoValue
    /\ UNCHANGED dict

Delete(t) ==
    /\ req[t].pc = "pending"
    /\ Answer(t, "delete", IF stored(t) = NoValue THEN "not_found" ELSE "ok", NoValue)
    /\ dict' = [dict EXCEPT ![req[t].key] = NoValue]

End(t) ==
    /\ req[t].pc = "done"
    /\ req' = [req EXCEPT ![t] = NoRequest]
    /\ UNCHANGED dict

Next ==
    \E t \in Threads :
      \/ \E k \in Keys :
           \/ Begin(t, "get", k, NoValue) \/ Begin(t, "delete", k, NoValue)
           \/ \E v \in Values : Begin(t, "set", k, v)
      \/ Get(t) \/ SetNew(t) \/ SetConflict(t) \/ Delete(t) \/ End(t)

Spec == Init /\ [][Next]_<<dict, req>>
=============================================================================
