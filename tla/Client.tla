------------------------------- MODULE Client -------------------------------
(****************************************************************************)
(* DiskHashClient (client.py) and other HTTP clients against the server: a  *)
(* client sends get, set, delete, keys or health, with the key encoded as   *)
(* in module Codec, and waits for the response, at most `timeout' seconds;  *)
(* the request it gave up may still be waiting for a worker, being served   *)
(* or answered.  requests.Session keeps a connection for the next call and  *)
(* gives up one that timed out.  The store is the dictionary that module    *)
(* ShardedMap is shown to implement; a session holds one of the server's    *)
(* worker threads as in module Server.                                      *)
(****************************************************************************)
EXTENDS Codec, FiniteSets

CONSTANTS
    Clients,     \* the callers
    Others,      \* those that are no DiskHashClient
    Values, NoValue,
    Bytes,       \* the bytes keys are made of
    MaxKey,      \* bound: bytes in a key
    BusyKey,     \* the key with which calls overtake each other
    Threads,     \* the server's worker threads
    MaxCalls     \* bound: calls in a behaviour about BusyKey

ASSUME ClientAssumption ==
    /\ Threads \in Nat \ {0} /\ NoValue \notin Values /\ Others \subseteq Clients
    /\ Bytes \subseteq 0 .. 255 /\ MaxKey \in Nat /\ MaxCalls \in Nat \ {0}

Keys == UNION {[1 .. n -> Bytes] : n \in 0 .. MaxKey}

VARIABLES
    key,         \* the key the callers use
    dict,        \* the store: a function on the keys that are there
    calls,       \* every call made: its request, how it ended, and what the
                 \* server did with the request
    conn,        \* conn[i]: the connection that call i opened
    pool         \* pool[c]: the connection the session of c keeps, 0 if none

vars == <<key, dict, calls, conn, pool>>

None == 0

(* 200 with a body, or one of 400, 404 and 409.                             *)
Response(status, body) == [status |-> status, body |-> body]
NoResponse == Response(0, {})

NewCall(c, op, v, query) ==
    [client |-> c, op |-> op, value |-> v, query |-> query, status |-> "waiting",
     result |-> NoResponse, served |-> 0, asked |-> Answer(0), response |-> NoResponse]

NoConnection == [state |-> "none", inbox |-> None, outbox |-> None, hung_up |-> FALSE]

waiting(c) == {i \in DOMAIN calls : calls[i].client = c /\ calls[i].status = "waiting"}

(* One call for every key, and MaxCalls for one of them.                    *)
call_bound == IF key = BusyKey THEN MaxCalls ELSE 1

Init ==
    /\ key \in Keys
    /\ dict = [k \in {} |-> NoValue]
    /\ calls = <<>>
    /\ conn = [i \in 1 .. MaxCalls |-> NoConnection]
    /\ pool = [c \in Clients |-> None]

-----------------------------------------------------------------------------
(* A method sends its request on the connection of the session, or opens    *)
(* one, which the kernel accepts whether a worker is free or not.           *)
Call(c, op, v, query) ==
    LET n == Len(calls) + 1
        i == IF pool[c] = None THEN n ELSE pool[c]
    IN /\ calls' = Append(calls, NewCall(c, op, v, query))
       /\ conn' = [conn EXCEPT ![i].inbox = n,
                               ![i].state = IF @ = "none" THEN "queued" ELSE @]
       /\ pool' = [pool EXCEPT ![c] = i]
       /\ UNCHANGED <<key, dict>>

(* What the lines of a listing can be decoded to.                           *)
candidates == decodings(key, Bytes)

listed(response) ==
    Response(response.status,
             UNION {decode_key(line, candidates) : line \in response.body})

(* The response is there: 200 is True, the value or the keys; 404 and 409   *)
(* are None or False; raise_for_status raises for 400.  [], []=, del and in *)
(* raise or answer accordingly.                                             *)
Return(c) ==
    \E n \in waiting(c) :
      LET m == conn[pool[c]].outbox
          response == calls[m].response
      IN /\ m # None
         /\ calls' = [calls EXCEPT
              ![n].status = IF response.status = 400 THEN "raised" ELSE "returned",
              ![n].result = IF calls[n].op = "keys" THEN listed(response) ELSE response]
         /\ conn' = [conn EXCEPT ![pool[c]].outbox = None]
         /\ UNCHANGED <<key, dict, pool>>

(* Mutant: the connection is kept for the next call.                        *)
Timeout_keeps_connection(c) ==
    \E n \in waiting(c) :
      /\ calls' = [calls EXCEPT ![n].status = "raised"]
      /\ UNCHANGED <<key, dict, conn, pool>>

(* Mutant: the session sends the request again on a new connection.         *)
Timeout_resends(c) ==
    \E n \in waiting(c) :
      /\ conn[MaxCalls] = NoConnection
      /\ conn' = [conn EXCEPT ![pool[c]].hung_up = TRUE,
                              ![MaxCalls].state = "queued", ![MaxCalls].inbox = n]
      /\ pool' = [pool EXCEPT ![c] = MaxCalls]
      /\ UNCHANGED <<key, dict, calls>>

(* requests raises Timeout and drops the connection; health returns False.  *)
Timeout(c) ==
    \E n \in waiting(c) :
      /\ calls' = [calls EXCEPT ![n].status =
                     IF calls[n].op = "health" THEN "unhealthy" ELSE "raised"]
      /\ conn' = [conn EXCEPT ![pool[c]].hung_up = TRUE]
      /\ pool' = [pool EXCEPT ![c] = None]
      /\ UNCHANGED <<key, dict>>

(* close(), or the end of a with statement; the client may be used again.   *)
Close(c) ==
    /\ waiting(c) = {} /\ pool[c] # None
    /\ conn' = [conn EXCEPT ![pool[c]].hung_up = TRUE]
    /\ pool' = [pool EXCEPT ![c] = None]
    /\ UNCHANGED <<key, dict, calls>>

-----------------------------------------------------------------------------
(* A session gets a worker if one has none.                                 *)
SessionStarts(i) ==
    /\ conn[i].state = "queued"
    /\ Cardinality({j \in DOMAIN conn : conn[j].state = "session"}) < Threads
    /\ conn' = [conn EXCEPT ![i].state = "session"]
    /\ UNCHANGED <<key, dict, calls, pool>>

stored(k) == k \in DOMAIN dict

(* handle_get, handle_set, handle_delete and handle_keys.                   *)
respond(asked) ==
    LET k == asked.key
    IN CASE asked.handler = "none" -> Response(asked.status, {})
         [] asked.handler = "get" ->
              IF stored(k) THEN Response(200, {dict[k]}) ELSE Response(404, {})
         [] asked.handler = "set" -> Response(IF stored(k) THEN 409 ELSE 200, {})
         [] asked.handler = "delete" -> Response(IF stored(k) THEN 200 ELSE 404, {})
         [] asked.handler = "keys" ->
              Response(200, {base64url_encode(line) : line \in DOMAIN dict})

(* client.py: the path and the method of each request.                      *)
path_of(op) ==
    CASE op = "get" -> "/get" [] op = "set" -> "/set" [] op = "delete" -> "/delete"
      [] op = "keys" -> "/keys" [] op = "health" -> "/health"

verb_of(op) == IF op = "set" THEN "PUT" ELSE IF op = "delete" THEN "DELETE" ELSE "GET"

(* handle_session reads a request, also one whose client has gone since:    *)
(* what was sent comes before the end of the stream.                        *)
Serve(i) ==
    LET n == conn[i].inbox
        asked == handle_request(path_of(calls[n].op), verb_of(calls[n].op), calls[n].query)
        k == asked.key
    IN /\ conn[i].state = "session" /\ n # None
       /\ calls' = [calls EXCEPT ![n].served = @ + 1, ![n].asked = asked,
                                 ![n].query = <<>>, ![n].response = respond(asked)]
       /\ dict' = IF asked.handler = "set" /\ ~stored(k)
                    THEN [x \in DOMAIN dict \cup {k} |->
                            IF x = k THEN calls[n].value ELSE dict[x]]
                  ELSE IF asked.handler = "delete" THEN [x \in DOMAIN dict \ {k} |-> dict[x]]
                  ELSE dict
       /\ conn' = [conn EXCEPT ![i].inbox = None, ![i].outbox = n]
       /\ UNCHANGED <<key, pool>>

SessionEnds(i) ==
    /\ conn[i].state = "session" /\ conn[i].inbox = None /\ conn[i].hung_up
    /\ conn' = [conn EXCEPT ![i] = [NoConnection EXCEPT !.state = "closed"]]
    /\ UNCHANGED <<key, dict, calls, pool>>

-----------------------------------------------------------------------------
(* The other clients write a key in their ways; BusyKey, in one.            *)
queries(c) ==
    IF c \in Others /\ key # BusyKey THEN Queries(key) ELSE {<<[name |-> "key", value |-> encode_key(key)]>>}

(* One call at a time.                                                      *)
Requests(c) ==
    /\ waiting(c) = {} /\ Len(calls) < call_bound
    /\ \/ \E query \in queries(c) :
            \/ Call(c, "get", NoValue, query) \/ Call(c, "delete", NoValue, query)
            \/ \E v \in Values : Call(c, "set", v, query)
       \/ Call(c, "keys", NoValue, <<>>)
       \/ key # BusyKey /\ Call(c, "health", NoValue, <<>>)

Next ==
    \/ \E c \in Clients : Requests(c) \/ Return(c) \/ Timeout(c) \/ Close(c)
    \/ \E i \in 1 .. MaxCalls : SessionStarts(i) \/ Serve(i) \/ SessionEnds(i)

Spec == Init /\ [][Next]_vars

-----------------------------------------------------------------------------
(* The conversions of the two sides are inverse to each other.              *)
CodecsInvert == \A k \in Keys : RoundTrip(k, Bytes)

(* What the caller of request n is told if it gets this response.           *)
answer(n) ==
    IF calls[n].op = "keys"
      THEN Response(200, IF calls[n].response.body = {} THEN {} ELSE {key})
      ELSE calls[n].response

(****************************************************************************)
(* A method that returned, returned what the server answered to the request *)
(* of this very call (True from set: this call set the key; a listing: the  *)
(* very keys that are there), no matter how many calls timed out before it  *)
(* and when their requests were served.                                     *)
(****************************************************************************)
ReturnsItsAnswer ==
    \A n \in DOMAIN calls : calls[n].status = "returned" =>
      calls[n].served = 1 /\ calls[n].result = answer(n)

(****************************************************************************)
(* A request is served at most once: after a timeout it may have taken      *)
(* effect, may do so later, or never, but the library does not repeat it.   *)
(* So every value in the store was set by one call that was told so or that *)
(* timed out.                                                               *)
(****************************************************************************)
ServedOnce ==
    /\ \A n \in DOMAIN calls : calls[n].served <= 1
    /\ \A k \in DOMAIN dict :
         \E n \in DOMAIN calls :
           /\ calls[n].op = "set" /\ calls[n].value = dict[k]
           /\ calls[n].response.status = 200 /\ calls[n].served = 1
           /\ calls[n].status = "returned" => calls[n].result.status = 200

(****************************************************************************)
(* The handler is called with the very key the caller meant, however it was *)
(* written: the conversions of the two sides are inverse, also for keys     *)
(* whose bits do not fit the int they are shifted through, and for escapes  *)
(* up to the last character.  The empty key, and no other, is refused.      *)
(****************************************************************************)
KeyArrives ==
    \A n \in DOMAIN calls :
      calls[n].served > 0 /\ calls[n].op \in {"get", "set", "delete"} =>
        calls[n].asked = IF key = <<>> THEN Answer(400) ELSE Handle(calls[n].op, key)
=============================================================================
