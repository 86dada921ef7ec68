---------------------------- MODULE ClientProofs ----------------------------
(****************************************************************************)
(* Client serves a request at most once, and a call that returns, returns   *)
(* the response to its own request: for any callers, worker threads, keys,  *)
(* values and any number of calls.  What the codecs compute is not expanded *)
(* here: the last two theorems take from them that they invert each other.  *)
(****************************************************************************)
EXTENDS Client, TLAPS

CallFields == {"client", "op", "value", "query", "status", "result", "served",
               "asked", "response"}

Ops == {"get", "set", "delete", "keys", "health"}

IsCall(e) ==
    /\ e = [f \in CallFields |-> e[f]]
    /\ e.client \in Clients /\ e.op \in Ops /\ e.served \in {0, 1}

(* The calls are a sequence of records.                                     *)
CallsTyped ==
    /\ \E S : calls \in Seq(S)
    /\ Len(calls) <= MaxCalls
    /\ \A n \in DOMAIN calls : IsCall(calls[n])

(* A connection that may carry the request or the response of n calls.      *)
Connection(n) == [state : {"none", "queued", "session", "closed"},
                  inbox : 0 .. n, outbox : 0 .. n, hung_up : BOOLEAN]

(* Connection i is opened by call i, not before.                            *)
ConnsTyped ==
    /\ conn \in [1 .. MaxCalls -> Connection(Len(calls))]
    /\ pool \in [Clients -> 0 .. Len(calls)]
    /\ \A i \in 1 .. MaxCalls : i > Len(calls) => conn[i] = NoConnection

(* A request is in one inbox at most, and there it has not been served.     *)
Unserved ==
    \A i \in 1 .. MaxCalls : conn[i].inbox # None =>
      /\ calls[conn[i].inbox].served = 0
      /\ \A j \in 1 .. MaxCalls : conn[j].inbox = conn[i].inbox => j = i

(* What is in an outbox is the response to a request that was served.       *)
Answered ==
    \A i \in 1 .. MaxCalls :
      conn[i].outbox # None => calls[conn[i].outbox].served = 1

(* A session's connection is its own, and carries nothing but the request   *)
(* its caller waits for or the response to it.                              *)
Pooled ==
    \A c \in Clients : pool[c] # None =>
      /\ \A d \in Clients : pool[d] = pool[c] => d = c
      /\ \A f \in {"inbox", "outbox"} : conn[pool[c]][f] # None =>
           /\ calls[conn[pool[c]][f]].client = c
           /\ calls[conn[pool[c]][f]].status = "waiting"
      /\ conn[pool[c]].inbox = None \/ conn[pool[c]].outbox = None
      /\ conn[pool[c]].hung_up = FALSE

(* A caller waits for one call at most, on the connection it keeps.         *)
Waiting ==
    \A n \in DOMAIN calls : calls[n].status = "waiting" =>
      /\ pool[calls[n].client] # None
      /\ n \in {conn[pool[calls[n].client]].inbox, conn[pool[calls[n].client]].outbox}

(* What the caller is told: the response, a listing decoded.                *)
told(e) == IF e.op = "keys" THEN listed(e.response) ELSE e.response

(****************************************************************************)
(* A method that returned was served once, and what it returns is the       *)
(* server's response to this very request, decoded if it is a listing.      *)
(****************************************************************************)
RoutedBack ==
    \A n \in DOMAIN calls : calls[n].status = "returned" =>
      /\ calls[n].served = 1
      /\ calls[n].result = told(calls[n])

(* A value in the store was put there by a call that was answered 200.      *)
SetBy(k) ==
    \E n \in DOMAIN calls :
      /\ calls[n].op = "set" /\ calls[n].value = dict[k]
      /\ calls[n].response.status = 200 /\ calls[n].served = 1

DictSet == \A k \in DOMAIN dict : SetBy(k)

Inv == /\ CallsTyped /\ ConnsTyped /\ Unserved /\ Answered
       /\ Pooled /\ Waiting /\ RoutedBack /\ DictSet

-----------------------------------------------------------------------------
(* A call is added after the others.                                        *)
LEMMA CallAppended ==
  ASSUME NEW S, NEW s \in Seq(S), NEW e, NEW t, t = Append(s, e)
  PROVE  /\ t \in Seq(S \cup {e})
         /\ Len(t) = Len(s) + 1 /\ Len(s) \in Nat
         /\ DOMAIN s = 1 .. Len(s) /\ DOMAIN t = 1 .. Len(s) + 1
         /\ t[Len(s) + 1] = e
         /\ \A n \in DOMAIN s : t[n] = s[n]
<1>1. s \in Seq(S \cup {e}) /\ Len(s) \in Nat /\ DOMAIN s = 1 .. Len(s)
  OBVIOUS
<1>2. /\ t \in Seq(S \cup {e}) /\ Len(t) = Len(s) + 1 /\ t[Len(s) + 1] = e
      /\ \A n \in 1 .. Len(s) : t[n] = s[n]
  BY <1>1
<1> QED
  BY <1>1, <1>2

(* What becomes of one call leaves the others alone.                        *)
LEMMA CallUpdated ==
  ASSUME NEW S, NEW s \in Seq(S), NEW n \in DOMAIN s, NEW e, NEW t, t = [s EXCEPT ![n] = e]
  PROVE  /\ t \in Seq(S \cup {e})
         /\ Len(t) = Len(s) /\ Len(s) \in Nat
         /\ DOMAIN s = 1 .. Len(s) /\ DOMAIN t = 1 .. Len(s)
         /\ t[n] = e
         /\ \A m \in DOMAIN s \ {n} : t[m] = s[m]
<1>1. s \in [1 .. Len(s) -> S] /\ Len(s) \in Nat /\ DOMAIN s = 1 .. Len(s)
  OBVIOUS
<1>2. /\ t \in [1 .. Len(s) -> S \cup {e}] /\ t[n] = e
      /\ \A m \in DOMAIN s \ {n} : t[m] = s[m]
  BY <1>1
<1>3. t \in Seq(S \cup {e}) /\ Len(t) = Len(s)
  BY <1>1, <1>2
<1> QED
  BY <1>1, <1>2, <1>3

(* The key the callers use, and so what they decode, stays the same.        *)
LEMMA ToldStays ==
  ASSUME key' = key, NEW e
  PROVE  told(e)' = told(e)
  BY DEF told, listed, candidates

(* So nothing changes for the calls that are left alone.                    *)
LEMMA RoutedStays ==
  ASSUME RoutedBack, key' = key, calls' = calls
  PROVE  RoutedBack'
<1> SUFFICES ASSUME NEW n \in DOMAIN calls, calls[n].status = "returned"
             PROVE  calls[n].served = 1 /\ calls[n].result = told(calls[n])'
  BY DEF RoutedBack
<1>1. PICK a : a = calls[n]
  OBVIOUS
<1>2. told(calls[n])' = told(a)'
  BY <1>1 DEF told
<1> QED
  BY <1>1, <1>2, ToldStays DEF RoutedBack

-----------------------------------------------------------------------------
(* Nobody has called yet.                                                   *)
LEMMA InvInit ==
  ASSUME Init
  PROVE  Inv
<1>1. /\ calls = <<>> /\ Len(calls) = 0 /\ DOMAIN calls = {} /\ DOMAIN dict = {}
      /\ pool = [c \in Clients |-> 0] /\ conn = [i \in 1 .. MaxCalls |-> NoConnection]
      /\ calls \in Seq({})
  BY DEF Init, None
<1>2. NoConnection \in Connection(Len(calls)) /\ NoConnection.inbox = 0 /\ NoConnection.outbox = 0
  BY <1>1 DEF NoConnection, Connection, None
<1>3. CallsTyped
  BY <1>1, ClientAssumption DEF CallsTyped
<1>4. ConnsTyped
  BY <1>1, <1>2 DEF ConnsTyped
<1>5. Unserved /\ Answered
  BY <1>1, <1>2 DEF Unserved, Answered, None
<1>6. Pooled
  BY <1>1 DEF Pooled, None
<1>7. Waiting /\ RoutedBack /\ DictSet
  BY <1>1 DEF Waiting, RoutedBack, DictSet
<1> QED
  BY <1>3, <1>4, <1>5, <1>6, <1>7 DEF Inv

(* What an action may rely on.                                              *)
LEMMA Shapes ==
  ASSUME Inv
  PROVE  /\ Len(calls) \in Nat /\ DOMAIN calls = 1 .. Len(calls) /\ Len(calls) <= MaxCalls
         /\ MaxCalls \in Nat /\ MaxCalls >= 1
         /\ conn \in [1 .. MaxCalls -> Connection(Len(calls))]
         /\ pool \in [Clients -> 0 .. Len(calls)]
  BY ClientAssumption DEF Inv, CallsTyped, ConnsTyped

(* A client that waits for nothing keeps a connection that carries nothing, *)
(* or none.                                                                 *)
LEMMA IdleConnection ==
  ASSUME Inv, NEW c \in Clients, waiting(c) = {}, pool[c] # None
  PROVE  conn[pool[c]].inbox = None /\ conn[pool[c]].outbox = None
<1>1. pool[c] \in 1 .. MaxCalls /\ conn[pool[c]] \in Connection(Len(calls))
  BY Shapes DEF None
<1>2. \A f \in {"inbox", "outbox"} : conn[pool[c]][f] \in DOMAIN calls \cup {None}
  BY <1>1, Shapes DEF Connection, None
<1>3. \A f \in {"inbox", "outbox"} : conn[pool[c]][f] = None
  BY <1>2 DEF Inv, Pooled, waiting
<1> QED
  BY <1>3

(* The response a waiting client finds is the one to the call it waits for. *)
LEMMA OwnResponse ==
  ASSUME Inv, NEW c \in Clients, NEW n \in waiting(c)
  PROVE  /\ n \in DOMAIN calls /\ calls[n].client = c /\ calls[n].status = "waiting"
         /\ pool[c] \in 1 .. MaxCalls /\ pool[c] # None
         /\ conn[pool[c]].outbox # None =>
              conn[pool[c]].outbox = n /\ conn[pool[c]].inbox = None /\ calls[n].served = 1
         /\ conn[pool[c]].outbox = None => conn[pool[c]].inbox = n
         /\ \A m \in DOMAIN calls :
              calls[m].status = "waiting" /\ calls[m].client = c => m = n
         /\ conn[pool[c]].inbox \in {None, n} /\ conn[pool[c]].outbox \in {None, n}
<1>1. n \in DOMAIN calls /\ calls[n].client = c /\ calls[n].status = "waiting"
  BY DEF waiting
<1>2. pool[c] \in 1 .. MaxCalls /\ pool[c] # None /\ DOMAIN calls = 1 .. Len(calls)
  BY <1>1, Shapes DEF Inv, Waiting, None
<1>3. /\ conn[pool[c]].inbox = None \/ conn[pool[c]].outbox = None
      /\ n \in {conn[pool[c]].inbox, conn[pool[c]].outbox}
      /\ \A m \in DOMAIN calls : calls[m].status = "waiting" /\ calls[m].client = c =>
           m \in {conn[pool[c]].inbox, conn[pool[c]].outbox}
  BY <1>1, <1>2 DEF Inv, Waiting, Pooled
<1>4. \A m \in DOMAIN calls : m # None
  BY <1>2 DEF None
<1>5. conn[pool[c]].outbox # None => calls[conn[pool[c]].outbox].served = 1
  BY <1>2 DEF Inv, Answered
<1> QED
  BY <1>1, <1>2, <1>3, <1>4, <1>5

-----------------------------------------------------------------------------
(* The request goes out on a connection that carries nothing and that no    *)
(* other session has.                                                       *)
LEMMA InvCall ==
  ASSUME Inv, NEW c \in Clients, NEW op \in Ops, NEW v, NEW query,
         waiting(c) = {}, Len(calls) < call_bound, Call(c, op, v, query)
  PROVE  Inv'
<1>0. PICK N, i, e : /\ N = Len(calls) /\ i = IF pool[c] = None THEN N + 1 ELSE pool[c]
                     /\ e = NewCall(c, op, v, query)
  OBVIOUS
<1>1. /\ N \in Nat /\ N = Len(calls) /\ N + 1 <= MaxCalls /\ DOMAIN calls = 1 .. N
      /\ MaxCalls \in Nat /\ conn \in [1 .. MaxCalls -> Connection(Len(calls))]
      /\ pool \in [Clients -> 0 .. N]
  BY <1>0, Shapes DEF call_bound
<1>2. PICK S : calls \in Seq(S)
  BY DEF Inv, CallsTyped
<1>3. calls' = Append(calls, e)
  BY <1>0 DEF Call
<1>4. /\ calls' \in Seq(S \cup {e}) /\ Len(calls') = N + 1 /\ DOMAIN calls' = 1 .. N + 1
      /\ calls'[N + 1] = e /\ \A n \in 1 .. N : calls'[n] = calls[n]
  BY <1>1, <1>2, <1>3, CallAppended
<1>5. /\ e.client = c /\ e.op = op /\ e.status = "waiting" /\ e.served = 0
      /\ e = [f \in CallFields |-> e[f]]
  BY <1>0 DEF NewCall, CallFields
<1>6. /\ i \in 1 .. N + 1 /\ i \in 1 .. MaxCalls
      /\ conn[i].inbox = 0 /\ conn[i].outbox = 0 /\ conn[i].hung_up = FALSE
      /\ \A d \in Clients : pool[d] = i => d = c
  <2>1. CASE pool[c] = None
    BY <1>0, <1>1, <2>1 DEF Inv, ConnsTyped, NoConnection, None
  <2>2. CASE pool[c] # None
    <3>1. conn[i].inbox = 0 /\ conn[i].outbox = 0
      BY <1>0, <2>2, IdleConnection DEF None
    <3>2. conn[i].hung_up = FALSE
      BY <1>0, <2>2 DEF Inv, Pooled
    <3> QED
      BY <1>0, <1>1, <2>2, <3>1, <3>2 DEF Inv, Pooled, None
  <2> QED
    BY <2>1, <2>2
<1>7. /\ conn' \in [1 .. MaxCalls -> Connection(N + 1)]
      /\ conn'[i].inbox = N + 1 /\ conn'[i].outbox = 0 /\ conn'[i].hung_up = FALSE
      /\ \A j \in 1 .. MaxCalls : j # i => conn'[j] = conn[j]
  <2>1. PICK st \in {"none", "queued", "session", "closed"} :
          conn' = [conn EXCEPT ![i].inbox = N + 1, ![i].state = st]
    <3>1. conn' = [conn EXCEPT ![i].inbox = N + 1,
                               ![i].state = IF @ = "none" THEN "queued" ELSE @]
      BY <1>0 DEF Call
    <3>2. conn[i].state \in {"none", "queued", "session", "closed"}
      BY <1>1, <1>6 DEF Connection
    <3> QED
      BY <1>1, <1>6, <3>1, <3>2
  <2> DEFINE x == [conn[i] EXCEPT !.inbox = N + 1, !.state = st]
  <2>2. conn' = [conn EXCEPT ![i] = x]
    BY <1>1, <1>6, <2>1
  <2>3. x.inbox = N + 1 /\ x.outbox = 0 /\ x.hung_up = FALSE /\ x \in Connection(N + 1)
    <3> DEFINE y == [conn[i] EXCEPT !.inbox = N + 1]
    <3>1. y \in Connection(N + 1) /\ y.inbox = N + 1 /\ y.outbox = 0 /\ y.hung_up = FALSE
      <4>1. PICK z : z = conn[i]
        OBVIOUS
      <4>2. z \in Connection(N) /\ z.outbox = 0 /\ z.hung_up = FALSE /\ N + 1 \in Nat /\ N <= N + 1
        BY <1>1, <1>6, <4>1
      <4>3. z \in Connection(N + 1)
        BY <1>1, <4>2 DEF Connection
      <4> QED
        <5>1. N + 1 \in 0 .. N + 1
          BY <1>1
        <5> QED
          BY <4>1, <4>2, <4>3, <5>1 DEF Connection
    <3>2. x = [y EXCEPT !.state = st]
      OBVIOUS
    <3> HIDE DEF x, y
    <3> QED
      BY <3>1, <3>2 DEF Connection
  <2>4. Connection(N) \subseteq Connection(N + 1)
    BY <1>1 DEF Connection
  <2> HIDE DEF x
  <2> QED
    BY <1>1, <1>6, <2>2, <2>3, <2>4
<1>8. pool' = [pool EXCEPT ![c] = i] /\ dict' = dict
  BY <1>0 DEF Call
<1>9. pool' \in [Clients -> 0 .. N + 1] /\ pool'[c] = i
      /\ \A d \in Clients : d # c => pool'[d] = pool[d]
  BY <1>1, <1>6, <1>8
<1>10. CallsTyped'
  <2>1. \E T : calls' \in Seq(T)
    BY <1>4
  <2>2. IsCall(e) /\ \A n \in 1 .. N : IsCall(calls[n])
    BY <1>1, <1>5 DEF Inv, CallsTyped, IsCall
  <2>3. \A n \in 1 .. N + 1 : IsCall(calls'[n])
    BY <1>1, <1>4, <2>2
  <2> QED
    BY <1>1, <1>4, <2>1, <2>3 DEF CallsTyped
<1>11. ConnsTyped'
  <2>1. \A j \in 1 .. MaxCalls : j > N + 1 => conn'[j] = NoConnection
    BY <1>1, <1>6, <1>7 DEF Inv, ConnsTyped
  <2> QED
    BY <1>4, <1>7, <1>9, <2>1 DEF ConnsTyped
<1>12. \A j \in 1 .. MaxCalls : conn[j].inbox \in 0 .. N /\ conn[j].outbox \in 0 .. N
  BY <1>1 DEF Connection
<1>13. Unserved' /\ Answered'
  <2>1. \A n \in 0 .. N : n # 0 => calls'[n] = calls[n]
    BY <1>1, <1>4
  <2>2. Answered'
    BY <1>7, <1>12, <2>1 DEF Inv, Answered, None
  <2>3. \A j \in 1 .. MaxCalls : conn'[j].inbox # None =>
          calls'[conn'[j].inbox].served = 0
    BY <1>4, <1>5, <1>7, <1>12, <2>1 DEF Inv, Unserved, None
  <2>4. ASSUME NEW j \in 1 .. MaxCalls, NEW l \in 1 .. MaxCalls,
               conn'[j].inbox # None, conn'[l].inbox = conn'[j].inbox
        PROVE  l = j
    <3>1. CASE i \in {j, l}
      BY <1>1, <1>7, <1>12, <2>4, <3>1
    <3>2. CASE i \notin {j, l}
      BY <1>7, <2>4, <3>2 DEF Inv, Unserved, None
    <3> QED
      BY <3>1, <3>2
  <2> QED
    BY <2>2, <2>3, <2>4 DEF Unserved
<1>14. Pooled'
  <2> SUFFICES ASSUME NEW d \in Clients, pool'[d] # None
               PROVE  /\ \A g \in Clients : pool'[g] = pool'[d] => g = d
                      /\ \A f \in {"inbox", "outbox"} : conn'[pool'[d]][f] # None =>
                           /\ calls'[conn'[pool'[d]][f]].client = d
                           /\ calls'[conn'[pool'[d]][f]].status = "waiting"
                      /\ conn'[pool'[d]].inbox = None \/ conn'[pool'[d]].outbox = None
                      /\ conn'[pool'[d]].hung_up = FALSE
    BY DEF Pooled
  <2>1. CASE d = c
    BY <1>4, <1>5, <1>6, <1>7, <1>9, <2>1 DEF None
  <2>2. CASE d # c
    <3>1. pool'[d] = pool[d] /\ pool[d] # i /\ pool[d] \in 1 .. MaxCalls
      BY <1>1, <1>6, <1>9, <2>2 DEF None
    <3>2. /\ conn'[pool[d]] = conn[pool[d]]
          /\ \A f \in {"inbox", "outbox"} : conn[pool[d]][f] \in 0 .. N
      BY <1>7, <1>12, <3>1
    <3>3. /\ \A f \in {"inbox", "outbox"} : conn[pool[d]][f] # None =>
               /\ calls[conn[pool[d]][f]].client = d
               /\ calls[conn[pool[d]][f]].status = "waiting"
          /\ conn[pool[d]].inbox = None \/ conn[pool[d]].outbox = None
          /\ conn[pool[d]].hung_up = FALSE
          /\ \A g \in Clients : pool[g] = pool[d] => g = d
      BY <3>1 DEF Inv, Pooled
    <3>4. \A n \in 0 .. N : n # None => calls'[n] = calls[n]
      BY <1>1, <1>4 DEF None
    <3> QED
      BY <1>9, <3>1, <3>2, <3>3, <3>4
  <2> QED
    BY <2>1, <2>2
<1>15. Waiting'
  <2> SUFFICES ASSUME NEW n \in DOMAIN calls', calls'[n].status = "waiting"
               PROVE  /\ pool'[calls'[n].client] # None
                      /\ n \in {conn'[pool'[calls'[n].client]].inbox,
                                conn'[pool'[calls'[n].client]].outbox}
    BY DEF Waiting
  <2>1. CASE n = N + 1
    BY <1>4, <1>5, <1>6, <1>7, <1>9, <2>1 DEF None
  <2>2. CASE n \in 1 .. N
    <3>1. /\ calls'[n] = calls[n] /\ n \in DOMAIN calls /\ calls[n].client # c
          /\ calls[n].client \in Clients
      BY <1>1, <1>4, <2>2 DEF waiting, Inv, CallsTyped, IsCall
    <3>2. /\ pool[calls[n].client] # None
          /\ n \in {conn[pool[calls[n].client]].inbox, conn[pool[calls[n].client]].outbox}
      BY <3>1 DEF Inv, Waiting
    <3>3. /\ pool'[calls[n].client] = pool[calls[n].client]
          /\ pool[calls[n].client] \in 1 .. MaxCalls /\ pool[calls[n].client] # i
      BY <1>1, <1>6, <1>9, <3>1, <3>2 DEF None
    <3> QED
      BY <1>7, <3>1, <3>2, <3>3
  <2> QED
    BY <1>1, <1>4, <2>1, <2>2
<1>16. RoutedBack'
  <2> SUFFICES ASSUME NEW n \in 1 .. N + 1, calls'[n].status = "returned"
               PROVE  calls'[n].served = 1 /\ calls'[n].result = told(calls[n])'
    BY <1>4, <1>5 DEF RoutedBack
  <2>1. n \in 1 .. N /\ calls'[n] = calls[n]
    BY <1>1, <1>4, <1>5
  <2>2. calls[n].served = 1 /\ calls[n].result = told(calls[n])
    BY <1>1, <2>1 DEF Inv, RoutedBack
  <2>3. PICK a : a = calls[n]
    OBVIOUS
  <2>4. told(calls[n])' = told(a)'
    BY <2>1, <2>3 DEF told
  <2>5. key' = key
    BY DEF Call
  <2> QED
    BY <2>1, <2>2, <2>3, <2>4, <2>5, ToldStays
<1>17. DictSet'
  <2> SUFFICES ASSUME NEW k \in DOMAIN dict
               PROVE  SetBy(k)'
    BY <1>8 DEF DictSet
  <2>1. PICK n \in DOMAIN calls : /\ calls[n].op = "set" /\ calls[n].value = dict[k]
                                 /\ calls[n].response.status = 200 /\ calls[n].served = 1
    BY DEF Inv, DictSet, SetBy
  <2> QED
    BY <1>1, <1>4, <1>8, <2>1 DEF SetBy
<1> QED
  BY <1>10, <1>11, <1>13, <1>14, <1>15, <1>16, <1>17 DEF Inv

(* A step that takes what a connection carries only when nobody keeps it,   *)
(* and a connection only from one who waits for nothing.                    *)
LEMMA InvConn ==
  ASSUME Inv, key' = key, dict' = dict, calls' = calls,
         NEW i \in 1 .. Len(calls), NEW x \in Connection(Len(calls)),
         conn' = [conn EXCEPT ![i] = x],
         x.inbox \in {None, conn[i].inbox}, x.outbox \in {None, conn[i].outbox},
         pool' \in [Clients -> 0 .. Len(calls)],
         \A d \in Clients : pool'[d] = pool[d] \/ (pool'[d] = None /\ waiting(d) = {}),
         \A d \in Clients : pool'[d] = i =>
           /\ x.inbox = conn[i].inbox /\ x.outbox = conn[i].outbox
           /\ x.hung_up = conn[i].hung_up
  PROVE  Inv'
<1>1. /\ Len(calls) \in Nat /\ DOMAIN calls = 1 .. Len(calls) /\ Len(calls) <= MaxCalls
      /\ MaxCalls \in Nat /\ conn \in [1 .. MaxCalls -> Connection(Len(calls))]
      /\ pool \in [Clients -> 0 .. Len(calls)]
  BY Shapes
<1>2. /\ conn' \in [1 .. MaxCalls -> Connection(Len(calls))] /\ conn'[i] = x
      /\ \A j \in 1 .. MaxCalls : j # i => conn'[j] = conn[j]
  BY <1>1
<1>3. \A j \in 1 .. MaxCalls : /\ conn'[j].inbox \in {None, conn[j].inbox}
                               /\ conn'[j].outbox \in {None, conn[j].outbox}
  BY <1>2
<1>4. ASSUME NEW d \in Clients, pool'[d] # None
      PROVE  /\ pool'[d] = pool[d] /\ pool[d] \in 1 .. MaxCalls /\ pool[d] # None
             /\ conn'[pool[d]].inbox = conn[pool[d]].inbox
             /\ conn'[pool[d]].outbox = conn[pool[d]].outbox
             /\ conn'[pool[d]].hung_up = conn[pool[d]].hung_up
  <2>1. pool'[d] = pool[d] /\ pool[d] \in 1 .. MaxCalls /\ pool[d] # None
    BY <1>1, <1>4 DEF None
  <2> QED
    BY <1>2, <2>1
<1>5. CallsTyped'
  BY DEF Inv, CallsTyped
<1>6. ConnsTyped'
  BY <1>1, <1>2 DEF Inv, ConnsTyped
<1>7. Unserved' /\ Answered'
  BY <1>3 DEF Inv, Unserved, Answered
<1>8. Pooled'
  <2> SUFFICES ASSUME NEW d \in Clients, pool'[d] # None
               PROVE  /\ \A g \in Clients : pool'[g] = pool'[d] => g = d
                      /\ \A f \in {"inbox", "outbox"} : conn'[pool'[d]][f] # None =>
                           /\ calls'[conn'[pool'[d]][f]].client = d
                           /\ calls'[conn'[pool'[d]][f]].status = "waiting"
                      /\ conn'[pool'[d]].inbox = None \/ conn'[pool'[d]].outbox = None
                      /\ conn'[pool'[d]].hung_up = FALSE
    BY DEF Pooled
  <2>1. /\ \A g \in Clients : pool[g] = pool[d] => g = d
        /\ \A f \in {"inbox", "outbox"} : conn[pool[d]][f] # None =>
             /\ calls[conn[pool[d]][f]].client = d
             /\ calls[conn[pool[d]][f]].status = "waiting"
        /\ conn[pool[d]].inbox = None \/ conn[pool[d]].outbox = None
        /\ conn[pool[d]].hung_up = FALSE
    BY <1>4 DEF Inv, Pooled
  <2> QED
    BY <1>4, <2>1
<1>9. Waiting'
  <2> SUFFICES ASSUME NEW n \in DOMAIN calls, calls[n].status = "waiting"
               PROVE  /\ pool'[calls[n].client] # None
                      /\ n \in {conn'[pool'[calls[n].client]].inbox,
                                conn'[pool'[calls[n].client]].outbox}
    BY DEF Waiting
  <2>1. calls[n].client \in Clients /\ waiting(calls[n].client) # {}
    BY DEF Inv, CallsTyped, IsCall, waiting
  <2>2. /\ pool[calls[n].client] # None
        /\ n \in {conn[pool[calls[n].client]].inbox, conn[pool[calls[n].client]].outbox}
    BY DEF Inv, Waiting
  <2>3. pool'[calls[n].client] # None
    BY <2>1, <2>2
  <2> QED
    BY <1>4, <2>1, <2>2, <2>3
<1>10. RoutedBack' /\ DictSet'
  BY RoutedStays DEF Inv, DictSet, SetBy
<1> QED
  BY <1>5, <1>6, <1>7, <1>8, <1>9, <1>10 DEF Inv

(* close() by a client that waits for nothing.                              *)
LEMMA InvClose ==
  ASSUME Inv, NEW c \in Clients, Close(c)
  PROVE  Inv'
<1>1. /\ Len(calls) \in Nat /\ Len(calls) <= MaxCalls /\ MaxCalls \in Nat
      /\ conn \in [1 .. MaxCalls -> Connection(Len(calls))]
      /\ pool \in [Clients -> 0 .. Len(calls)]
  BY Shapes
<1>2. PICK i, x : i = pool[c] /\ x = [conn[i] EXCEPT !.hung_up = TRUE]
  OBVIOUS
<1>3. i \in 1 .. Len(calls) /\ i \in 1 .. MaxCalls
  BY <1>1, <1>2 DEF Close, None
<1>4. conn[i] \in Connection(Len(calls))
  BY <1>1, <1>3
<1>5. /\ x \in Connection(Len(calls))
      /\ x.inbox = conn[i].inbox /\ x.outbox = conn[i].outbox
  BY <1>2, <1>4 DEF Connection
<1>6. /\ conn' = [conn EXCEPT ![i] = x] /\ pool' = [pool EXCEPT ![c] = None]
      /\ key' = key /\ dict' = dict /\ calls' = calls /\ waiting(c) = {} /\ pool[c] # None
  BY <1>1, <1>2, <1>3 DEF Close
<1>7. /\ pool' \in [Clients -> 0 .. Len(calls)] /\ pool'[c] = None
      /\ \A d \in Clients : d # c => pool'[d] = pool[d]
  BY <1>1, <1>6 DEF None
<1>8. \A d \in Clients : pool'[d] # i
  BY <1>2, <1>3, <1>6, <1>7 DEF Inv, Pooled, None
<1> QED
  BY <1>3, <1>5, <1>6, <1>7, <1>8, InvConn

(* A worker begins with a connection, or ends after the client hung up.     *)
LEMMA InvSession ==
  ASSUME Inv, NEW i \in 1 .. MaxCalls, SessionStarts(i) \/ SessionEnds(i)
  PROVE  Inv'
<1>1. /\ Len(calls) \in Nat /\ Len(calls) <= MaxCalls /\ MaxCalls \in Nat
      /\ conn \in [1 .. MaxCalls -> Connection(Len(calls))]
      /\ pool \in [Clients -> 0 .. Len(calls)] /\ conn[i] \in Connection(Len(calls))
  BY Shapes
<1>2. i \in 1 .. Len(calls)
  <2>1. conn[i].state # "none"
    BY DEF SessionStarts, SessionEnds
  <2> QED
    BY <1>1, <2>1 DEF Inv, ConnsTyped, NoConnection
<1>3. key' = key /\ dict' = dict /\ calls' = calls /\ pool' = pool
  BY DEF SessionStarts, SessionEnds
<1>4. CASE SessionStarts(i)
  <2>1. PICK x : x = [conn[i] EXCEPT !.state = "session"]
    OBVIOUS
  <2>2. /\ x \in Connection(Len(calls)) /\ x.hung_up = conn[i].hung_up
        /\ x.inbox = conn[i].inbox /\ x.outbox = conn[i].outbox
    BY <1>1, <2>1 DEF Connection
  <2>3. conn' = [conn EXCEPT ![i] = x]
    BY <1>1, <1>4, <2>1 DEF SessionStarts
  <2> QED
    BY <1>1, <1>2, <1>3, <2>2, <2>3, InvConn
<1>5. CASE SessionEnds(i)
  <2>1. PICK x : x = [NoConnection EXCEPT !.state = "closed"]
    OBVIOUS
  <2>2. x \in Connection(Len(calls)) /\ x.inbox = None /\ x.outbox = None
    <3>1. x = [state |-> "closed", inbox |-> 0, outbox |-> 0, hung_up |-> FALSE]
      BY <2>1 DEF NoConnection, None
    <3>2. 0 \in 0 .. Len(calls)
      BY <1>1
    <3> QED
      BY <3>1, <3>2 DEF Connection, None
  <2>3. conn' = [conn EXCEPT ![i] = x] /\ conn[i].hung_up
    BY <1>5, <2>1 DEF SessionEnds
  <2>4. \A d \in Clients : pool'[d] # i
    <3>1. \A d \in Clients : pool[d] # None => conn[pool[d]].hung_up = FALSE
      BY DEF Inv, Pooled
    <3>2. conn[i].hung_up # FALSE /\ i # None
      BY <1>2, <2>3 DEF None
    <3> QED
      BY <1>3, <3>1, <3>2
  <2> QED
    BY <1>1, <1>2, <1>3, <2>2, <2>3, <2>4, InvConn
<1> QED
  BY <1>4, <1>5

(* A call ends: its connection carries nothing more, or is not kept.        *)
LEMMA InvEnded ==
  ASSUME Inv, key' = key, dict' = dict, NEW c \in Clients, NEW n \in waiting(c),
         NEW e, calls' = [calls EXCEPT ![n] = e], IsCall(e), e.client = c,
         e.op = calls[n].op, e.value = calls[n].value, e.served = calls[n].served,
         e.response = calls[n].response, e.status # "waiting",
         e.status = "returned" => e.served = 1 /\ e.result = told(e),
         NEW i, i = pool[c], NEW x \in Connection(Len(calls)),
         conn' = [conn EXCEPT ![i] = x],
         x.inbox \in {None, conn[i].inbox}, x.outbox \in {None, conn[i].outbox},
         \/ /\ pool' = pool /\ x.inbox = None /\ x.outbox = None
            /\ x.hung_up = conn[i].hung_up
         \/ pool' = [pool EXCEPT ![c] = None]
  PROVE  Inv'
<1>1. /\ Len(calls) \in Nat /\ DOMAIN calls = 1 .. Len(calls) /\ Len(calls) <= MaxCalls
      /\ MaxCalls \in Nat /\ conn \in [1 .. MaxCalls -> Connection(Len(calls))]
      /\ pool \in [Clients -> 0 .. Len(calls)]
  BY Shapes
<1>2. PICK N : N = Len(calls)
  OBVIOUS
<1>3. /\ n \in DOMAIN calls /\ calls[n].client = c /\ calls[n].status = "waiting"
      /\ i \in 1 .. MaxCalls /\ i # None /\ i <= N
      /\ \A m \in DOMAIN calls :
           calls[m].status = "waiting" /\ calls[m].client = c => m = n
  BY <1>1, <1>2, OwnResponse
<1>4. PICK S : calls \in Seq(S)
  BY DEF Inv, CallsTyped
<1>5. /\ calls' \in Seq(S \cup {e}) /\ Len(calls') = N /\ DOMAIN calls' = 1 .. N
      /\ calls'[n] = e /\ \A m \in 1 .. N : m # n => calls'[m] = calls[m]
  BY <1>1, <1>2, <1>3, <1>4, CallUpdated
<1>6. /\ conn' \in [1 .. MaxCalls -> Connection(N)] /\ conn'[i] = x
      /\ \A j \in 1 .. MaxCalls : j # i => conn'[j] = conn[j]
  BY <1>1, <1>2, <1>3
<1>7. \A j \in 1 .. MaxCalls : /\ conn'[j].inbox \in {None, conn[j].inbox}
                               /\ conn'[j].outbox \in {None, conn[j].outbox}
                               /\ conn[j].inbox \in 0 .. N /\ conn[j].outbox \in 0 .. N
  BY <1>1, <1>2, <1>6 DEF Connection
<1>8. /\ pool' \in [Clients -> 0 .. N]
      /\ \A d \in Clients : d # c => pool'[d] = pool[d]
      /\ \A d \in Clients : pool'[d] \in {pool[d], None}
      /\ pool'[c] # None =>
           /\ pool'[c] = i /\ x.inbox = None /\ x.outbox = None
           /\ x.hung_up = conn[i].hung_up
  BY <1>1, <1>2 DEF None
<1>9. \A m \in 1 .. N : calls'[m].served = calls[m].served
  BY <1>5
<1>10. CallsTyped'
  <2>1. \A m \in 1 .. N : IsCall(calls'[m])
    BY <1>1, <1>2, <1>5 DEF Inv, CallsTyped
  <2> QED
    BY <1>1, <1>2, <1>5, <2>1 DEF CallsTyped
<1>11. ConnsTyped'
  BY <1>1, <1>2, <1>3, <1>5, <1>6, <1>8 DEF Inv, ConnsTyped
<1>12. Unserved' /\ Answered'
  <2>1. \A m \in 0 .. N : m # None => calls'[m].served = calls[m].served
    BY <1>1, <1>2, <1>9 DEF None
  <2> QED
    BY <1>7, <2>1 DEF Inv, Unserved, Answered
<1>13. Pooled'
  <2> SUFFICES ASSUME NEW d \in Clients, pool'[d] # None
               PROVE  /\ \A g \in Clients : pool'[g] = pool'[d] => g = d
                      /\ \A f \in {"inbox", "outbox"} : conn'[pool'[d]][f] # None =>
                           /\ calls'[conn'[pool'[d]][f]].client = d
                           /\ calls'[conn'[pool'[d]][f]].status = "waiting"
                      /\ conn'[pool'[d]].inbox = None \/ conn'[pool'[d]].outbox = None
                      /\ conn'[pool'[d]].hung_up = FALSE
    BY DEF Pooled
  <2>1. pool'[d] = pool[d] /\ pool[d] \in 1 .. MaxCalls /\ pool[d] # None
    BY <1>1, <1>8 DEF None
  <2>2. /\ \A g \in Clients : pool[g] = pool[d] => g = d
        /\ \A f \in {"inbox", "outbox"} : conn[pool[d]][f] # None =>
             /\ calls[conn[pool[d]][f]].client = d
             /\ calls[conn[pool[d]][f]].status = "waiting"
        /\ conn[pool[d]].inbox = None \/ conn[pool[d]].outbox = None
        /\ conn[pool[d]].hung_up = FALSE
    BY <2>1 DEF Inv, Pooled
  <2>3. \A g \in Clients : pool'[g] = pool'[d] => g = d
    BY <1>8, <2>1, <2>2
  <2>4. CASE d = c
    BY <1>6, <1>8, <2>1, <2>2, <2>3, <2>4
  <2>5. CASE d # c
    <3>1. conn'[pool[d]] = conn[pool[d]]
      BY <1>6, <2>1, <2>2, <2>5
    <3>2. \A f \in {"inbox", "outbox"} : conn[pool[d]][f] # None =>
             conn[pool[d]][f] \in 1 .. N /\ conn[pool[d]][f] # n
      <4>1. \A f \in {"inbox", "outbox"} : conn[pool[d]][f] \in 0 .. N
        BY <1>7, <2>1
      <4>2. \A f \in {"inbox", "outbox"} : conn[pool[d]][f] # None =>
              calls[conn[pool[d]][f]].client = d
        BY <2>2
      <4> QED
        BY <1>1, <1>2, <1>3, <2>5, <4>1, <4>2 DEF None
    <3>3. \A f \in {"inbox", "outbox"} : conn'[pool'[d]][f] # None =>
             calls'[conn'[pool'[d]][f]] = calls[conn[pool[d]][f]]
      BY <1>5, <2>1, <3>1, <3>2
    <3>4. conn'[pool'[d]] = conn[pool[d]]
      BY <2>1, <3>1
    <3>5. \A f \in {"inbox", "outbox"} : conn'[pool'[d]][f] # None =>
            /\ calls'[conn'[pool'[d]][f]].client = d
            /\ calls'[conn'[pool'[d]][f]].status = "waiting"
      BY <2>2, <3>3, <3>4
    <3> QED
      BY <2>2, <2>3, <3>4, <3>5
  <2> QED
    BY <2>4, <2>5
<1>14. Waiting'
  <2> SUFFICES ASSUME NEW m \in 1 .. N, calls'[m].status = "waiting"
               PROVE  /\ pool'[calls'[m].client] # None
                      /\ m \in {conn'[pool'[calls'[m].client]].inbox,
                                conn'[pool'[calls'[m].client]].outbox}
    BY <1>5 DEF Waiting
  <2>1. /\ m # n /\ calls'[m] = calls[m] /\ m \in DOMAIN calls /\ calls[m].client # c
        /\ calls[m].client \in Clients
    BY <1>1, <1>2, <1>3, <1>5 DEF Inv, CallsTyped, IsCall
  <2>2. /\ pool[calls[m].client] # None
        /\ m \in {conn[pool[calls[m].client]].inbox, conn[pool[calls[m].client]].outbox}
    BY <2>1 DEF Inv, Waiting
  <2>3. /\ pool'[calls[m].client] = pool[calls[m].client]
        /\ pool[calls[m].client] \in 1 .. MaxCalls /\ pool[calls[m].client] # i
    BY <1>1, <1>3, <1>8, <2>1, <2>2 DEF Inv, Pooled, None
  <2> QED
    BY <1>6, <2>1, <2>2, <2>3
<1>15. RoutedBack'
  <2> SUFFICES ASSUME NEW m \in 1 .. N, calls'[m].status = "returned"
               PROVE  calls'[m].served = 1 /\ calls'[m].result = told(calls[m])'
    BY <1>5 DEF RoutedBack
  <2>1. PICK a : a = calls'[m]
    OBVIOUS
  <2>2. told(calls[m])' = told(a)'
    BY <2>1 DEF told
  <2>3. a.served = 1 /\ a.result = told(a)
    BY <1>1, <1>2, <1>5, <2>1 DEF Inv, RoutedBack
  <2> QED
    BY <2>1, <2>2, <2>3, ToldStays
<1>16. DictSet'
  <2> SUFFICES ASSUME NEW k \in DOMAIN dict
               PROVE  SetBy(k)'
    BY DEF DictSet
  <2>1. PICK m \in DOMAIN calls : /\ calls[m].op = "set" /\ calls[m].value = dict[k]
                                 /\ calls[m].response.status = 200 /\ calls[m].served = 1
    BY DEF Inv, DictSet, SetBy
  <2>2. /\ calls'[m].op = "set" /\ calls'[m].value = dict[k]
        /\ calls'[m].response.status = 200 /\ calls'[m].served = 1
    BY <1>1, <1>2, <1>5, <2>1
  <2> QED
    BY <1>1, <1>2, <1>5, <2>1, <2>2 DEF SetBy
<1> QED
  BY <1>10, <1>11, <1>12, <1>13, <1>14, <1>15, <1>16 DEF Inv

(* The response is there, and it is this call's.                            *)
LEMMA InvReturn ==
  ASSUME Inv, NEW c \in Clients, Return(c)
  PROVE  Inv'
<1>1. PICK n \in waiting(c) :
        LET m == conn[pool[c]].outbox
            response == calls[m].response
        IN /\ m # None
           /\ calls' = [calls EXCEPT
                ![n].status = IF response.status = 400 THEN "raised" ELSE "returned",
                ![n].result = IF calls[n].op = "keys" THEN listed(response) ELSE response]
           /\ conn' = [conn EXCEPT ![pool[c]].outbox = None]
           /\ UNCHANGED <<key, dict, pool>>
  BY DEF Return
<1>2. /\ n \in DOMAIN calls /\ calls[n].client = c /\ pool[c] \in 1 .. MaxCalls
      /\ conn[pool[c]].outbox = n /\ conn[pool[c]].inbox = None /\ calls[n].served = 1
  BY <1>1, OwnResponse
<1>0. PICK res : res = told(calls[n])
  OBVIOUS
<1>3. PICK st \in {"raised", "returned"} :
        calls' = [calls EXCEPT ![n].status = st, ![n].result = res]
  BY <1>0, <1>1, <1>2 DEF told
<1>4. PICK e : e = [calls[n] EXCEPT !.status = st, !.result = res]
  OBVIOUS
<1>5. calls' = [calls EXCEPT ![n] = e]
  BY <1>2, <1>3, <1>4
<1>6. IsCall(calls[n])
  BY <1>2 DEF Inv, CallsTyped
<1>7. /\ IsCall(e) /\ e.client = c /\ e.op = calls[n].op /\ e.value = calls[n].value
      /\ e.served = calls[n].served /\ e.response = calls[n].response
      /\ e.status = st /\ e.result = res
  BY <1>2, <1>4, <1>6 DEF IsCall, CallFields
<1>8. PICK i, x : i = pool[c] /\ x = [conn[i] EXCEPT !.outbox = None]
  OBVIOUS
<1>9. Len(calls) \in Nat /\ conn \in [1 .. MaxCalls -> Connection(Len(calls))]
  BY Shapes
<1>10. conn' = [conn EXCEPT ![i] = x]
  BY <1>1, <1>2, <1>8, <1>9
<1>11. /\ x \in Connection(Len(calls)) /\ x.inbox = None /\ x.outbox = None
       /\ x.hung_up = conn[i].hung_up
  <2>1. conn[i] \in Connection(Len(calls)) /\ 0 \in 0 .. Len(calls) /\ conn[i].inbox = None
    BY <1>2, <1>8, <1>9
  <2> QED
    BY <1>8, <2>1 DEF Connection, None
<1>12. key' = key /\ dict' = dict /\ pool' = pool
  BY <1>1
<1>13. e.status # "waiting" /\ e.served = 1 /\ e.result = told(e)
  BY <1>0, <1>2, <1>3, <1>7 DEF told
<1> QED
  BY <1>5, <1>7, <1>8, <1>10, <1>11, <1>12, <1>13, InvEnded

(* The client gives the call and its connection up.                         *)
LEMMA InvTimeout ==
  ASSUME Inv, NEW c \in Clients, Timeout(c)
  PROVE  Inv'
<1>1. PICK n \in waiting(c) :
        /\ calls' = [calls EXCEPT ![n].status =
                       IF calls[n].op = "health" THEN "unhealthy" ELSE "raised"]
        /\ conn' = [conn EXCEPT ![pool[c]].hung_up = TRUE]
        /\ pool' = [pool EXCEPT ![c] = None]
        /\ UNCHANGED <<key, dict>>
  BY DEF Timeout
<1>2. n \in DOMAIN calls /\ calls[n].client = c /\ pool[c] \in 1 .. MaxCalls
  BY OwnResponse
<1>3. PICK st \in {"raised", "unhealthy"} : calls' = [calls EXCEPT ![n].status = st]
  BY <1>1
<1>4. PICK e : e = [calls[n] EXCEPT !.status = st]
  OBVIOUS
<1>5. calls' = [calls EXCEPT ![n] = e]
  BY <1>2, <1>3, <1>4
<1>6. IsCall(calls[n])
  BY <1>2 DEF Inv, CallsTyped
<1>7. /\ IsCall(e) /\ e.client = c /\ e.op = calls[n].op /\ e.value = calls[n].value
      /\ e.served = calls[n].served /\ e.response = calls[n].response
      /\ e.status = st
  BY <1>2, <1>4, <1>6 DEF IsCall, CallFields
<1>8. PICK i, x : i = pool[c] /\ x = [conn[i] EXCEPT !.hung_up = TRUE]
  OBVIOUS
<1>9. Len(calls) \in Nat /\ conn \in [1 .. MaxCalls -> Connection(Len(calls))]
  BY Shapes
<1>10. conn' = [conn EXCEPT ![i] = x]
  BY <1>1, <1>2, <1>8, <1>9
<1>11. /\ x \in Connection(Len(calls)) /\ x.inbox = conn[i].inbox
       /\ x.outbox = conn[i].outbox
  <2>1. conn[i] \in Connection(Len(calls))
    BY <1>2, <1>8, <1>9
  <2> QED
    BY <1>8, <2>1 DEF Connection
<1>12. key' = key /\ dict' = dict /\ pool' = [pool EXCEPT ![c] = None]
  BY <1>1
<1>13. e.status # "waiting" /\ e.status # "returned"
  BY <1>3, <1>7
<1> QED
  BY <1>5, <1>7, <1>8, <1>10, <1>11, <1>12, <1>13, InvEnded

-----------------------------------------------------------------------------
(* handle_set is called for the requests to set only.                       *)
LEMMA SetAsked ==
  ASSUME NEW op \in Ops, NEW verb, NEW query,
         handle_request(path_of(op), verb, query).handler = "set"
  PROVE  op = "set"
<1>1. \A h, q : WithKey(h, q).handler \in {"none", h}
  BY DEF WithKey, Answer, Handle
<1>2. CASE op = "get"
  BY <1>1, <1>2 DEF path_of, handle_request, Answer
<1>3. CASE op = "delete"
  BY <1>1, <1>3 DEF path_of, handle_request, Answer
<1>4. CASE op = "keys"
  BY <1>4 DEF path_of, handle_request, Answer, Handle
<1>5. CASE op = "health"
  BY <1>5 DEF path_of, handle_request, Answer
<1> QED
  BY <1>2, <1>3, <1>4, <1>5 DEF Ops

(* The request leaves the only inbox it is in, and is answered where it     *)
(* came from.                                                               *)
LEMMA InvServe ==
  ASSUME Inv, NEW i \in 1 .. MaxCalls, Serve(i)
  PROVE  Inv'
<1>1. /\ Len(calls) \in Nat /\ DOMAIN calls = 1 .. Len(calls) /\ Len(calls) <= MaxCalls
      /\ MaxCalls \in Nat /\ conn \in [1 .. MaxCalls -> Connection(Len(calls))]
      /\ pool \in [Clients -> 0 .. Len(calls)]
  BY Shapes
<1>2. PICK N, n, asked :
        /\ N = Len(calls) /\ n = conn[i].inbox
        /\ asked = handle_request(path_of(calls[n].op), verb_of(calls[n].op), calls[n].query)
  OBVIOUS
<1>3. /\ conn[i].state = "session" /\ n # None
      /\ calls' = [calls EXCEPT ![n].served = @ + 1, ![n].asked = asked,
                                ![n].query = <<>>, ![n].response = respond(asked)]
      /\ dict' = IF asked.handler = "set" /\ ~stored(asked.key)
                   THEN [x \in DOMAIN dict \cup {asked.key} |->
                           IF x = asked.key THEN calls[n].value ELSE dict[x]]
                 ELSE IF asked.handler = "delete"
                   THEN [x \in DOMAIN dict \ {asked.key} |-> dict[x]]
                 ELSE dict
      /\ conn' = [conn EXCEPT ![i].inbox = None, ![i].outbox = n]
      /\ pool' = pool /\ key' = key
  BY <1>2 DEF Serve
<1>s. conn[i].state = "session" /\ n # None /\ pool' = pool /\ key' = key
  BY <1>3
<1>4. /\ n \in DOMAIN calls /\ n \in 1 .. N /\ calls[n].served = 0
      /\ \A j \in 1 .. MaxCalls : conn[j].inbox = n => j = i
  <2>1. conn[i] \in Connection(N)
    BY <1>1, <1>2
  <2>2. n \in DOMAIN calls /\ n \in 1 .. N
    BY <1>1, <1>2, <1>s, <2>1 DEF Connection, None
  <2> QED
    BY <1>2, <1>s, <2>2 DEF Inv, Unserved
<1>5. IsCall(calls[n])
  BY <1>4 DEF Inv, CallsTyped
<1>6. PICK e : e = [calls[n] EXCEPT !.served = 1, !.asked = asked,
                                    !.query = <<>>, !.response = respond(asked)]
  OBVIOUS
<1>7. calls' = [calls EXCEPT ![n] = e]
  <2>1. calls' = [calls EXCEPT ![n] =
                   [calls[n] EXCEPT !.served = calls[n].served + 1, !.asked = asked,
                                    !.query = <<>>, !.response = respond(asked)]]
    BY <1>3
  <2>2. calls[n].served + 1 = 1
    BY <1>4
  <2> QED
    BY <1>6, <2>1, <2>2
<1>8. /\ IsCall(e) /\ e.client = calls[n].client /\ e.op = calls[n].op
      /\ e.value = calls[n].value /\ e.status = calls[n].status /\ e.served = 1
      /\ e.response = respond(asked)
  <2> DEFINE y == [calls[n] EXCEPT !.asked = asked, !.query = <<>>]
  <2>1. /\ IsCall(y) /\ y.client = calls[n].client /\ y.op = calls[n].op
        /\ y.value = calls[n].value /\ y.status = calls[n].status
    BY <1>5 DEF IsCall, CallFields
  <2>2. e = [y EXCEPT !.served = 1, !.response = respond(asked)]
    BY <1>6
  <2> HIDE DEF y
  <2> QED
    BY <2>1, <2>2 DEF IsCall, CallFields
<1>9. PICK S : calls \in Seq(S)
  BY DEF Inv, CallsTyped
<1>10. /\ calls' \in Seq(S \cup {e}) /\ Len(calls') = N /\ DOMAIN calls' = 1 .. N
       /\ calls'[n] = e /\ \A m \in 1 .. N : m # n => calls'[m] = calls[m]
  BY <1>1, <1>2, <1>4, <1>7, <1>9, CallUpdated
<1>11. /\ conn' \in [1 .. MaxCalls -> Connection(N)]
       /\ conn'[i].inbox = None /\ conn'[i].outbox = n
       /\ conn'[i].hung_up = conn[i].hung_up
       /\ \A j \in 1 .. MaxCalls : j # i => conn'[j] = conn[j]
  <2>1. PICK x : x = [conn[i] EXCEPT !.inbox = None, !.outbox = n]
    OBVIOUS
  <2>2. conn' = [conn EXCEPT ![i] = x]
    BY <1>1, <1>3, <2>1
  <2>3. conn[i] \in Connection(N) /\ 0 \in 0 .. N /\ n \in 0 .. N
    BY <1>1, <1>2, <1>4
  <2>4. /\ x \in Connection(N) /\ x.inbox = None /\ x.outbox = n
        /\ x.hung_up = conn[i].hung_up
    BY <2>1, <2>3 DEF Connection, None
  <2> QED
    BY <1>1, <1>2, <2>2, <2>4
<1>12. \A j \in 1 .. MaxCalls : conn[j].inbox \in 0 .. N /\ conn[j].outbox \in 0 .. N
  BY <1>1, <1>2 DEF Connection
<1>13. CallsTyped'
  <2>1. \A m \in 1 .. N : IsCall(calls'[m])
    BY <1>1, <1>2, <1>8, <1>10 DEF Inv, CallsTyped
  <2> QED
    BY <1>1, <1>2, <1>10, <2>1 DEF CallsTyped
<1>14. ConnsTyped'
  <2>1. i <= N
    BY <1>1, <1>2, <1>s DEF Inv, ConnsTyped, NoConnection
  <2>2. \A j \in 1 .. MaxCalls : j > N => conn'[j] = NoConnection
    BY <1>1, <1>2, <1>11, <2>1 DEF Inv, ConnsTyped
  <2> QED
    BY <1>1, <1>2, <1>s, <1>10, <1>11, <2>2 DEF ConnsTyped
<1>15. Unserved'
  <2>1. \A j \in 1 .. MaxCalls : conn'[j].inbox # None =>
          /\ j # i /\ conn'[j].inbox = conn[j].inbox
          /\ conn[j].inbox \in 1 .. N /\ conn[j].inbox # n
    BY <1>4, <1>11, <1>12 DEF None
  <2>2. \A j \in 1 .. MaxCalls : conn'[j].inbox # None =>
          calls'[conn'[j].inbox].served = 0
    BY <1>10, <2>1 DEF Inv, Unserved
  <2>3. \A j, l \in 1 .. MaxCalls :
          conn'[j].inbox # None /\ conn'[l].inbox = conn'[j].inbox => l = j
    BY <2>1 DEF Inv, Unserved
  <2> QED
    BY <2>2, <2>3 DEF Unserved
<1>16. Answered'
  <2>1. \A m \in 1 .. N : calls[m].served = 1 => calls'[m].served = 1
    BY <1>8, <1>10
  <2>2. ASSUME NEW j \in 1 .. MaxCalls, j # i, conn'[j].outbox # None
        PROVE  calls'[conn'[j].outbox].served = 1
    <3>1. conn'[j].outbox = conn[j].outbox /\ conn[j].outbox \in 1 .. N
      BY <1>11, <1>12, <2>2 DEF None
    <3> QED
      BY <2>1, <2>2, <3>1 DEF Inv, Answered
  <2> QED
    BY <1>8, <1>10, <1>11, <2>2 DEF Answered
<1>17. \A m \in 1 .. N : /\ calls'[m].client = calls[m].client
                         /\ calls'[m].status = calls[m].status
  BY <1>8, <1>10
<1>18. Pooled'
  <2> SUFFICES ASSUME NEW d \in Clients, pool[d] # None
               PROVE  /\ \A g \in Clients : pool[g] = pool[d] => g = d
                      /\ \A f \in {"inbox", "outbox"} : conn'[pool[d]][f] # None =>
                           /\ calls'[conn'[pool[d]][f]].client = d
                           /\ calls'[conn'[pool[d]][f]].status = "waiting"
                      /\ conn'[pool[d]].inbox = None \/ conn'[pool[d]].outbox = None
                      /\ conn'[pool[d]].hung_up = FALSE
    BY <1>s DEF Pooled
  <2>1. pool[d] \in 1 .. MaxCalls
    BY <1>1 DEF None
  <2>2. /\ \A g \in Clients : pool[g] = pool[d] => g = d
        /\ \A f \in {"inbox", "outbox"} : conn[pool[d]][f] # None =>
             /\ calls[conn[pool[d]][f]].client = d
             /\ calls[conn[pool[d]][f]].status = "waiting"
        /\ conn[pool[d]].inbox = None \/ conn[pool[d]].outbox = None
        /\ conn[pool[d]].hung_up = FALSE
    BY DEF Inv, Pooled
  <2>3. CASE pool[d] = i
    <3>1. calls[n].client = d /\ calls[n].status = "waiting"
      BY <1>2, <1>s, <2>2, <2>3
    <3> QED
      BY <1>4, <1>11, <1>17, <2>2, <2>3, <3>1
  <2>4. CASE pool[d] # i
    <3>1. conn'[pool[d]] = conn[pool[d]]
      BY <1>11, <2>1, <2>4
    <3>2. \A f \in {"inbox", "outbox"} : conn[pool[d]][f] # None =>
            conn[pool[d]][f] \in 1 .. N
      BY <1>1, <1>2, <1>12, <2>1 DEF None
    <3> QED
      BY <1>17, <2>2, <3>1, <3>2
  <2> QED
    BY <2>3, <2>4
<1>19. Waiting'
  <2> SUFFICES ASSUME NEW m \in 1 .. N, calls[m].status = "waiting"
               PROVE  /\ pool[calls[m].client] # None
                      /\ m \in {conn'[pool[calls[m].client]].inbox,
                                conn'[pool[calls[m].client]].outbox}
    BY <1>s, <1>10, <1>17 DEF Waiting
  <2>1. m \in DOMAIN calls /\ calls[m].client \in Clients
    BY <1>1, <1>2 DEF Inv, CallsTyped, IsCall
  <2>2. /\ pool[calls[m].client] # None
        /\ m \in {conn[pool[calls[m].client]].inbox, conn[pool[calls[m].client]].outbox}
    BY <2>1 DEF Inv, Waiting
  <2>3. pool[calls[m].client] \in 1 .. MaxCalls
    BY <1>1, <2>1, <2>2 DEF None
  <2>4. CASE pool[calls[m].client] = i
    <3>1. conn[i].outbox = None
      BY <1>2, <1>s, <2>1, <2>2, <2>4 DEF Inv, Pooled
    <3>2. m # None
      BY <1>1, <1>2 DEF None
    <3> QED
      BY <1>2, <1>11, <2>2, <2>4, <3>1, <3>2
  <2>5. CASE pool[calls[m].client] # i
    BY <1>11, <2>2, <2>3, <2>5
  <2> QED
    BY <2>4, <2>5
<1>20. RoutedBack'
  <2>1. calls[n].status # "returned"
    BY <1>4 DEF Inv, RoutedBack
  <2> SUFFICES ASSUME NEW m \in 1 .. N, calls'[m].status = "returned"
               PROVE  calls'[m].served = 1 /\ calls'[m].result = told(calls[m])'
    BY <1>10 DEF RoutedBack
  <2>2. PICK a : a = calls'[m]
    OBVIOUS
  <2>3. told(calls[m])' = told(a)'
    BY <2>2 DEF told
  <2>4. a.served = 1 /\ a.result = told(a)
    BY <1>1, <1>2, <1>8, <1>10, <2>1, <2>2 DEF Inv, RoutedBack
  <2> QED
    BY <1>s, <2>2, <2>3, <2>4, ToldStays
<1>21. DictSet'
  <2> SUFFICES ASSUME NEW k \in DOMAIN dict'
               PROVE  \E m \in 1 .. N : /\ calls'[m].op = "set" /\ calls'[m].value = dict'[k]
                                        /\ calls'[m].response.status = 200
                                        /\ calls'[m].served = 1
    BY <1>10 DEF DictSet, SetBy
  <2>1. CASE k \in DOMAIN dict /\ dict'[k] = dict[k]
    <3>1. PICK m \in DOMAIN calls : /\ calls[m].op = "set" /\ calls[m].value = dict[k]
                                   /\ calls[m].response.status = 200 /\ calls[m].served = 1
      BY <2>1 DEF Inv, DictSet, SetBy
    <3>2. m \in 1 .. N /\ m # n /\ calls'[m] = calls[m]
      BY <1>1, <1>2, <1>4, <1>10, <3>1
    <3> QED
      BY <2>1, <3>1, <3>2
  <2>2. CASE ~(k \in DOMAIN dict /\ dict'[k] = dict[k])
    <3>1. /\ asked.handler = "set" /\ ~stored(asked.key) /\ k = asked.key
          /\ dict'[k] = calls[n].value
      BY <1>3, <2>2 DEF stored
    <3>2. calls[n].op = "set"
      <4>1. calls[n].op \in Ops
        BY <1>5 DEF IsCall
      <4> QED
        BY <1>2, <3>1, <4>1, SetAsked
    <3>3. respond(asked).status = 200
      BY <3>1 DEF respond, Response
    <3> QED
      BY <1>4, <1>8, <1>10, <3>1, <3>2, <3>3
  <2> QED
    BY <2>1, <2>2
<1> QED
  BY <1>13, <1>14, <1>15, <1>16, <1>18, <1>19, <1>20, <1>21 DEF Inv

-----------------------------------------------------------------------------
(* The invariant is preserved by every step.                                *)
LEMMA InvNext ==
  ASSUME Inv, [Next]_vars
  PROVE  Inv'
<1>1. CASE UNCHANGED vars
  <2>1. key' = key /\ dict' = dict /\ calls' = calls /\ conn' = conn /\ pool' = pool
    BY <1>1 DEF vars
  <2> QED
    BY <2>1, RoutedStays DEF Inv, CallsTyped, ConnsTyped, Unserved, Answered,
                             Pooled, Waiting, DictSet, SetBy
<1>2. ASSUME NEW c \in Clients, Requests(c)
      PROVE  Inv'
  <2>1. waiting(c) = {} /\ Len(calls) < call_bound
    BY <1>2 DEF Requests
  <2>2. PICK op, v, query : op \in Ops /\ Call(c, op, v, query)
    BY <1>2 DEF Requests, Ops
  <2> QED
    BY <2>1, <2>2, InvCall
<1>3. ASSUME NEW c \in Clients, Return(c) \/ Timeout(c) \/ Close(c)
      PROVE  Inv'
  BY <1>3, InvReturn, InvTimeout, InvClose
<1>4. ASSUME NEW i \in 1 .. MaxCalls, SessionStarts(i) \/ Serve(i) \/ SessionEnds(i)
      PROVE  Inv'
  BY <1>4, InvSession, InvServe
<1> QED
  BY <1>1, <1>2, <1>3, <1>4 DEF Next

(* The invariant holds always.                                              *)
LEMMA InvAlways == Spec => []Inv
  BY InvInit, InvNext, PTL DEF Spec

(****************************************************************************)
(* DiskHashClient and the server serve a request at most once, whatever     *)
(* times out, and every value in the store was set by one call that was not *)
(* told otherwise.                                                          *)
(****************************************************************************)
THEOREM RequestsServedOnce == Spec => []ServedOnce
<1>1. ASSUME Inv
      PROVE  ServedOnce
  <2>1. \A n \in DOMAIN calls : calls[n].served <= 1
    BY <1>1 DEF Inv, CallsTyped, IsCall
  <2>2. ASSUME NEW k \in DOMAIN dict
        PROVE  \E n \in DOMAIN calls :
                 /\ calls[n].op = "set" /\ calls[n].value = dict[k]
                 /\ calls[n].response.status = 200 /\ calls[n].served = 1
                 /\ calls[n].status = "returned" => calls[n].result.status = 200
    <3>1. PICK n \in DOMAIN calls : /\ calls[n].op = "set" /\ calls[n].value = dict[k]
                                   /\ calls[n].response.status = 200 /\ calls[n].served = 1
      BY <1>1 DEF Inv, DictSet, SetBy
    <3>2. calls[n].status = "returned" => calls[n].result = calls[n].response
      BY <1>1, <3>1 DEF Inv, RoutedBack, told
    <3> QED
      BY <3>1, <3>2
  <2> QED
    BY <2>1, <2>2 DEF ServedOnce
<1> QED
  BY <1>1, InvAlways, PTL

(****************************************************************************)
(* A method of DiskHashClient that returns after any number of timeouts     *)
(* returns the response the server gave to the request of this very call.   *)
(****************************************************************************)
THEOREM ResponsesRoutedBack == Spec => []RoutedBack
<1>1. Inv => RoutedBack
  BY DEF Inv
<1> QED
  BY <1>1, InvAlways, PTL
-----------------------------------------------------------------------------
(* A call about the key carries one of its writings until it is served;     *)
(* then the handler had the key, and a listing held no other.               *)
Meant(e) ==
    /\ e.op \in {"get", "set", "delete"} =>
         IF e.served = 0 THEN e.query \in Queries(key)
         ELSE e.asked = IF key = <<>> THEN Answer(400) ELSE Handle(e.op, key)
    /\ e.op = "keys" /\ e.served = 1 =>
         /\ e.response.status = 200
         /\ e.response.body \subseteq {base64url_encode(key)}

(* Nothing but the key the callers use is ever stored.                      *)
KeyInv ==
    /\ key \in Keys
    /\ \A n \in DOMAIN calls : Meant(calls[n])
    /\ DOMAIN dict \subseteq {key}

(* Meant depends on nothing but the key and four fields of the call.        *)
LEMMA MeantStays ==
  ASSUME NEW a, NEW b, Meant(a), key' = key, b.op = a.op, b.served = a.served,
         b.query = a.query, b.asked = a.asked, b.response = a.response
  PROVE  Meant(b)'
  BY DEF Meant

(* What a caller sends is one of the writings of the key.                   *)
LEMMA QueriesOfKey ==
  ASSUME NEW c
  PROVE  queries(c) \subseteq Queries(key)
<1>1. encode_key(key) \in Writings(key)
  BY DEF Writings
<1>2. <<[name |-> "key", value |-> encode_key(key)]>> \in Queries(key)
  BY <1>1 DEF Queries
<1> QED
  BY <1>2 DEF queries

(* The handler of a request about a key is called with what was decoded.    *)
LEMMA KeyAsked ==
  ASSUME CodecsInvert, key \in Keys, NEW op \in {"get", "set", "delete"},
         NEW query \in Queries(key)
  PROVE  handle_request(path_of(op), verb_of(op), query)
           = IF key = <<>> THEN Answer(400) ELSE Handle(op, key)
<1>1. WithKey(op, query) = IF key = <<>> THEN Answer(400) ELSE Handle(op, key)
  BY DEF CodecsInvert, RoundTrip
<1>2. CASE op = "get"
  BY <1>1, <1>2 DEF handle_request, path_of, verb_of
<1>3. CASE op = "set"
  BY <1>1, <1>3 DEF handle_request, path_of, verb_of
<1>4. CASE op = "delete"
  BY <1>1, <1>4 DEF handle_request, path_of, verb_of
<1> QED
  BY <1>2, <1>3, <1>4

(* The other requests are for no key.                                       *)
LEMMA NoKeyAsked ==
  ASSUME NEW query
  PROVE  /\ handle_request(path_of("keys"), verb_of("keys"), query) = Handle("keys", <<>>)
         /\ handle_request(path_of("health"), verb_of("health"), query) = Answer(200)
  BY DEF handle_request, path_of, verb_of

LEMMA KeyInvCall ==
  ASSUME Inv, KeyInv, NEW c \in Clients, Requests(c)
  PROVE  KeyInv'
<1>1. PICK op, v, query : /\ op \in Ops /\ Call(c, op, v, query)
                          /\ op \in {"get", "set", "delete"} => query \in queries(c)
  BY DEF Requests, Ops
<1>2. PICK N, e : N = Len(calls) /\ e = NewCall(c, op, v, query)
  OBVIOUS
<1>3. calls' = Append(calls, e) /\ key' = key /\ dict' = dict
  BY <1>1, <1>2 DEF Call
<1>4. PICK S : calls \in Seq(S)
  BY DEF Inv, CallsTyped
<1>5. /\ N \in Nat /\ DOMAIN calls = 1 .. N /\ DOMAIN calls' = 1 .. N + 1
      /\ calls'[N + 1] = e /\ \A n \in 1 .. N : calls'[n] = calls[n]
  BY <1>2, <1>3, <1>4, CallAppended
<1>6. e.op = op /\ e.served = 0 /\ e.query = query
  BY <1>2 DEF NewCall
<1>7. Meant(e)'
  BY <1>1, <1>3, <1>6, QueriesOfKey DEF Meant
<1>8. ASSUME NEW n \in 1 .. N
      PROVE  Meant(calls[n])'
  <2>1. PICK a : a = calls[n]
    OBVIOUS
  <2>2. Meant(a)'
    BY <1>3, <1>5, <2>1, MeantStays DEF KeyInv
  <2>3. calls'[n] = a
    BY <1>5, <2>1
  <2> QED
    BY <2>2, <2>3 DEF Meant
<1>9. \A n \in 1 .. N + 1 : Meant(calls[n])'
  <2>1. Meant(calls[N + 1])'
    BY <1>5, <1>7 DEF Meant
  <2> QED
    BY <1>5, <1>8, <2>1
<1> QED
  BY <1>3, <1>5, <1>9 DEF KeyInv

(* A call that ends was meant, or not, before.                              *)
LEMMA KeyInvEnd ==
  ASSUME Inv, KeyInv, key' = key, dict' = dict, NEW n \in DOMAIN calls,
         NEW st, NEW res,
         \/ calls' = [calls EXCEPT ![n].status = st]
         \/ calls' = [calls EXCEPT ![n].status = st, ![n].result = res]
  PROVE  KeyInv'
<1>1. PICK a, e : /\ a = calls[n] /\ calls' = [calls EXCEPT ![n] = e]
                  /\ \/ e = [a EXCEPT !.status = st]
                     \/ e = [a EXCEPT !.status = st, !.result = res]
  OBVIOUS
<1>2. a = [f \in CallFields |-> a[f]]
  BY <1>1 DEF Inv, CallsTyped, IsCall
<1>3. /\ e.op = a.op /\ e.served = a.served /\ e.query = a.query
      /\ e.asked = a.asked /\ e.response = a.response
  BY <1>1, <1>2 DEF CallFields
<1>4. PICK S : calls \in Seq(S)
  BY DEF Inv, CallsTyped
<1>5. /\ DOMAIN calls' = DOMAIN calls /\ calls'[n] = e
      /\ \A m \in DOMAIN calls \ {n} : calls'[m] = calls[m]
  BY <1>1, <1>4, CallUpdated
<1>6. Meant(e)'
  BY <1>1, <1>3, MeantStays DEF KeyInv
<1>7. ASSUME NEW m \in DOMAIN calls
      PROVE  Meant(calls[m])'
  <2>1. CASE m = n
    BY <1>5, <1>6, <2>1 DEF Meant
  <2>2. CASE m # n
    <3>1. PICK b : b = calls[m]
      OBVIOUS
    <3>2. Meant(b)'
      BY <3>1, MeantStays DEF KeyInv
    <3>3. calls'[m] = b
      BY <1>5, <2>2, <3>1
    <3> QED
      BY <3>2, <3>3 DEF Meant
  <2> QED
    BY <2>1, <2>2
<1> QED
  BY <1>5, <1>7 DEF KeyInv

(* The handlers see the key, and store no other.                            *)
LEMMA KeyInvServe ==
  ASSUME CodecsInvert, Inv, KeyInv, NEW i \in 1 .. MaxCalls, Serve(i)
  PROVE  KeyInv'
<1>1. PICK n, a, asked :
        /\ n = conn[i].inbox /\ a = calls[n]
        /\ asked = handle_request(path_of(a.op), verb_of(a.op), a.query)
  OBVIOUS
<1>2. /\ n # None /\ key' = key
      /\ calls' = [calls EXCEPT ![n].served = @ + 1, ![n].asked = asked,
                                ![n].query = <<>>, ![n].response = respond(asked)]
      /\ dict' = IF asked.handler = "set" /\ ~stored(asked.key)
                   THEN [x \in DOMAIN dict \cup {asked.key} |->
                           IF x = asked.key THEN calls[n].value ELSE dict[x]]
                 ELSE IF asked.handler = "delete"
                   THEN [x \in DOMAIN dict \ {asked.key} |-> dict[x]]
                 ELSE dict
  BY <1>1 DEF Serve
<1>3. n \in DOMAIN calls /\ a.served = 0
  <2>1. conn[i] \in Connection(Len(calls)) /\ DOMAIN calls = 1 .. Len(calls) /\ n # None
    BY <1>2, Shapes
  <2>2. n \in DOMAIN calls
    BY <1>1, <2>1 DEF Connection, None
  <2> QED
    BY <1>1, <2>1, <2>2 DEF Inv, Unserved
<1>4. IsCall(a) /\ Meant(a)
  BY <1>1, <1>3 DEF Inv, CallsTyped, KeyInv
<1>5. PICK e : e = [a EXCEPT !.served = 1, !.asked = asked,
                             !.query = <<>>, !.response = respond(asked)]
  OBVIOUS
<1>6. calls' = [calls EXCEPT ![n] = e]
  <2>1. a.served + 1 = 1
    BY <1>3
  <2> QED
    BY <1>1, <1>2, <1>5, <2>1
<1>7. e.op = a.op /\ e.served = 1 /\ e.asked = asked /\ e.response = respond(asked)
  BY <1>4, <1>5 DEF IsCall, CallFields
<1>8. a.op \in {"get", "set", "delete"} =>
        asked = IF key = <<>> THEN Answer(400) ELSE Handle(a.op, key)
  BY <1>1, <1>3, <1>4, KeyAsked DEF Meant, KeyInv
<1>9. /\ a.op = "keys" => asked = Handle("keys", <<>>)
      /\ a.op = "health" => asked = Answer(200)
  BY <1>1, NoKeyAsked
<1>10. Meant(e)'
  <2>1. a.op = "keys" =>
          /\ respond(asked).status = 200
          /\ respond(asked).body \subseteq {base64url_encode(key)}
    <3> SUFFICES ASSUME a.op = "keys"
                 PROVE  /\ respond(asked).status = 200
                        /\ respond(asked).body \subseteq {base64url_encode(key)}
      OBVIOUS
    <3>1. asked.handler = "keys"
      BY <1>9 DEF Handle
    <3>2. respond(asked) = Response(200, {base64url_encode(line) : line \in DOMAIN dict})
      BY <3>1 DEF respond
    <3>3. DOMAIN dict \subseteq {key}
      BY DEF KeyInv
    <3> QED
      BY <3>2, <3>3 DEF Response
  <2> QED
    BY <1>2, <1>7, <1>8, <2>1 DEF Meant
<1>11. DOMAIN dict' \subseteq {key}
  <2>1. asked.handler = "set" => asked.key = key
    <3>1. a.op \in Ops
      BY <1>4 DEF IsCall
    <3>2. CASE a.op \in {"get", "set", "delete"}
      BY <1>8, <3>2 DEF Answer, Handle
    <3>3. CASE a.op \in {"keys", "health"}
      BY <1>9, <3>3 DEF Answer, Handle
    <3> QED
      BY <3>1, <3>2, <3>3 DEF Ops
  <2> QED
    BY <1>2, <2>1 DEF KeyInv
<1>12. PICK S : calls \in Seq(S)
  BY DEF Inv, CallsTyped
<1>13. /\ DOMAIN calls' = DOMAIN calls /\ calls'[n] = e
       /\ \A m \in DOMAIN calls \ {n} : calls'[m] = calls[m]
  BY <1>3, <1>6, <1>12, CallUpdated
<1>14. ASSUME NEW m \in DOMAIN calls
       PROVE  Meant(calls[m])'
  <2>1. CASE m = n
    BY <1>10, <1>13, <2>1 DEF Meant
  <2>2. CASE m # n
    <3>1. PICK b : b = calls[m]
      OBVIOUS
    <3>2. Meant(b)'
      BY <1>2, <3>1, MeantStays DEF KeyInv
    <3>3. calls'[m] = b
      BY <1>13, <2>2, <3>1
    <3> QED
      BY <3>2, <3>3 DEF Meant
  <2> QED
    BY <2>1, <2>2
<1> QED
  BY <1>2, <1>11, <1>13, <1>14 DEF KeyInv

LEMMA KeyInvNext ==
  ASSUME CodecsInvert, Inv, KeyInv, [Next]_vars
  PROVE  KeyInv'
<1>1. ASSUME key' = key, dict' = dict, calls' = calls
      PROVE  KeyInv'
  BY <1>1 DEF KeyInv, Meant
<1>2. CASE UNCHANGED vars
  BY <1>1, <1>2 DEF vars
<1>3. ASSUME NEW c \in Clients, Requests(c)
      PROVE  KeyInv'
  BY <1>3, KeyInvCall
<1>4. ASSUME NEW c \in Clients, Return(c)
      PROVE  KeyInv'
  <2>1. PICK n \in waiting(c) :
          LET m == conn[pool[c]].outbox
              response == calls[m].response
          IN /\ calls' = [calls EXCEPT
                  ![n].status = IF response.status = 400 THEN "raised" ELSE "returned",
                  ![n].result = IF calls[n].op = "keys" THEN listed(response) ELSE response]
             /\ UNCHANGED <<key, dict, pool>>
    BY <1>4 DEF Return
  <2>2. PICK st, res :
          /\ st = IF calls[conn[pool[c]].outbox].response.status = 400
                    THEN "raised" ELSE "returned"
          /\ res = IF calls[n].op = "keys" THEN listed(calls[conn[pool[c]].outbox].response)
                   ELSE calls[conn[pool[c]].outbox].response
    OBVIOUS
  <2>3. calls' = [calls EXCEPT ![n].status = st, ![n].result = res]
    BY <2>1, <2>2
  <2>4. n \in DOMAIN calls /\ key' = key /\ dict' = dict
    BY <2>1 DEF waiting
  <2> QED
    BY <2>3, <2>4, KeyInvEnd
<1>5. ASSUME NEW c \in Clients, Timeout(c)
      PROVE  KeyInv'
  <2>1. PICK n \in waiting(c) :
          \E st : key' = key /\ dict' = dict
                  /\ calls' = [calls EXCEPT ![n].status = st]
    BY <1>5 DEF Timeout
  <2>2. PICK st :
          key' = key /\ dict' = dict /\ calls' = [calls EXCEPT ![n].status = st]
    BY <2>1
  <2>3. n \in DOMAIN calls
    BY DEF waiting
  <2> QED
    BY <2>2, <2>3, KeyInvEnd
<1>6. ASSUME NEW c \in Clients, Close(c)
      PROVE  KeyInv'
  BY <1>1, <1>6 DEF Close
<1>7. ASSUME NEW i \in 1 .. MaxCalls, SessionStarts(i) \/ SessionEnds(i)
      PROVE  KeyInv'
  BY <1>1, <1>7 DEF SessionStarts, SessionEnds
<1>8. ASSUME NEW i \in 1 .. MaxCalls, Serve(i)
      PROVE  KeyInv'
  BY <1>8, KeyInvServe
<1> QED
  BY <1>2, <1>3, <1>4, <1>5, <1>6, <1>7, <1>8 DEF Next

LEMMA KeyInvAlways ==
  ASSUME CodecsInvert
  PROVE  Spec => []KeyInv
<1>1. Init => KeyInv
  BY DEF Init, KeyInv
<1>2. Inv /\ KeyInv /\ [Next]_vars => KeyInv'
  BY KeyInvNext
<1> QED
  BY <1>1, <1>2, InvAlways, PTL DEF Spec

(****************************************************************************)
(* If the codecs invert each other on the keys in use, then each handler is *)
(* called with the key its caller meant, whatever times out, is served late *)
(* or is sent by whom.                                                      *)
(****************************************************************************)
THEOREM KeysArrive ==
  ASSUME CodecsInvert
  PROVE  Spec => []KeyArrives
<1>1. Inv /\ KeyInv => KeyArrives
  BY DEF Inv, CallsTyped, IsCall, KeyInv, Meant, KeyArrives
<1> QED
  BY <1>1, InvAlways, KeyInvAlways, PTL

(****************************************************************************)
(* If the codecs invert each other on the keys in use, then a method of     *)
(* DiskHashClient that returns, returns what the server answered to this    *)
(* very call: a listing, after encoding and decoding, the keys that were    *)
(* there.                                                                   *)
(****************************************************************************)
THEOREM AnswersReturned ==
  ASSUME CodecsInvert
  PROVE  Spec => []ReturnsItsAnswer
<1>1. ASSUME Inv, KeyInv
      PROVE  ReturnsItsAnswer
  <2> SUFFICES ASSUME NEW n \in DOMAIN calls, calls[n].status = "returned"
               PROVE  calls[n].served = 1 /\ calls[n].result = answer(n)
    BY DEF ReturnsItsAnswer
  <2>1. calls[n].served = 1 /\ calls[n].result = told(calls[n])
    BY <1>1 DEF Inv, RoutedBack
  <2>2. CASE calls[n].op # "keys"
    BY <2>1, <2>2 DEF told, answer
  <2>3. CASE calls[n].op = "keys"
    <3>1. PICK r : r = calls[n].response
      OBVIOUS
    <3>2. r.status = 200 /\ r.body \subseteq {base64url_encode(key)}
      BY <1>1, <2>1, <2>3, <3>1 DEF KeyInv, Meant
    <3>3. decode_key(base64url_encode(key), candidates) = {key}
      BY <1>1 DEF KeyInv, CodecsInvert, RoundTrip, candidates
    <3>4. UNION {decode_key(line, candidates) : line \in r.body}
            = IF r.body = {} THEN {} ELSE {key}
      <4>1. CASE r.body = {}
        BY <4>1
      <4>2. CASE r.body = {base64url_encode(key)}
        BY <3>3, <4>2
      <4> QED
        BY <3>2, <4>1, <4>2
    <3>5. listed(r) = Response(200, IF r.body = {} THEN {} ELSE {key})
      BY <3>2, <3>4 DEF listed
    <3> QED
      BY <2>1, <2>3, <3>1, <3>5 DEF told, answer
  <2> QED
    BY <2>1, <2>2, <2>3
<1> QED
  BY <1>1, InvAlways, KeyInvAlways, PTL
=============================================================================
