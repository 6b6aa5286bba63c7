---------------------------- MODULE KeyValueStore ---------------------------
(***************************************************************************)
(* What my_redis promises: a map in memory that many sessions share, each  *)
(* request taking effect at one instant, at most once.  A session that is  *)
(* told of an error cannot know whether its request has had its effect or  *)
(* will have it; the map is empty again after a crash of the server.       *)
(***************************************************************************)
CONSTANTS Sessions, Keys, Values, None, Nil, Error

VARIABLES
  store,    \* the map, Nil where there is no value
  call,     \* the request of each session, or None
  reply,    \* what the map replied to it, or None
  result    \* what the session was told: the reply, Error, or None so far

Empty == [k \in Keys |-> Nil]
Requests == [op : {"get"}, key : Keys] \cup [op : {"set"}, key : Keys, val : Values]

ReplyTo(r, map) == IF r.op = "get" THEN map[r.key] ELSE "OK"
MapAfter(r, map) == IF r.op = "get" THEN map ELSE [map EXCEPT ![r.key] = r.val]

Init ==
  /\ store = Empty
  /\ call = [s \in Sessions |-> None]
  /\ reply = [s \in Sessions |-> None]
  /\ result = [s \in Sessions |-> None]

Call(s) ==
  /\ call[s] = None
  /\ \E r \in Requests : call' = [call EXCEPT ![s] = r]
  /\ UNCHANGED <<store, reply, result>>

Apply(s) ==
  /\ call[s] # None /\ reply[s] = None
  /\ reply' = [reply EXCEPT ![s] = ReplyTo(call[s], store)]
  /\ store' = MapAfter(call[s], store)
  /\ UNCHANGED <<call, result>>

Return(s) ==
  /\ reply[s] # None /\ result[s] = None
  /\ result' = [result EXCEPT ![s] = reply[s]]
  /\ UNCHANGED <<store, call, reply>>

Fail(s) ==
  /\ call[s] # None /\ result[s] = None
  /\ result' = [result EXCEPT ![s] = Error]
  /\ UNCHANGED <<store, call, reply>>

Lose == store' = Empty /\ UNCHANGED <<call, reply, result>>

Next == Lose \/ \E s \in Sessions : Call(s) \/ Apply(s) \/ Return(s) \/ Fail(s)

Spec == Init /\ [][Next]_<<store, call, reply, result>>
=============================================================================
