---------------------------- MODULE ServerProofs ----------------------------
(***************************************************************************)
(* The properties of the server package: of Server for any finite set of   *)
(* requests, of SecureContext for any delays and bounds.                   *)
(*                                                                         *)
(* Server: the contract of the pool leaves the source of an answer open.   *)
(* What closes it is that no assignment has failed while the server lives: *)
(* an answer could only come late from one that was answered, and its own  *)
(* answer is used.                                                         *)
(*                                                                         *)
(* SecureContext: an update and the connection it makes are of one moment, *)
(* and the timers are not late: what is due, and since when, follows from  *)
(* the time of the last update.                                            *)
(***************************************************************************)
EXTENDS Server, SecureContext, FiniteSetTheorems, TLAPS

(* The requests and their responses.                                      *)

Number == 1 .. Cardinality(Request)

\* The queue q and the set u of assignments underway, as the statuses st of
\* the promises and the number n of assignments made have them.
Places(q, u, st, n) ==
    /\ q \in Seq(Number)
    /\ u \in SUBSET Number
    /\ \A i \in 1 .. Len(q) : st[q[i]] = "open" /\ q[i] <= n /\ q[i] \notin u
    /\ \A i, j \in 1 .. Len(q) : q[i] = q[j] => i = j
    /\ \A a \in u : st[a] = "open" /\ a <= n

\* The promises: none has failed while the server lives, and one that was
\* resolved has its own answer.
Promises ==
    /\ issued \in 0 .. Cardinality(Request)
    /\ status \in [Number -> {"unissued", "open", "RESOLVED"} \cup Pool!Failure]
    /\ reply \in [Number -> 0 .. Cardinality(Request)]
    /\ \A a \in Number : status[a] = "RESOLVED" => reply[a] = a
    /\ ~stopped => \A a \in Number : status[a] \notin Pool!Failure

\* The requests: no two have the same assignment, and a response was ended as
\* often as the request's way so far can have.
Requests ==
    /\ phase \in [Request -> Phase]
    /\ assigned \in [Request -> 0 .. Cardinality(Request)]
    /\ code \in [Request -> Code]
    /\ ends \in [Request -> 0 .. 2]
    /\ \A r \in Request : assigned[r] <= issued
    /\ \A r \in Request : phase[r] = "assigned" <=> assigned[r] # 0
    /\ \A r, s \in Request : assigned[r] = assigned[s] /\ assigned[r] # 0 => r = s
    /\ \A r \in Request : phase[r] \in {"none", "body"} => ends[r] = 0
    /\ \A r \in Request : phase[r] = "failed" => ends[r] > 0
    /\ \A r \in Request :
          assigned[r] # 0 =>
              IF status[assigned[r]] = "open" THEN ends[r] < 2 ELSE ends[r] > 0
    /\ \A r \in Request : ends[r] = 0 => code[r] = "none"
    /\ \A r \in Request :
          code[r] = "answer" => assigned[r] # 0 /\ status[assigned[r]] = "RESOLVED"
    /\ \A r \in Request :
          code[r] = "default" => assigned[r] # 0 /\ status[assigned[r]] \in Pool!Failure
    /\ \A r \in Request :
          assigned[r] # 0 /\ status[assigned[r]] = "open" /\ ends[r] = 1 => code[r] = "500"
    /\ \A r \in Request : ends[r] = 2 => code[r] = "500"

Startup ==
    /\ listening \in BOOLEAN
    /\ poolOnline \in BOOLEAN
    /\ deferredEvents \in 0 .. 2
    /\ online = IF deferredEvents = 0 THEN 1 ELSE 0
    /\ deferredEvents = 2 <=> ~listening /\ ~poolOnline
    /\ deferredEvents = 0 <=> listening /\ poolOnline

\* The inductive invariant.
ServerInv ==
    /\ stopped \in BOOLEAN
    /\ Startup
    /\ Places(waiting, underway, status, issued)
    /\ Promises
    /\ Requests

-----------------------------------------------------------------------------
(* The pool.                                                               *)

\* How many requests there are.
LEMMA RequestsCounted == Cardinality(Request) \in Nat
BY ServerAssumption, FS_CardinalityType

\* To take up the head of a queue, or none, keeps each assignment in a place.
LEMMA TakeUpKeepsPlaces ==
    ASSUME NEW q, NEW u, NEW st, NEW n, Places(q, u, st, n), Pool!TakeUp(q, u)
    PROVE  Places(waiting', underway', st, n)
<1>1. CASE waiting' = q /\ underway' = u
  BY <1>1
<1>2. CASE q # <<>> /\ waiting' = Tail(q) /\ underway' = u \cup {Head(q)}
  <2>1. /\ q \in Seq(Number)
        /\ Len(q) \in Nat \ {0}
        /\ Head(q) = q[1]
        /\ Head(q) \in Number
    BY <1>2 DEF Places
  <2>2. /\ Tail(q) \in Seq(Number)
        /\ Len(Tail(q)) = Len(q) - 1
        /\ \A i \in 1 .. Len(Tail(q)) : Tail(q)[i] = q[i + 1] /\ i + 1 \in 1 .. Len(q)
    BY <1>2, <2>1
  <2>3. \A i \in 1 .. Len(Tail(q)) :
            st[Tail(q)[i]] = "open" /\ Tail(q)[i] <= n /\ Tail(q)[i] \notin u \cup {q[1]}
    <3>1. ASSUME NEW i \in 1 .. Len(Tail(q))
          PROVE  st[q[i + 1]] = "open" /\ q[i + 1] <= n /\ q[i + 1] \notin u /\ q[i + 1] # q[1]
      <4>1. i + 1 \in 1 .. Len(q) /\ 1 \in 1 .. Len(q) /\ i + 1 # 1
        BY <2>1, <2>2
      <4> QED BY <4>1 DEF Places
    <3> QED BY <3>1, <2>2
  <2>4. \A i, j \in 1 .. Len(Tail(q)) : Tail(q)[i] = Tail(q)[j] => i = j
    <3>1. ASSUME NEW i \in 1 .. Len(Tail(q)), NEW j \in 1 .. Len(Tail(q)), q[i + 1] = q[j + 1]
          PROVE  i = j
      <4>1. i + 1 = j + 1
        BY <3>1, <2>2 DEF Places
      <4> QED BY <4>1, <2>1, <2>2
    <3> QED BY <3>1, <2>2
  <2>5. \A a \in u \cup {q[1]} : st[a] = "open" /\ a <= n /\ a \in Number
    <3>1. 1 \in 1 .. Len(q)
      BY <2>1
    <3> QED BY <2>1, <3>1 DEF Places
  <2>6. waiting' = Tail(q) /\ underway' = u \cup {q[1]}
    BY <1>2, <2>1
  <2> QED BY <2>2, <2>3, <2>4, <2>5, <2>6 DEF Places
<1> QED BY <1>1, <1>2 DEF Pool!TakeUp

\* An assignment is appended to the queue and the pool goes on.
LEMMA SubmitKeepsPlaces ==
    ASSUME Places(waiting, underway, status, issued), Promises, Pool!Submit
    PROVE  Places(waiting', underway', status', issued')
<1> DEFINE q == Append(waiting, issued + 1)
<1>1. /\ Cardinality(Request) \in Nat
      /\ issued' = issued + 1
      /\ issued + 1 \in Number
      /\ status' = [status EXCEPT ![issued + 1] = "open"]
      /\ Pool!TakeUp(q, underway)
  BY RequestsCounted DEF Pool!Submit, Promises, Number
<1>2. /\ waiting \in Seq(Number)
      /\ Len(waiting) \in Nat
      /\ q \in Seq(Number)
      /\ Len(q) = Len(waiting) + 1
      /\ q[Len(waiting) + 1] = issued + 1
      /\ \A i \in 1 .. Len(waiting) : q[i] = waiting[i] /\ waiting[i] \in Number
  BY <1>1 DEF Places
<1>3. \A i \in 1 .. Len(waiting) : waiting[i] <= issued /\ waiting[i] # issued + 1
  BY <1>1, <1>2 DEF Places, Promises, Number
<1>4. \A a \in underway : a \in Number /\ a <= issued /\ a # issued + 1
  BY <1>1 DEF Places, Promises, Number
<1>5. Places(q, underway, status', issued')
  <2>1. \A i \in 1 .. Len(q) :
            status'[q[i]] = "open" /\ q[i] <= issued' /\ q[i] \notin underway
    <3>1. ASSUME NEW i \in 1 .. Len(waiting)
          PROVE  status'[q[i]] = "open" /\ q[i] <= issued' /\ q[i] \notin underway
      BY <1>1, <1>2, <1>3 DEF Places, Promises, Number
    <3>2. /\ status'[issued + 1] = "open"
          /\ issued + 1 <= issued'
          /\ issued + 1 \notin underway
      BY <1>1, <1>4 DEF Promises, Number
    <3> QED BY <3>1, <3>2, <1>2
  <2>2. \A i, j \in 1 .. Len(q) : q[i] = q[j] => i = j
    BY <1>2, <1>3 DEF Places
  <2>3. \A a \in underway : status'[a] = "open" /\ a <= issued'
    BY <1>1, <1>4 DEF Places, Promises, Number
  <2> QED BY <1>2, <2>1, <2>2, <2>3 DEF Places
<1> QED BY <1>1, <1>5, TakeUpKeepsPlaces

\* An assignment is settled and makes room.
LEMMA SettleKeepsPlaces ==
    ASSUME Places(waiting, underway, status, issued), Promises,
           NEW a \in underway, NEW s,
           status' = [status EXCEPT ![a] = s], Pool!MakeRoom(a)
    PROVE  Places(waiting', underway', status', issued') /\ issued' = issued
<1>1. /\ issued' = issued
      /\ Pool!TakeUp(waiting, underway \ {a})
  BY DEF Pool!MakeRoom
<1>2. Places(waiting, underway \ {a}, status', issued)
  <2>1. \A i \in 1 .. Len(waiting) : waiting[i] \in Number /\ waiting[i] # a
    BY DEF Places
  <2> QED BY <2>1 DEF Places, Promises
<1> QED BY <1>1, <1>2, TakeUpKeepsPlaces

-----------------------------------------------------------------------------
(* The steps.                                                              *)

\* Nothing has come.
LEMMA InitEstablishesInv == Init => ServerInv
<1> SUFFICES ASSUME Init PROVE ServerInv
  OBVIOUS
<1> USE DEF Init, Pool!Init
<1>1. Cardinality(Request) \in Nat
  BY RequestsCounted
<1>2. Places(waiting, underway, status, issued)
  BY DEF Places, Number
<1>3. Promises
  BY <1>1 DEF Promises, Number, Pool!Assignment, Pool!Failure
<1>4. Requests
  BY <1>1 DEF Requests, Phase, Code
<1>5. Startup /\ stopped \in BOOLEAN
  <2>1. deferredEvents \in 0 .. 2 /\ deferredEvents # 0 /\ online = 0
    OBVIOUS
  <2> QED BY <2>1 DEF Startup
<1> QED BY <1>2, <1>3, <1>4, <1>5 DEF ServerInv

\* The two events of the start count down from two.
LEMMA StartKeepsInv ==
    ASSUME ServerInv, Listens \/ PoolOnline
    PROVE  ServerInv'
<1>1. /\ deferredEvents \in {1, 2}
      /\ deferredEvents' = deferredEvents - 1
      /\ deferredEvents' \in {0, 1}
      /\ online = 0
      /\ online' = IF deferredEvents' = 0 THEN 1 ELSE 0
  BY DEF ServerInv, Startup, Listens, PoolOnline, CallDeferred
<1>3. /\ listening' \in BOOLEAN /\ poolOnline' \in BOOLEAN
      /\ listening' \/ poolOnline'
      /\ deferredEvents = 2 <=> ~(listening' /\ poolOnline')
  <2>1. CASE Listens
    <3>1. /\ ~listening /\ listening' = TRUE
          /\ poolOnline' = poolOnline /\ poolOnline \in BOOLEAN
      BY <2>1 DEF ServerInv, Startup, Listens
    <3>2. deferredEvents = 2 <=> ~poolOnline
      BY <3>1 DEF ServerInv, Startup
    <3> QED BY <3>1, <3>2, Zenon
  <2>2. CASE PoolOnline
    <3>1. /\ ~poolOnline /\ poolOnline' = TRUE
          /\ listening' = listening /\ listening \in BOOLEAN
      BY <2>2 DEF ServerInv, Startup, PoolOnline
    <3>2. deferredEvents = 2 <=> ~listening
      BY <3>1 DEF ServerInv, Startup
    <3> QED BY <3>1, <3>2, Zenon
  <2> QED BY <2>1, <2>2
<1>4. Startup'
  <2>1. deferredEvents' = 0 <=> deferredEvents # 2
    BY <1>1
  <2>2. deferredEvents' # 2 /\ deferredEvents' \in 0 .. 2
    BY <1>1
  <2> QED BY <2>1, <2>2, <1>1, <1>3 DEF Startup
<1>2. UNCHANGED <<pool, stopped, requests, responses>>
  BY DEF Listens, PoolOnline
<1> QED
  BY <1>4, <1>2 DEF ServerInv, Places, Promises, Requests, pool, requests, responses

\* A request gets an assignment no other request has.
LEMMA AssignKeepsInv ==
    ASSUME ServerInv, NEW r \in Request, phase[r] \in {"none", "body"}, Assign(r)
    PROVE  ServerInv'
<1>1. /\ Cardinality(Request) \in Nat
      /\ issued' = issued + 1
      /\ issued + 1 \in Number
      /\ issued \in Nat
      /\ status' = [status EXCEPT ![issued + 1] = "open"]
      /\ UNCHANGED <<reply, stopped, startup>>
      /\ phase' = [phase EXCEPT ![r] = "assigned"]
      /\ assigned' = [assigned EXCEPT ![r] = issued + 1]
      /\ UNCHANGED responses \/ Ends(r, "500")
  BY RequestsCounted DEF Assign, Pool!Submit, ServerInv, Promises, Number
<1>2. Places(waiting', underway', status', issued')
  BY SubmitKeepsPlaces DEF Assign, ServerInv
<1>3. Promises'
  <2>1. status[issued + 1] # "RESOLVED" \/ reply[issued + 1] = issued + 1
    BY <1>1 DEF ServerInv, Promises
  <2> QED BY <1>1, <2>1 DEF ServerInv, Promises, Number, Pool!Failure
<1>4. Startup' /\ stopped' \in BOOLEAN
  BY <1>1 DEF ServerInv, Startup, startup
<1>5. Requests'
  <2> USE DEF Requests, ServerInv
  <2>1. ends[r] = 0 /\ code[r] = "none" /\ assigned[r] = 0
    OBVIOUS
  <2>2. /\ ends' \in [Request -> 0 .. 2]
        /\ code' \in [Request -> Code]
        /\ ends'[r] \in {0, 1}
        /\ code'[r] = IF ends'[r] = 0 THEN "none" ELSE "500"
        /\ \A s \in Request \ {r} : ends'[s] = ends[s] /\ code'[s] = code[s]
    BY <1>1, <2>1 DEF Ends, responses, Code
  <2>3. /\ assigned'[r] = issued + 1
        /\ \A s \in Request \ {r} : assigned'[s] = assigned[s] /\ phase'[s] = phase[s]
        /\ assigned' \in [Request -> 0 .. Cardinality(Request)]
        /\ phase' \in [Request -> Phase]
        /\ phase'[r] = "assigned"
    BY <1>1 DEF Number, Phase
  <2>4. \A s \in Request : assigned[s] \in Nat /\ assigned[s] <= issued
    BY <1>1
  <2>5. /\ status'[issued + 1] = "open"
        /\ \A s \in Request : assigned[s] # 0 => status'[assigned[s]] = status[assigned[s]]
    BY <1>1, <2>4 DEF Promises, Number
  <2>6. \A s \in Request : assigned'[s] <= issued'
    BY <1>1, <2>3, <2>4
  <2>7. \A s, t \in Request : assigned'[s] = assigned'[t] /\ assigned'[s] # 0 => s = t
    BY <1>1, <2>3, <2>4
  <2> QED BY <1>1, <2>2, <2>3, <2>5, <2>6, <2>7 DEF Code
<1> QED BY <1>2, <1>3, <1>4, <1>5 DEF ServerInv

\* A body is awaited, and may fail to come.
LEMMA BodyKeepsInv ==
    ASSUME ServerInv, NEW r \in Request, ArrivesWithBody(r) \/ BodyFails(r)
    PROVE  ServerInv'
<1> USE DEF ServerInv
<1>1. /\ UNCHANGED <<pool, stopped, startup, assigned>>
      /\ \/ /\ phase[r] = "none"
            /\ phase' = [phase EXCEPT ![r] = "body"]
            /\ UNCHANGED responses
         \/ /\ phase[r] = "body"
            /\ phase' = [phase EXCEPT ![r] = "failed"]
            /\ Ends(r, "500")
  BY DEF ArrivesWithBody, BodyFails
<1>2. /\ Places(waiting', underway', status', issued')
      /\ Promises'
      /\ Startup'
      /\ stopped' \in BOOLEAN
  BY <1>1 DEF Promises, Startup, pool, startup
<1>3. Requests'
  BY <1>1 DEF Requests, Ends, Phase, Code, responses, pool
<1> QED BY <1>2, <1>3

\* An assignment of a request is settled with s, and the response is ended
\* with c.
LEMMA SettledKeepsRequests ==
    ASSUME ServerInv, NEW r \in Request, assigned[r] \in underway,
           NEW s, s # "open", status' = [status EXCEPT ![assigned[r]] = s],
           NEW c \in {"default", "answer"}, c = "answer" => s = "RESOLVED",
           c = "default" => s \in Pool!Failure,
           Ends(r, c), issued' = issued, UNCHANGED requests
    PROVE  Requests'
<1> USE DEF ServerInv, Requests
<1>1. /\ assigned[r] \in Number
      /\ assigned[r] # 0
      /\ status[assigned[r]] = "open"
      /\ ends[r] \in {0, 1}
      /\ phase[r] = "assigned"
  BY RequestsCounted DEF Places, Number
<1>2. /\ UNCHANGED <<phase, assigned>>
      /\ status'[assigned[r]] = s
  BY <1>1 DEF requests, Promises
<1>3. ASSUME NEW t \in Request, t # r
      PROVE  /\ ends'[t] = ends[t]
             /\ code'[t] = code[t]
             /\ assigned[t] # 0 => status'[assigned[t]] = status[assigned[t]]
  <2>1. assigned[t] # 0 => assigned[t] \in Number /\ assigned[t] # assigned[r]
    BY <1>1, <1>3, RequestsCounted DEF Number
  <2> QED BY <1>3, <2>1 DEF Ends, Promises
<1>4. /\ ends' \in [Request -> 0 .. 2]
      /\ code' \in [Request -> Code]
      /\ ends'[r] \in {1, 2}
      /\ ends'[r] = 2 => code'[r] = "500"
      /\ code'[r] \in {c, "500"}
  <2>1. CASE ends[r] = 0
    BY <2>1 DEF Ends, Code
  <2>2. CASE ends[r] = 1
    <3>1. code[r] = "500"
      BY <1>1, <2>2
    <3> QED BY <2>2, <3>1 DEF Ends, Code
  <2> QED BY <1>1, <2>1, <2>2
<1>5. /\ code'[r] = "answer" => s = "RESOLVED"
      /\ code'[r] = "default" => s \in Pool!Failure
  BY <1>4
<1>6. ASSUME NEW t \in Request
      PROVE  /\ assigned[t] # 0 =>
                    IF status'[assigned[t]] = "open" THEN ends'[t] < 2 ELSE ends'[t] > 0
             /\ ends'[t] = 0 => code'[t] = "none"
             /\ code'[t] = "answer" => assigned[t] # 0 /\ status'[assigned[t]] = "RESOLVED"
             /\ code'[t] = "default" => assigned[t] # 0 /\ status'[assigned[t]] \in Pool!Failure
             /\ assigned[t] # 0 /\ status'[assigned[t]] = "open" /\ ends'[t] = 1
                    => code'[t] = "500"
             /\ ends'[t] = 2 => code'[t] = "500"
  <2>1. CASE t = r
    BY <1>1, <1>2, <1>4, <1>5, <2>1
  <2>2. CASE t # r
    BY <1>3, <2>2
  <2> QED BY <2>1, <2>2
<1>7. /\ \A t \in Request : phase[t] \in {"none", "body"} => ends'[t] = 0
      /\ \A t \in Request : phase[t] = "failed" => ends'[t] > 0
  BY <1>1, <1>3
<1> QED BY <1>2, <1>4, <1>6, <1>7

\* The answer to a request is its own: an older assignment whose answer is
\* not used would have failed.
LEMMA AnsweredKeepsInv ==
    ASSUME ServerInv, ~stopped, NEW r \in Request, Answered(r)
    PROVE  ServerInv'
<1> DEFINE a == assigned[r]
<1>1. /\ a \in underway
      /\ a \in Number
      /\ Pool!MakeRoom(a)
      /\ status' = [status EXCEPT ![a] = "RESOLVED"]
      /\ Ends(r, "answer")
      /\ stopped' \in BOOLEAN
      /\ UNCHANGED <<startup, requests>>
  BY DEF Answered, Pool!Resolve, ServerInv, Places
<1>2. reply' = [reply EXCEPT ![a] = a]
  <2>1. PICK b \in Number : Pool!MayAnswer(a, b) /\ reply' = [reply EXCEPT ![a] = b]
    BY DEF Answered, Pool!Resolve, Pool!Assignment, Number
  <2>2. CASE b # a
    <3>1. status[b] = "RESOLVED" /\ reply[b] # b
      BY <2>1, <2>2 DEF Pool!MayAnswer, Pool!Assignment, Number, ServerInv, Promises
    <3> QED BY <3>1 DEF ServerInv, Promises
  <2> QED BY <2>1, <2>2
<1>3. Places(waiting', underway', status', issued') /\ issued' = issued
  BY <1>1, SettleKeepsPlaces DEF ServerInv
<1>4. Promises'
  BY <1>1, <1>2, <1>3, RequestsCounted DEF ServerInv, Promises, Number, Pool!Failure
<1>5. Requests'
  BY <1>1, <1>3, SettledKeepsRequests
<1> QED BY <1>1, <1>3, <1>4, <1>5 DEF ServerInv, Startup, startup

\* A failure is the last thing the server sees.
LEMMA RejectedKeepsInv ==
    ASSUME ServerInv, NEW r \in Request, Rejected(r)
    PROVE  ServerInv'
<1>1. /\ assigned[r] \in underway
      /\ Pool!MakeRoom(assigned[r])
      /\ Ends(r, "default")
      /\ stopped' = TRUE
      /\ UNCHANGED <<startup, requests, reply>>
  BY DEF Rejected, Pool!Reject
<1>2. PICK why \in Pool!Failure : status' = [status EXCEPT ![assigned[r]] = why]
  BY DEF Rejected, Pool!Reject
<1>3. why # "open" /\ why # "RESOLVED"
  BY DEF Pool!Failure
<1>4. Places(waiting', underway', status', issued') /\ issued' = issued
  BY <1>1, <1>2, SettleKeepsPlaces DEF ServerInv
<1>5. Promises'
  BY <1>1, <1>2, <1>3, <1>4 DEF ServerInv, Promises
<1>6. Requests'
  BY <1>1, <1>2, <1>3, <1>4, SettledKeepsRequests
<1> QED BY <1>1, <1>4, <1>5, <1>6 DEF ServerInv, Startup, startup

\* The inductive step.
LEMMA StepKeepsInv ==
    ASSUME ServerInv, [Next]_vars
    PROVE  ServerInv'
<1>1. CASE ~stopped /\ (Listens \/ PoolOnline)
  BY <1>1, StartKeepsInv
<1>2. CASE ~stopped /\ Stops
  BY <1>2 DEF Stops, Pool!Stop, ServerInv, Startup, Promises, Requests,
              startup, requests, responses
<1>3. ASSUME NEW r \in Request, ~stopped,
             \/ Arrives(r) \/ ArrivesWithBody(r) \/ BodyEnds(r) \/ BodyFails(r)
             \/ Outcome(r)
      PROVE  ServerInv'
  <2>1. CASE Arrives(r) \/ BodyEnds(r)
    BY <2>1, AssignKeepsInv DEF Arrives, BodyEnds
  <2>2. CASE ArrivesWithBody(r) \/ BodyFails(r)
    BY <2>2, BodyKeepsInv
  <2>3. CASE Answered(r)
    BY <2>3, <1>3, AnsweredKeepsInv
  <2>4. CASE Rejected(r)
    BY <2>4, RejectedKeepsInv
  <2> QED BY <1>3, <2>1, <2>2, <2>3, <2>4 DEF Outcome
<1>4. CASE UNCHANGED vars
  BY <1>4 DEF vars, pool, startup, requests, responses,
              ServerInv, Startup, Promises, Requests
<1> QED BY <1>1, <1>2, <1>3, <1>4 DEF Next

\* The inductive invariant holds throughout.
THEOREM ServerInvariant == Spec => []ServerInv
<1>1. Init => ServerInv
  BY InitEstablishesInv
<1>2. ServerInv /\ [Next]_vars => ServerInv'
  BY StepKeepsInv
<1> QED BY <1>1, <1>2, PTL DEF Spec

\* The fields of the server keep their types, and no response is ended a
\* third time (Server.ts:140-182).
THEOREM ServerTypeOK == Spec => []TypeOK
<1>1. ServerInv => TypeOK
  <2> SUFFICES ASSUME ServerInv PROVE TypeOK
    OBVIOUS
  <2>1. online \in Nat
    BY DEF ServerInv, Startup
  <2> QED BY <2>1 DEF ServerInv, Startup, Promises, Requests, TypeOK
<1> QED BY <1>1, ServerInvariant, PTL

\* Every request that was taken is waiting for its body or an open
\* assignment, was ended, or the process is gone (Server.ts:140-182).
THEOREM ServerNothingHangs == Spec => []NothingHangs
<1>1. ServerInv => NothingHangs
  <2> SUFFICES ASSUME ServerInv, NEW r \in Request, ends[r] = 0, phase[r] # "none"
               PROVE  phase[r] = "body" \/ status[assigned[r]] = "open"
    BY DEF NothingHangs
  <2>1. phase[r] \in {"body", "assigned"}
    BY DEF ServerInv, Requests, Phase
  <2> QED BY <2>1 DEF ServerInv, Requests
<1> QED BY <1>1, ServerInvariant, PTL

\* Every client that is answered is given the answer to its own request: a
\* late answer to another needs a failure, which the server does not outlive
\* (Server.ts:162-173, AWorkerPool.ts:108-115, 194-203).
THEOREM ServerOwnResponse == Spec => []OwnResponse
<1>1. ServerInv => OwnResponse
  <2> SUFFICES ASSUME ServerInv, NEW r \in Request, code[r] = "answer"
               PROVE  reply[assigned[r]] = assigned[r]
    BY DEF OwnResponse
  <2>1. assigned[r] \in Number /\ status[assigned[r]] = "RESOLVED"
    BY RequestsCounted DEF ServerInv, Requests, Number
  <2> QED BY <2>1 DEF ServerInv, Promises
<1> QED BY <1>1, ServerInvariant, PTL

\* "online" is emitted once both the socket and the first worker are there,
\* and never again (Server.ts:104-116, 183).
THEOREM ServerOnlineOnce == Spec => []OnlineOnce
<1>1. ServerInv => OnlineOnce
  BY DEF ServerInv, Startup, OnlineOnce
<1> QED BY <1>1, ServerInvariant, PTL

\* A response that is ended twice was ended by the outer catch before
\* (Server.ts:173-179).
THEOREM ServerEndedAgainAfterThrow == Spec => []EndedAgainAfterThrow
<1>1. ServerInv => EndedAgainAfterThrow
  BY DEF ServerInv, Requests, EndedAgainAfterThrow
<1> QED BY <1>1, ServerInvariant, PTL

-----------------------------------------------------------------------------
(* The renewal of the certificate.                                         *)

Types ==
    /\ now \in 0 .. MaxTime
    /\ issuedFor \in {"localhost", "domain", "itself"}
    /\ plain \in BOOLEAN
    /\ validTo \in Seq(Nat)
    /\ Len(validTo) \in 1 .. MaxIssued
    /\ certFile = Len(validTo)
    /\ keyFile \in {certFile - 1, certFile}
    /\ served \in 0 .. Len(validTo)
    /\ connecting \in BOOLEAN
    /\ updateAt \in 0 .. Never
    /\ retryAt \in 0 .. Never
    /\ updatedAt \in 0 .. now
    /\ completeAt \in 0 .. now
    /\ neglected \in BOOLEAN
    /\ broken \in BOOLEAN

\* The timer of the next update is set by the connection, that of the second
\* write by the update.
Schedule ==
    /\ connecting => updateAt = Never /\ updatedAt = now
    /\ ~connecting => now <= updateAt /\ updatedAt + Minimum <= updateAt
    /\ retryAt = Never => updatedAt + Retry <= now
    /\ retryAt # Never => retryAt = updatedAt + Retry /\ now <= retryAt

\* After its second write an update has set the pair that was complete then.
Presented ==
    retryAt = Never /\ ~plain /\ certFile = keyFile /\ completeAt < updatedAt + Retry
        => served = certFile

\* The certificate that is served is valid when an update connects, and for
\* all but Minimum of the time until the next update.
Kept ==
    ~neglected /\ ~broken /\ ~plain /\ issuedFor = "localhost" =>
        /\ served # 0
        /\ now < validTo[certFile]
        /\ validTo[served] <= validTo[certFile]
        /\ connecting => now < validTo[served]
        /\ ~connecting => updateAt # Never /\ updateAt <= validTo[served] + Minimum

\* The inductive invariant.
ContextInv == Types /\ Schedule /\ Presented /\ Kept

-----------------------------------------------------------------------------

\* The constants are numbers, and no timer that is set is due at Never.
LEMMA Constants ==
    /\ Retry \in Nat \ {0} /\ Minimum \in Nat /\ MaxTimeout \in Nat
    /\ MaxTime \in Nat /\ MaxIssued \in Nat \ {0}
    /\ Retry < Minimum /\ Minimum < MaxTimeout
    /\ Never \in Nat /\ MaxTime + MaxTimeout < Never
    /\ Validity \subseteq Nat \ {0}
BY SecureContextAssumption DEF Never, Validity

\* The delay of an update is cut off at both ends.
LEMMA DelayIsBounded ==
    ASSUME NEW left \in Int
    PROVE  /\ DelayFor(left) \in Minimum .. MaxTimeout
           /\ DelayFor(left) <= left \/ DelayFor(left) = Minimum
<1> DEFINE least == Min({MaxTimeout, left})
<1>1. /\ least \in {MaxTimeout, left}
      /\ least <= MaxTimeout /\ least <= left
  <2>1. \E x \in {MaxTimeout, left} : \A y \in {MaxTimeout, left} : x <= y
    BY Constants
  <2> QED BY <2>1 DEF Min
<1>2. /\ Max({least, Minimum}) \in {least, Minimum}
      /\ Max({least, Minimum}) >= least /\ Max({least, Minimum}) >= Minimum
  <2>1. \E x \in {least, Minimum} : \A y \in {least, Minimum} : x >= y
    <3> HIDE DEF least
    <3> QED BY <1>1, Constants
  <2> QED BY <2>1 DEF Max
<1>3. DelayFor(left) = Max({least, Minimum})
  BY DEF DelayFor
<1> QED
  <2> HIDE DEF least
  <2> QED BY <1>1, <1>2, <1>3, Constants

\* The first update is under way.
LEMMA InitEstablishesContextInv == ContextInit => ContextInv
<1> SUFFICES ASSUME ContextInit PROVE ContextInv
  OBVIOUS
<1>1. PICK v \in Validity : validTo = <<v>>
  BY DEF ContextInit
<1>2. v \in Nat \ {0} /\ validTo \in Seq(Nat) /\ Len(validTo) = 1 /\ validTo[1] = v
  BY <1>1, Constants
<1>3. Types
  <2>1. neglected \in BOOLEAN /\ broken \in BOOLEAN
    BY DEF ContextInit
  <2> QED BY <1>2, <2>1, Constants DEF ContextInit, Types
<1>4. Schedule /\ Presented
  BY Constants DEF ContextInit, Schedule, Presented
<1>5. Kept
  <2>1. ~neglected => keyFile = 1
    BY DEF ContextInit
  <2> QED BY <1>2, <2>1 DEF ContextInit, Kept
<1> QED BY <1>3, <1>4, <1>5 DEF ContextInv

\* A certificate is issued that outlasts the one before.
LEMMA RenewCertificateKeepsInv ==
    ASSUME ContextInv, RenewCertificate
    PROVE  ContextInv'
<1>1. PICK v \in Validity : now + v > validTo[certFile] /\ validTo' = Append(validTo, now + v)
  BY DEF RenewCertificate
<1>2. /\ Len(validTo) < MaxIssued
      /\ certFile = keyFile
      /\ certFile' = certFile + 1
      /\ UNCHANGED <<now, environment, keyFile, served, connecting, timers, updatedAt,
                     completeAt, neglected, broken>>
  <2>1. Issued = 1 .. Len(validTo) /\ Len(validTo) \in Nat
    BY DEF ContextInv, Types, Issued
  <2>2. Cardinality(1 .. Len(validTo)) = Len(validTo)
    <3>1. 1 \in Int /\ Len(validTo) \in Int /\ Len(validTo) >= 1
      BY DEF ContextInv, Types
    <3>2. Cardinality(1 .. Len(validTo)) = Len(validTo) - 1 + 1
      BY <3>1, FS_Interval
    <3> QED BY <3>1, <3>2
  <2> QED BY <2>1, <2>2 DEF RenewCertificate, ghosts
<1>3. /\ validTo' \in Seq(Nat)
      /\ Len(validTo') = Len(validTo) + 1
      /\ validTo'[certFile'] = now + v
      /\ \A i \in 1 .. Len(validTo) : validTo'[i] = validTo[i]
  <2>1. now + v \in Nat /\ validTo \in Seq(Nat) /\ certFile' = Len(validTo) + 1
    BY <1>2, Constants DEF ContextInv, Types
  <2> QED BY <1>1, <2>1
<1>4. Types'
  <2>1. /\ Len(validTo') \in 1 .. MaxIssued
        /\ certFile' = Len(validTo')
        /\ keyFile' = certFile' - 1
        /\ served' \in 0 .. Len(validTo')
    <3>1. /\ Len(validTo) \in 1 .. MaxIssued /\ certFile = Len(validTo)
          /\ served \in 0 .. Len(validTo)
      BY DEF ContextInv, Types
    <3>2. /\ Len(validTo') = Len(validTo) + 1 /\ Len(validTo) < MaxIssued
          /\ certFile = keyFile /\ certFile' = certFile + 1
          /\ keyFile' = keyFile /\ served' = served
      BY <1>2, <1>3
    <3> QED BY <3>1, <3>2, Constants
  <2> QED BY <1>2, <1>3, <2>1 DEF ContextInv, Types, environment, ghosts, timers
<1>5. Schedule' /\ Presented'
  BY <1>2, Constants DEF ContextInv, Types, Schedule, Presented, environment, ghosts, timers
<1>6. Kept'
  <2>1. now + v > validTo[certFile]
    BY <1>1
  <2>2. served # 0 => validTo'[served] = validTo[served] /\ validTo[served] \in Nat
    BY <1>3 DEF ContextInv, Types
  <2>3. validTo[certFile] \in Nat /\ v \in Nat
    BY Constants DEF ContextInv, Types
  <2>4. now \in Nat /\ updateAt \in Nat /\ Minimum \in Nat
    BY Constants DEF ContextInv, Types
  <2>5. UNCHANGED <<now, issuedFor, plain, served, connecting, updateAt, neglected, broken>>
    BY <1>2 DEF environment, ghosts, timers
  <2> QED BY <1>3, <2>1, <2>2, <2>3, <2>4, <2>5 DEF ContextInv, Kept
<1> QED BY <1>4, <1>5, <1>6 DEF ContextInv

\* Its key follows, later than an update whose second write is over.
LEMMA RenewKeyKeepsInv ==
    ASSUME ContextInv, RenewKey
    PROVE  ContextInv'
<1>1. Types'
  BY DEF RenewKey, ContextInv, Types, environment, ghosts, timers
<1>2. Schedule'
  BY DEF RenewKey, ContextInv, Schedule, environment, ghosts, timers
<1>3. Presented'
  BY Constants DEF RenewKey, ContextInv, Types, Schedule, Presented, environment, ghosts, timers
<1>4. Kept'
  BY DEF RenewKey, ContextInv, Kept, environment, ghosts, timers
<1> QED BY <1>1, <1>2, <1>3, <1>4 DEF ContextInv

\* The context is written.
LEMMA WritesKeepCertificate ==
    ASSUME ContextInv, WriteSecureContext
    PROVE  /\ served' \in 0 .. Len(validTo)
           /\ served' = served \/ served' = certFile
           /\ certFile = keyFile /\ ~plain => served' = certFile
BY DEF ContextInv, Types, WriteSecureContext, GetSecureContext

\* An update starts over.
LEMMA UpdatesKeepsInv ==
    ASSUME ContextInv, Updates
    PROVE  ContextInv'
<1>1. /\ served' \in 0 .. Len(validTo)
      /\ certFile = keyFile /\ ~plain => served' = certFile
  BY WritesKeepCertificate DEF Updates
<1>2. Types'
  BY <1>1, Constants DEF Updates, ContextInv, Types, environment, ghosts, files
<1>3. Schedule' /\ Presented'
  BY Constants DEF Updates, ContextInv, Types, Schedule, Presented, environment, ghosts, files
<1>4. Kept'
  <2>1. ~neglected' => ~neglected /\ certFile = keyFile
    BY DEF Updates
  <2>2. validTo[certFile] \in Nat /\ certFile # 0
    BY DEF ContextInv, Types
  <2>3. connecting' = TRUE /\ UNCHANGED <<now, issuedFor, plain, validTo, certFile, broken>>
    BY DEF Updates, environment, ghosts, files
  <2> QED BY <1>1, <2>1, <2>2, <2>3 DEF ContextInv, Kept
<1> QED BY <1>2, <1>3, <1>4 DEF ContextInv

\* The second write sets no certificate that ends sooner.
LEMMA RetriesKeepsInv ==
    ASSUME ContextInv, Retries
    PROVE  ContextInv'
<1>1. /\ served' \in 0 .. Len(validTo)
      /\ served' = served \/ served' = certFile
      /\ certFile = keyFile /\ ~plain => served' = certFile
  BY WritesKeepCertificate DEF Retries
<1>2. Types'
  BY <1>1, Constants DEF Retries, ContextInv, Types, environment, ghosts, files
<1>3. Schedule'
  BY Constants DEF Retries, ContextInv, Types, Schedule, environment, ghosts, files
<1>4. Presented'
  BY <1>1 DEF Retries, Presented, environment, ghosts, files
<1>5. Kept'
  <2>1. validTo[certFile] \in Nat /\ certFile # 0
    BY DEF ContextInv, Types
  <2>2. served # 0 => validTo[served] \in Nat
    BY DEF ContextInv, Types
  <2> QED
    BY <1>1, <2>1, <2>2, Constants DEF Retries, ContextInv, Types, Kept, environment, ghosts, files
<1> QED BY <1>2, <1>3, <1>4, <1>5 DEF ContextInv

\* The next update is due by the certificate that is served.
LEMMA ConnectsKeepsInv ==
    ASSUME ContextInv, Connects
    PROVE  ContextInv'
<1> DEFINE left == validTo[served] - now
<1>1. /\ served # 0 /\ validTo[served] \in Nat /\ now < validTo[served]
      /\ connecting
      /\ connecting' = FALSE
      /\ updateAt' = Timeout(DelayFor(left))
      /\ UNCHANGED <<now, environment, files, served, retryAt, updatedAt, completeAt, neglected, broken>>
  BY DEF Connects, Verified, ContextInv, Types, ghosts
<1>2. left \in Int /\ now \in Nat /\ now <= MaxTime
  BY <1>1 DEF ContextInv, Types
<1>3. /\ DelayFor(left) \in Minimum .. MaxTimeout
      /\ DelayFor(left) <= left \/ DelayFor(left) = Minimum
  BY <1>2, DelayIsBounded
<1>4. /\ updateAt' \in Nat /\ updateAt' < Never
      /\ now + Minimum <= updateAt'
      /\ updateAt' <= validTo[served] + Minimum
  <2>1. updateAt' = now + DelayFor(left)
    BY <1>1, <1>3, Constants DEF Timeout
  <2> QED BY <1>1, <1>2, <1>3, <2>1, Constants
<1>5. Types'
  <2>1. updateAt' \in 0 .. Never /\ connecting' = FALSE
    <3>1. Never \in Nat /\ updateAt' \in Nat /\ updateAt' < Never
      BY <1>4, Constants
    <3> QED BY <1>1, <3>1
  <2>2. UNCHANGED <<now, environment, files, served, retryAt, updatedAt, completeAt, neglected, broken>>
    BY <1>1
  <2> QED BY <2>1, <2>2 DEF ContextInv, Types, environment, ghosts, files
<1>6. Schedule' /\ Presented'
  BY <1>1, <1>4, Constants DEF ContextInv, Types, Schedule, Presented, environment, ghosts, files
<1>7. Kept'
  BY <1>1, <1>4 DEF ContextInv, Kept, environment, ghosts, files
<1> QED BY <1>5, <1>6, <1>7 DEF ContextInv

\* A connection fails for what Kept excludes.
LEMMA ConnectionFailsKeepsInv ==
    ASSUME ContextInv, ConnectionFails
    PROVE  ContextInv'
<1>1. Types'
  <2>1. Verified \in BOOLEAN
    BY DEF Verified
  <2>2. broken' \in BOOLEAN
    BY <2>1 DEF ConnectionFails, ContextInv, Types
  <2> QED BY <2>2 DEF ConnectionFails, ContextInv, Types, environment, ghosts, files, timers
<1>2. Schedule' /\ Presented'
  BY Constants DEF ConnectionFails, ContextInv, Types, Schedule, Presented, environment, ghosts, files, timers
<1>3. Kept'
  BY DEF ConnectionFails, Verified, ContextInv, Types, Kept, environment, ghosts, files, timers
<1> QED BY <1>1, <1>2, <1>3 DEF ContextInv

\* Time passes up to the next timer.
LEMMA TickKeepsInv ==
    ASSUME ContextInv, Tick
    PROVE  ContextInv'
<1>1. Types'
  <2>1. neglected' \in BOOLEAN
    BY DEF Tick
  <2>2. now' = now + 1 /\ now \in Nat /\ now' \in 0 .. MaxTime
    BY Constants DEF Tick, ContextInv, Types
  <2> QED BY <2>1, <2>2 DEF Tick, ContextInv, Types, environment, ghosts, files, timers
<1>2. Schedule' /\ Presented'
  BY Constants DEF Tick, ContextInv, Types, Schedule, Presented, environment, ghosts, files, timers
<1>3. Kept'
  <2>1. validTo[certFile] \in Nat
    BY DEF ContextInv, Types
  <2>2. ~neglected' => ~neglected /\ ~(validTo[certFile] <= now')
    BY DEF Tick
  <2>3. /\ now \in Nat /\ now' = now + 1
        /\ ~connecting
        /\ UNCHANGED <<issuedFor, plain, validTo, certFile, served, connecting, updateAt, broken>>
    BY DEF Tick, ContextInv, Types, environment, ghosts, files, timers
  <2> QED BY <2>1, <2>2, <2>3 DEF ContextInv, Kept
<1> QED BY <1>1, <1>2, <1>3 DEF ContextInv

\* The inductive step.
LEMMA StepKeepsContextInv ==
    ASSUME ContextInv, [ContextNext]_contextVars
    PROVE  ContextInv'
<1>1. CASE RenewCertificate
  BY <1>1, RenewCertificateKeepsInv
<1>2. CASE RenewKey
  BY <1>2, RenewKeyKeepsInv
<1>3. CASE Updates
  BY <1>3, UpdatesKeepsInv
<1>4. CASE Retries
  BY <1>4, RetriesKeepsInv
<1>5. CASE Connects
  BY <1>5, ConnectsKeepsInv
<1>6. CASE ConnectionFails
  BY <1>6, ConnectionFailsKeepsInv
<1>7. CASE Tick
  BY <1>7, TickKeepsInv
<1>8. CASE UNCHANGED contextVars
  BY <1>8 DEF contextVars, environment, ghosts, files, timers, ContextInv, Types, Schedule, Presented, Kept
<1> QED BY <1>1, <1>2, <1>3, <1>4, <1>5, <1>6, <1>7, <1>8 DEF ContextNext

\* The inductive invariant holds throughout.
THEOREM ContextInvariant == ContextSpec => []ContextInv
<1>1. ContextInit => ContextInv
  BY InitEstablishesContextInv
<1>2. ContextInv /\ [ContextNext]_contextVars => ContextInv'
  BY StepKeepsContextInv
<1> QED BY <1>1, <1>2, PTL DEF ContextSpec

-----------------------------------------------------------------------------
(* The properties.                                                         *)

\* The fields keep their types, and there is one chain of updates
\* (Server.ts:204-233).
THEOREM SecureContextTypeOK == ContextSpec => []ContextTypeOK
<1>1. ContextInv => ContextTypeOK
  <2> SUFFICES ASSUME ContextInv PROVE ContextTypeOK
    OBVIOUS
  <2>1. Issued = 1 .. Len(validTo) /\ Len(validTo) \in 1 .. MaxIssued
    BY DEF ContextInv, Types, Issued
  <2> QED BY <2>1, Constants DEF ContextInv, Types, Schedule, ContextTypeOK
<1> QED BY <1>1, ContextInvariant, PTL

\* As long as updates meet what they need they do not end, and what is
\* presented has expired Minimum ago at most (Server.ts:214-232).
THEOREM SecureContextRenewalKeepsUp == ContextSpec => []RenewalKeepsUp
<1>1. ContextInv => RenewalKeepsUp
  <2> SUFFICES ASSUME ContextInv, ~neglected, ~broken, ~plain, issuedFor = "localhost"
               PROVE  ~Ended /\ validTo[served] + Minimum >= now
    BY DEF RenewalKeepsUp
  <2>1. validTo[served] \in Nat
    BY DEF ContextInv, Types, Kept
  <2> QED BY <2>1, Constants DEF ContextInv, Types, Schedule, Kept, Ended
<1> QED BY <1>1, ContextInvariant, PTL

\* A pair that an update met half replaced is presented after the second
\* write, if it was complete by then (Server.ts:197-207).
THEOREM SecureContextPairPresented == ContextSpec => []PairPresented
<1>1. ContextInv => PairPresented
  BY Constants DEF ContextInv, Types, Schedule, Presented, PairPresented
<1> QED BY <1>1, ContextInvariant, PTL

\* Updates are never closer than Minimum (Server.ts:224-231).
THEOREM SecureContextUpdatesSpaced == ContextSpec => UpdatesSpaced
<1>1. ContextInv /\ [ContextNext]_contextVars => [updatedAt' # updatedAt => updatedAt' - updatedAt >= Minimum]_contextVars
  <2> SUFFICES ASSUME ContextInv, ContextNext, updatedAt' # updatedAt
               PROVE  updatedAt' - updatedAt >= Minimum
    OBVIOUS
  <2>1. Updates
    BY DEF ContextNext, RenewCertificate, RenewKey, Retries, Connects, ConnectionFails, Tick
  <2> QED BY <2>1, Constants DEF Updates, ContextInv, Types, Schedule
<1> QED BY <1>1, ContextInvariant, PTL DEF ContextSpec, UpdatesSpaced

=============================================================================
