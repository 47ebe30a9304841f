---------------------------- MODULE HandlerProofs ----------------------------
(***************************************************************************)
(* The properties of Handler for any requests and modules, in production   *)
(* and in development.                                                     *)
(*                                                                         *)
(* A step is one request's, and what it may do depends on how far that     *)
(* request has come: Sound relates what is known of one request.           *)
(***************************************************************************)
EXTENDS Handler, TLAPS

Phase == {"new", "arrived", "settled"} \cup Awaiting

\* A request at p, in development if d, with the method m, that fails the checks
\* rf, had n responses of which the first has the status s, and had its endpoint
\* invoked c times; the worker is gone if over: an endpoint that throws was
\* invoked, and that is all.
Sound(d, p, m, rf, n, s, c, over) ==
    /\ n = IF p = "settled" THEN 1 ELSE 0
    /\ p # "settled" => s = 0
    /\ p = "reading" => m \in {"GET", "HEAD"}
    /\ p = "pulling" => m = "POST"
    /\ p \in {"new", "arrived"} => c = 0
    /\ p = "importing" => c = 0 \/ over
    /\ p = "calling" => c = 1
    /\ c <= 1
    /\ m = "PUT" /\ s = 200 => c = 1
    /\ ~d /\ rf # {} => p \notin Awaiting /\ c = 0

Types ==
    /\ dev \in BOOLEAN
    /\ rpcController \in BOOLEAN
    /\ repo \in BOOLEAN
    /\ files \subseteq Module
    /\ modules \subseteq Module
    /\ phase \in [Request -> Phase]
    /\ method \in [Request -> Method]
    /\ module \in [Request -> Module \cup {Unknown}]
    /\ member \in [Request -> {"own", "inherited", "missing"}]
    /\ refused \in [Request -> SUBSET Check]
    /\ responses \in [Request -> Nat]
    /\ status \in [Request -> Status \cup {0}]
    /\ called \in [Request -> Nat]
    /\ ended \in BOOLEAN

\* The inductive invariant.
HandlerInv ==
    /\ Types
    /\ \A r \in Request :
          Sound(dev, phase[r], method[r], refused[r],
                responses[r], status[r], called[r], ended)

-----------------------------------------------------------------------------
(* Steps of one request.                                                   *)

\* A check that fails gives its status, and the first of several gives its.
LEMMA RefusalIs ==
    ASSUME NEW r \in Request, refused \in [Request -> SUBSET Check]
    PROVE  /\ Refusal(r) \in {0, 404, 429, 414, 413, 431}
           /\ refused[r] = {} => Refusal(r) = 0
           /\ ~dev /\ refused[r] # {} => Refusal(r) # 0
<1> DEFINE first == CHOOSE i \in Failed(r) : \A j \in Failed(r) : i <= j
<1>1. Failed(r) \subseteq {1, 2, 3, 4, 5}
  BY DEF Failed
<1>2. CASE Failed(r) = {}
  <2>1. Refusal(r) = 0
    BY <1>2 DEF Refusal
  <2>2. ASSUME ~dev, NEW k \in refused[r]
        PROVE  FALSE
    <3>1. k \in Check
      OBVIOUS
    <3>2. \E i \in 1 .. 5 : Checks[i][1] = k
      BY <3>1 DEF Check, Checks
    <3> QED BY <1>2, <2>2, <3>2 DEF Failed
  <2> QED BY <2>1, <2>2
<1>3. CASE Failed(r) # {}
  <2>1. \E i \in Failed(r) : \A j \in Failed(r) : i <= j
    <3>1. CASE 1 \in Failed(r)
      BY <1>1, <3>1
    <3>2. CASE 1 \notin Failed(r) /\ 2 \in Failed(r)
      BY <1>1, <3>2
    <3>3. CASE 1 \notin Failed(r) /\ 2 \notin Failed(r) /\ 3 \in Failed(r)
      BY <1>1, <3>3
    <3>4. CASE 1 \notin Failed(r) /\ 2 \notin Failed(r) /\ 3 \notin Failed(r)
      BY <1>1, <1>3, <3>4
    <3> QED BY <3>1, <3>2, <3>3, <3>4
  <2>2. first \in {1, 2, 3, 4, 5}
    BY <1>1, <2>1
  <2>3. Refusal(r) = Checks[first][2]
    BY <1>3 DEF Refusal
  <2>4. refused[r] # {}
    BY <1>3 DEF Failed
  <2>5. Checks[first][2] \in {404, 429, 414, 413, 431}
    <3>1. \A i \in {1, 2, 3, 4, 5} : Checks[i][2] \in {404, 429, 414, 413, 431}
      BY DEF Checks
    <3> HIDE DEF first
    <3> QED BY <2>2, <3>1
  <2> QED BY <2>3, <2>4, <2>5
<1> QED BY <1>2, <1>3

\* What a step of the request r leaves alone.
OthersUntouched(r) ==
    /\ UNCHANGED <<dev, rpcController, repo, files, content>>
    /\ modules' \subseteq Module
    /\ ended' \in BOOLEAN
    /\ called' \in [Request -> Nat]
    /\ \A q \in Request \ {r} : called'[q] = called[q]

\* A request that has not been answered is.
LEMMA Settles ==
    ASSUME HandlerInv, ~ended, NEW r \in Request, phase[r] # "settled",
           NEW s \in Status, Responds(r, s), OthersUntouched(r),
           Sound(dev, "settled", method[r], refused[r],
                 1, s, called'[r], ended')
    PROVE  HandlerInv'
<1>1. /\ phase' = [phase EXCEPT ![r] = "settled"]
      /\ responses' = [responses EXCEPT ![r] = 1]
      /\ status' = [status EXCEPT ![r] = s]
  <2>1. responses[r] = 0 /\ status[r] = 0
    BY DEF HandlerInv, Sound
  <2> QED BY <2>1 DEF Responds
<1>2. Types'
  BY <1>1 DEF HandlerInv, Types, OthersUntouched, content, Phase
<1>3. ASSUME NEW q \in Request
      PROVE  Sound(dev, phase[q], method[q], refused[q], responses[q],
                   status[q], called[q], ended)'
  <2>1. CASE q = r
    <3>1. /\ phase'[q] = "settled" /\ responses'[q] = 1 /\ status'[q] = s
          /\ UNCHANGED <<dev, method, refused>>
      BY <1>1, <2>1 DEF HandlerInv, Types, OthersUntouched, content
    <3> QED BY <2>1, <3>1 DEF Sound
  <2>2. CASE q # r
    <3>1. /\ phase'[q] = phase[q] /\ responses'[q] = responses[q] /\ status'[q] = status[q]
          /\ called'[q] = called[q]
          /\ UNCHANGED <<dev, method, refused>>
      BY <1>1, <2>2 DEF HandlerInv, Types, OthersUntouched, content
    <3> QED BY <3>1 DEF HandlerInv, Sound
  <2> QED BY <2>1, <2>2
<1> QED BY <1>2, <1>3 DEF HandlerInv

\* A request comes to p without an answer.
LEMMA Waits ==
    ASSUME HandlerInv, ~ended, NEW r \in Request, phase[r] # "settled",
           NEW p \in Awaiting, Awaits(r, p), OthersUntouched(r),
           Sound(dev, p, method[r], refused[r],
                 0, 0, called'[r], ended')
    PROVE  HandlerInv'
<1>1. /\ phase' = [phase EXCEPT ![r] = p]
      /\ UNCHANGED <<responses, status>>
      /\ responses[r] = 0 /\ status[r] = 0
  BY DEF HandlerInv, Sound, Awaits
<1>2. Types'
  BY <1>1 DEF HandlerInv, Types, OthersUntouched, content, Phase
<1>3. ASSUME NEW q \in Request
      PROVE  Sound(dev, phase[q], method[q], refused[q], responses[q],
                   status[q], called[q], ended)'
  <2>1. CASE q = r
    <3>1. /\ phase'[q] = p /\ responses'[q] = 0 /\ status'[q] = 0
          /\ UNCHANGED <<dev, method, refused>>
      BY <1>1, <2>1 DEF HandlerInv, Types, OthersUntouched, content
    <3> QED BY <2>1, <3>1 DEF Sound
  <2>2. CASE q # r
    <3>1. /\ phase'[q] = phase[q] /\ responses'[q] = responses[q] /\ status'[q] = status[q]
          /\ called'[q] = called[q]
          /\ UNCHANGED <<dev, method, refused>>
      BY <1>1, <2>2 DEF HandlerInv, Types, OthersUntouched, content
    <3> QED BY <3>1 DEF HandlerInv, Sound
  <2> QED BY <2>1, <2>2
<1> QED BY <1>2, <1>3 DEF HandlerInv

\* The worker ends and the request stays where it is.
LEMMA EndsUnanswered ==
    ASSUME HandlerInv, ~ended, NEW r \in Request,
           UNCHANGED <<phase, responses, status>>, OthersUntouched(r),
           Sound(dev, phase[r], method[r], refused[r],
                 responses[r], status[r], called'[r], ended')
    PROVE  HandlerInv'
<1>1. UNCHANGED <<dev, method, refused>>
  BY DEF OthersUntouched, content
<1>2. Types'
  BY DEF HandlerInv, Types, OthersUntouched, content
<1>3. ASSUME NEW q \in Request
      PROVE  Sound(dev, phase[q], method[q], refused[q], responses[q],
                   status[q], called[q], ended)'
  <2>1. CASE q = r
    BY <1>1, <2>1 DEF Sound
  <2>2. CASE q # r
    <3>1. called'[q] = called[q]
      BY <2>2 DEF OthersUntouched
    <3> QED BY <1>1, <3>1 DEF HandlerInv, Sound
  <2> QED BY <2>1, <2>2
<1> QED BY <1>2, <1>3 DEF HandlerInv

-----------------------------------------------------------------------------
(* The actions.                                                            *)

\* Nothing has come.
LEMMA InitEstablishesInv == Init => HandlerInv
<1> SUFFICES ASSUME Init PROVE HandlerInv
  OBVIOUS
<1>1. Types
  BY DEF Init, Types, Phase, Method, Status
<1> QED BY <1>1 DEF Init, HandlerInv, Sound, Awaiting

\* A module is imported, or its file is gone.
LEMMA ModulesKeepInv ==
    ASSUME HandlerInv, ~ended, NEW m \in Module, Imports(m) \/ RemoveFile(m)
    PROVE  HandlerInv'
<1>1. UNCHANGED <<dev, content, answers, called>>
  BY DEF Imports, RemoveFile
<1>2. Types'
  BY <1>1 DEF Imports, RemoveFile, HandlerInv, Types, content, answers
<1> QED BY <1>1, <1>2 DEF HandlerInv, Sound, content, answers

\* A request arrives with nothing done for it.
LEMMA ArrivesKeepsInv ==
    ASSUME HandlerInv, ~ended, NEW r \in Request, Arrives(r)
    PROVE  HandlerInv'
<1>1. /\ phase[r] = "new"
      /\ phase' = [phase EXCEPT ![r] = "arrived"]
      /\ UNCHANGED <<environment, responses, status, called, ended>>
  BY DEF Arrives
<1>2. PICK m \in Method :
         \E e \in Endpoints(m) :
            /\ method' = [method EXCEPT ![r] = m]
            /\ module' = [module EXCEPT ![r] = e[1]]
            /\ member' = [member EXCEPT ![r] = e[2]]
  BY DEF Arrives
<1>3. PICK e \in (Module \cup {Unknown}) \X {"own", "inherited", "missing"} :
         /\ method' = [method EXCEPT ![r] = m]
         /\ module' = [module EXCEPT ![r] = e[1]]
         /\ member' = [member EXCEPT ![r] = e[2]]
  BY <1>2 DEF Endpoints
<1>4. PICK checks \in SUBSET Check : refused' = [refused EXCEPT ![r] = checks]
  <2>1. \E checks \in {{k} : k \in Check} \cup {{}, Check} :
           refused' = [refused EXCEPT ![r] = checks]
    BY DEF Arrives
  <2> QED BY <2>1
<1>5. Types'
  BY <1>1, <1>2, <1>3, <1>4 DEF HandlerInv, Types, Phase, environment
<1>6. ASSUME NEW q \in Request
      PROVE  Sound(dev, phase[q], method[q], refused[q], responses[q],
                   status[q], called[q], ended)'
  <2>1. CASE q = r
    <3>1. /\ phase'[q] = "arrived"
          /\ UNCHANGED <<dev, responses, status, called>>
      BY <1>1, <2>1 DEF HandlerInv, Types, environment
    <3>2. responses[q] = 0 /\ status[q] = 0 /\ called[q] = 0
      BY <1>1, <2>1 DEF HandlerInv, Sound
    <3> QED BY <3>1, <3>2 DEF Sound, Awaiting
  <2>2. CASE q # r
    <3>1. /\ phase'[q] = phase[q] /\ method'[q] = method[q]
          /\ refused'[q] = refused[q]
          /\ UNCHANGED <<dev, responses, status, called>>
      BY <1>1, <1>2, <1>3, <1>4, <2>2 DEF HandlerInv, Types, environment
    <3> QED BY <3>1 DEF HandlerInv, Sound
  <2> QED BY <2>1, <2>2
<1> QED BY <1>5, <1>6 DEF HandlerInv

\* A refused request is answered with nothing done for it.
LEMMA RefusesKeepsInv ==
    ASSUME HandlerInv, ~ended, NEW r \in Request, Refuses(r)
    PROVE  HandlerInv'
<1>1. /\ Refusal(r) # 0 /\ Responds(r, Refusal(r))
      /\ phase[r] = "arrived"
      /\ UNCHANGED <<environment, content, called, ended>>
  BY DEF Refuses
<1>2. Refusal(r) \in Status /\ Refusal(r) # 200
  BY <1>1, RefusalIs DEF HandlerInv, Types, Status
<1>3. OthersUntouched(r)
  BY <1>1 DEF OthersUntouched, HandlerInv, Types, environment
<1>4. Sound(dev, "settled", method[r], refused[r], 1, Refusal(r), called'[r], ended')
  BY <1>1, <1>2 DEF HandlerInv, Sound, Awaiting
<1> QED BY <1>1, <1>2, <1>3, <1>4, Settles

\* What is known of a request that passes the checks.
LEMMA PassedIsFresh ==
    ASSUME HandlerInv, ~ended, NEW r \in Request, Passes(r)
    PROVE  /\ phase[r] = "arrived"
           /\ dev \/ refused[r] = {}
           /\ responses[r] = 0 /\ status[r] = 0 /\ called[r] = 0
           /\ UNCHANGED content
BY RefusalIs DEF Passes, HandlerInv, Types, Sound

\* A request is answered once it has passed; by 200 only if it is no PUT.
LEMMA PassedSettles ==
    ASSUME HandlerInv, ~ended, NEW r \in Request, Passes(r), UNCHANGED <<environment, called>>,
           ended' \in BOOLEAN,
           NEW s \in Status, s = 200 => method[r] # "PUT", Responds(r, s)
    PROVE  HandlerInv'
<1>1. OthersUntouched(r)
  BY PassedIsFresh DEF OthersUntouched, HandlerInv, Types, environment
<1>2. Sound(dev, "settled", method[r], refused[r],
            1, s, called'[r], ended')
  BY PassedIsFresh DEF HandlerInv, Sound, Awaiting
<1> QED BY <1>1, <1>2, PassedIsFresh, Settles

\* A request awaits something once it has passed.
LEMMA PassedWaits ==
    ASSUME HandlerInv, ~ended, NEW r \in Request, Passes(r), UNCHANGED <<environment, called>>,
           ended' \in BOOLEAN,
           NEW p \in Awaiting, p # "calling", Awaits(r, p),
           p = "reading" => method[r] \in {"GET", "HEAD"},
           p = "pulling" => method[r] = "POST"
    PROVE  HandlerInv'
<1>1. OthersUntouched(r)
  BY PassedIsFresh DEF OthersUntouched, HandlerInv, Types, environment
<1>2. Sound(dev, p, method[r], refused[r], 0, 0, called'[r], ended')
  BY PassedIsFresh DEF HandlerInv, Sound, Awaiting
<1> QED BY <1>1, <1>2, PassedIsFresh, Waits

\* The contexts up to what they await.
LEMMA ContextsKeepInv ==
    ASSUME HandlerInv, ~ended, NEW r \in Request, Get(r) \/ Put(r) \/ Post(r) \/ Other(r)
    PROVE  HandlerInv'
<1>1. Passes(r) /\ UNCHANGED <<environment, called>> /\ ended' \in BOOLEAN
  BY DEF Get, Put, Post, Other, Rejected, HandlerInv, Types
<1>2. CASE Get(r)
  <2>1. \/ \E s \in {301, 400} : Responds(r, s)
        \/ Awaits(r, "reading")
    BY <1>2 DEF Get
  <2> QED BY <1>1, <1>2, <2>1, PassedSettles, PassedWaits DEF Get, Status, Awaiting
<1>3. CASE Put(r)
  <2>1. \/ \E s \in {400, 404, 405} : Responds(r, s)
        \/ Awaits(r, "importing")
        \/ Rejected
    BY <1>3 DEF Put
  <2>2. ASSUME Rejected PROVE HandlerInv'
    <3>1. OthersUntouched(r) /\ called'[r] = called[r]
      BY <1>1, PassedIsFresh DEF OthersUntouched, HandlerInv, Types, environment
    <3>2. Sound(dev, phase[r], method[r], refused[r], responses[r], status[r], called'[r], ended')
      BY <1>1, <3>1, PassedIsFresh DEF HandlerInv, Sound
    <3> QED BY <2>2, <3>1, <3>2, EndsUnanswered DEF Rejected, answers
  <2> QED BY <1>1, <2>1, <2>2, PassedSettles, PassedWaits DEF Status, Awaiting
<1>4. CASE Post(r)
  <2>1. \/ \E s \in {200, 403, 404} : Responds(r, s)
        \/ Awaits(r, "pulling")
    BY <1>4 DEF Post, NotSigned
  <2>2. method[r] = "POST"
    BY <1>4 DEF Post
  <2> QED BY <1>1, <2>1, <2>2, PassedSettles, PassedWaits DEF Status, Awaiting
<1>5. CASE Other(r)
  BY <1>1, <1>5, PassedSettles DEF Other, Status
<1> QED BY <1>2, <1>3, <1>4, <1>5

\* What is awaited comes, or ends the worker.
LEMMA AwaitedKeepsInv ==
    ASSUME HandlerInv, ~ended, NEW r \in Request,
           FileRead(r) \/ Invoked(r) \/ Returns(r) \/ Pulled(r)
    PROVE  HandlerInv'
<1>1. /\ phase[r] \in Awaiting
      /\ ended' \in BOOLEAN
      /\ UNCHANGED <<dev, rpcController, repo, files, content>>
      /\ modules' \subseteq Module
      /\ called' = called \/ called' = [called EXCEPT ![r] = @ + 1]
  BY DEF FileRead, Invoked, Returns, Pulled, TakesModule, Rejected, HandlerInv, Types, Awaiting,
         environment
<1>2. OthersUntouched(r)
  BY <1>1 DEF OthersUntouched, HandlerInv, Types
<1>3. dev \/ refused[r] = {}
  BY <1>1 DEF HandlerInv, Sound
<1>4. /\ called[r] \in Nat
      /\ ~Invoked(r) => called'[r] = called[r]
      /\ Invoked(r) => called[r] = 0
      /\ called'[r] = called[r] \/ (Invoked(r) /\ called'[r] = 1)
  BY DEF FileRead, Invoked, Returns, Pulled, HandlerInv, Types, Sound
<1>5. ASSUME NEW s \in Status, Responds(r, s),
             s = 200 /\ method[r] = "PUT" => called'[r] = 1
      PROVE  HandlerInv'
  <2>1. Sound(dev, "settled", method[r], refused[r],
              1, s, called'[r], ended')
    BY <1>1, <1>3, <1>4, <1>5 DEF HandlerInv, Sound, Awaiting
  <2> QED BY <1>1, <1>2, <1>5, <2>1, Settles DEF Awaiting
<1>6. CASE Rejected
  <2>1. Sound(dev, phase[r], method[r], refused[r],
              responses[r], status[r], called'[r], ended')
    BY <1>1, <1>3, <1>4, <1>6 DEF HandlerInv, Sound, Invoked, Rejected
  <2> QED BY <1>2, <1>6, <2>1, EndsUnanswered DEF Rejected, answers
<1>7. CASE Awaits(r, "calling") /\ Invoked(r) /\ called'[r] = 1
  <2>1. Sound(dev, "calling", method[r], refused[r],
              0, 0, called'[r], ended')
    BY <1>1, <1>3, <1>4, <1>7 DEF HandlerInv, Sound, Awaiting
  <2> QED BY <1>1, <1>2, <1>7, <2>1, Waits DEF Awaiting
<1>8. CASE FileRead(r) \/ Pulled(r)
  <2>1. method[r] # "PUT"
    BY <1>8 DEF HandlerInv, Sound, FileRead, Pulled
  <2>2. \/ \E s \in Status : Responds(r, s)
        \/ Rejected
    BY <1>8 DEF FileRead, Pulled, Status
  <2> QED BY <1>5, <1>6, <2>1, <2>2
<1>9. CASE Invoked(r)
  <2>1. \/ called' = [called EXCEPT ![r] = @ + 1] /\ \E s \in Status : Responds(r, s)
        \/ called' = [called EXCEPT ![r] = @ + 1] /\ Awaits(r, "calling")
        \/ Rejected
    BY <1>9 DEF Invoked, Status
  <2>2. called' = [called EXCEPT ![r] = @ + 1] => called'[r] = 1
    BY <1>4, <1>9 DEF HandlerInv, Types
  <2> QED BY <1>5, <1>6, <1>7, <1>9, <2>1, <2>2
<1>10. CASE Returns(r)
  <2>1. called'[r] = 1
    BY <1>10 DEF Returns, HandlerInv, Sound
  <2>2. \/ \E s \in Status : Responds(r, s)
        \/ Rejected
    BY <1>10 DEF Returns, Status
  <2> QED BY <1>5, <1>6, <2>1, <2>2
<1> QED BY <1>8, <1>9, <1>10

\* The inductive step.
LEMMA StepKeepsInv ==
    ASSUME HandlerInv, [Next]_vars
    PROVE  HandlerInv'
<1>1. ASSUME ~ended, NEW m \in Module, Imports(m) \/ RemoveFile(m)
      PROVE  HandlerInv'
  BY <1>1, ModulesKeepInv
<1>2. ASSUME ~ended, NEW r \in Request,
             \/ Arrives(r) \/ Refuses(r)
             \/ Get(r) \/ Put(r) \/ Post(r) \/ Other(r)
             \/ FileRead(r) \/ Invoked(r) \/ Returns(r) \/ Pulled(r)
      PROVE  HandlerInv'
  BY <1>2, ArrivesKeepsInv, RefusesKeepsInv, ContextsKeepInv, AwaitedKeepsInv
<1>3. CASE UNCHANGED vars
  BY <1>3 DEF vars, environment, content, answers, HandlerInv, Types, Sound
<1> QED BY <1>1, <1>2, <1>3 DEF Next

\* The inductive invariant holds throughout.
THEOREM HandlerInvariant == Spec => []HandlerInv
<1>1. Init => HandlerInv
  BY InitEstablishesInv
<1>2. HandlerInv /\ [Next]_vars => HandlerInv'
  BY StepKeepsInv
<1> QED BY <1>1, <1>2, PTL DEF Spec

-----------------------------------------------------------------------------
(* The properties.                                                         *)

\* The fields of the handler keep their types (Handler.ts:36-60).
THEOREM HandlerTypeOK == Spec => []TypeOK
<1>1. HandlerInv => TypeOK
  BY DEF HandlerInv, Types, TypeOK, Phase
<1> QED BY <1>1, HandlerInvariant, PTL

\* No request is answered twice (AHandlerContext.ts:36-39,
\* PUTHandlerContext.ts:33-107, POSTHandlerContext.ts:289-330).
THEOREM HandlerOneResponse == Spec => []OneResponse
<1>1. HandlerInv => OneResponse
  BY DEF HandlerInv, Sound, OneResponse
<1> QED BY <1>1, HandlerInvariant, PTL

\* An endpoint is invoked once at most, and was by each request that is answered
\* with a result (PUTHandlerContext.ts:47-107, Handler.ts:186-194, 243-251).
THEOREM HandlerOwnWork == Spec => []OwnWork
<1>1. HandlerInv => OwnWork
  BY DEF HandlerInv, Sound, OwnWork
<1> QED BY <1>1, HandlerInvariant, PTL

\* Nothing is done in production for a request that a check refuses
\* (Handler.ts:123-184).
THEOREM HandlerNoWorkForRefused == Spec => []NoWorkForRefused
<1>1. HandlerInv => NoWorkForRefused
  BY DEF HandlerInv, Sound, NoWorkForRefused
<1> QED BY <1>1, HandlerInvariant, PTL

=============================================================================
