------------------------------ MODULE Handler ------------------------------
(***************************************************************************)
(* What becomes of a request that is handed to Handler.activate, in one    *)
(* worker (Handler.ts, AHandlerContext.ts, PUTHandlerContext.ts,           *)
(* RPCController.ts).                                                      *)
(*                                                                         *)
(* activate runs the checks and the start of the context in one go; what   *)
(* it awaits later are files (GET, HEAD), a module and the function of an  *)
(* endpoint (PUT) and a download (POST).  All process methods are async:   *)
(* what they throw is a rejection that nobody handles, not even the catch  *)
(* around them, and ends the worker.  The modules of the endpoints are     *)
(* imported from the construction on, without being awaited.  Responses    *)
(* are stored in a cache whose has is never true (Cache.ts): it is left    *)
(* out.                                                                    *)
(***************************************************************************)
EXTENDS Naturals, FiniteSets

CONSTANTS
    Request,    \* the requests
    Module,     \* the modules of the API directory
    Unknown     \* a module that does not exist

ASSUME HandlerAssumption == Unknown \notin Module

Method == {"GET", "HEAD", "PUT", "POST", "OTHER"}
Check == {"host", "rate", "uri", "body", "headers"}

VARIABLES
    dev,            \* env.dev
    rpcController,  \* there is an API directory
    repo,           \* package.json names a repository of a known platform
    files,          \* the modules whose files exist
    modules,        \* the modules that are imported
    phase,          \* what each request is at
    method,         \* its method
    module,         \* the module of the endpoint that it names
    member,         \* whose the name is: the module's, every object's or nobody's
    refused,        \* the security checks it fails
    responses,      \* how often a response was given
    status,         \* the status of the first, 0 before
    called,         \* how often its endpoint was invoked
    ended           \* the worker is gone

environment == <<dev, rpcController, repo, files, modules>>
content == <<method, module, member, refused>>
answers == <<phase, responses, status>>
vars == <<environment, content, answers, called, ended>>

Init ==
    /\ dev \in BOOLEAN
    /\ rpcController \in BOOLEAN
    /\ repo \in BOOLEAN
    /\ files = Module
    /\ modules = {}
    /\ phase = [r \in Request |-> "new"]
    /\ method = [r \in Request |-> "OTHER"]
    /\ module = [r \in Request |-> Unknown]
    /\ member = [r \in Request |-> "missing"]
    /\ refused = [r \in Request |-> {}]
    /\ responses = [r \in Request |-> 0]
    /\ status = [r \in Request |-> 0]
    /\ called = [r \in Request |-> 0]
    /\ ended = FALSE

-----------------------------------------------------------------------------
(* RPCController.                                                          *)

\* importModule of load.  A module that cannot be imported is a rejection too.
Imports(m) ==
    /\ rpcController
    /\ m \in Module \ modules
    /\ \/ modules' = modules \cup {m} /\ UNCHANGED ended
       \/ ended' = TRUE /\ UNCHANGED modules
    /\ UNCHANGED <<dev, rpcController, repo, files, content, answers, called>>

\* The file of a module is removed.
RemoveFile(m) ==
    /\ m \in files
    /\ files' = files \ {m}
    /\ UNCHANGED <<dev, rpcController, repo, modules, content, answers, called, ended>>

\* hasEndpoint: the name is looked up in the module, or else in an empty object,
\* which inherits some names too.
HasEndpoint(r) == member[r] = "inherited" \/ (member[r] = "own" /\ module[r] \in modules)

-----------------------------------------------------------------------------
(* Responses.                                                              *)

\* The promise of activate is resolved with the status s.
Responds(r, s) ==
    /\ responses' = [responses EXCEPT ![r] = @ + 1]
    /\ status' = [status EXCEPT ![r] = IF @ = 0 THEN s ELSE @]
    /\ phase' = [phase EXCEPT ![r] = "settled"]

\* The process method is rejected, which ends the worker.
Rejected == ended' = TRUE /\ UNCHANGED answers

\* process awaits something.
Awaits(r, what) ==
    /\ phase' = [phase EXCEPT ![r] = what]
    /\ UNCHANGED <<responses, status>>

-----------------------------------------------------------------------------
(* activate.                                                               *)

\* The checks in their order, with the status of a request that fails them.
\* In development only the first is made.
Checks ==
    << <<"host", 404>>, <<"rate", 429>>, <<"uri", 414>>, <<"body", 413>>, <<"headers", 431>> >>

Failed(r) == {i \in 1 .. 5 : Checks[i][1] \in refused[r] /\ (dev => i = 1)}

\* The status of a request that some check refuses, 0 if none does.
Refusal(r) ==
    IF Failed(r) = {} THEN 0
    ELSE Checks[CHOOSE i \in Failed(r) : \A j \in Failed(r) : i <= j][2]

\* What a request with the method m may name: only that of a PUT is looked at.
Endpoints(m) ==
    IF m = "PUT" THEN (Module \cup {Unknown}) \X {"own", "inherited", "missing"}
    ELSE {<<Unknown, "missing">>}

\* A request arrives, which fails no check, one, or all.
Arrives(r) ==
    /\ phase[r] = "new"
    /\ phase' = [phase EXCEPT ![r] = "arrived"]
    /\ \E m \in Method : \E e \in Endpoints(m) :
          /\ method' = [method EXCEPT ![r] = m]
          /\ module' = [module EXCEPT ![r] = e[1]]
          /\ member' = [member EXCEPT ![r] = e[2]]
    /\ \E checks \in {{k} : k \in Check} \cup {{}, Check} : refused' = [refused EXCEPT ![r] = checks]
    /\ UNCHANGED <<environment, responses, status, called, ended>>

\* It is refused.
Refuses(r) ==
    /\ phase[r] = "arrived"
    /\ Refusal(r) # 0
    /\ Responds(r, Refusal(r))
    /\ UNCHANGED <<environment, content, called, ended>>

\* It passes, and a context is made.
Passes(r) ==
    /\ phase[r] = "arrived"
    /\ Refusal(r) = 0
    /\ UNCHANGED content

\* A redirect is answered at once, other files are read.
Get(r) ==
    /\ method[r] \in {"GET", "HEAD"}
    /\ Passes(r)
    /\ \/ Responds(r, 400)
       \/ Responds(r, 301)
       \/ Awaits(r, "reading")
    /\ UNCHANGED <<environment, called, ended>>

\* There is no API directory; the body is no JSON, or null, which has no name;
\* there is no such endpoint; or it is invoked, which in development looks the
\* module's file up again: one that is not there is a rejection.
Put(r) ==
    /\ method[r] = "PUT"
    /\ Passes(r)
    /\ \/ ~rpcController /\ Responds(r, 405) /\ UNCHANGED ended
       \/ rpcController /\ Responds(r, 400) /\ UNCHANGED ended
       \/ rpcController /\ Rejected
       \/ rpcController /\ ~HasEndpoint(r) /\ Responds(r, 404) /\ UNCHANGED ended
       \/ /\ rpcController
          /\ HasEndpoint(r)
          /\ IF dev /\ module[r] \notin files
             THEN Rejected
             ELSE Awaits(r, "importing") /\ UNCHANGED ended
    /\ UNCHANGED <<environment, called>>

\* The signature is missing or wrong.
NotSigned(r) == Responds(r, 404) \/ Responds(r, 403)

\* Without a repository, or for another path, there is no hook; a signed one
\* whose payload is for a dry run is answered at once.
Post(r) ==
    /\ method[r] = "POST"
    /\ Passes(r)
    /\ \/ Responds(r, 404)
       \/ repo /\ NotSigned(r)
       \/ repo /\ (Responds(r, 200) \/ Awaits(r, "pulling"))
    /\ UNCHANGED <<environment, called, ended>>

Other(r) ==
    /\ method[r] = "OTHER"
    /\ Passes(r)
    /\ Responds(r, 405)
    /\ UNCHANGED <<environment, called, ended>>

-----------------------------------------------------------------------------
(* What a context awaits.                                                  *)

\* The file is read, or its fallback, or the read is rejected.
FileRead(r) ==
    /\ phase[r] = "reading"
    /\ \/ (\E s \in {200, 304, 404} : Responds(r, s)) /\ UNCHANGED ended
       \/ Rejected
    /\ UNCHANGED <<environment, content, called>>

\* The module that the member is of: in development it is imported again, in
\* production it may not be there, yet or at all.
TakesModule(r) ==
    /\ dev \/ module[r] \in modules
    /\ modules' = modules \cup ({module[r]} \cap Module)

\* invokeEndpoint is rejected, if the import fails or there is no module; or the
\* member is taken and called, if it is a function: that throws, or returns what
\* may be a promise.
Invoked(r) ==
    /\ phase[r] = "importing"
    /\ \/ /\ dev \/ module[r] \notin modules
          /\ Rejected
          /\ UNCHANGED <<modules, called>>
       \/ /\ TakesModule(r)
          /\ called' = [called EXCEPT ![r] = @ + 1]
          /\ \/ Responds(r, 200) /\ UNCHANGED ended
             \/ Awaits(r, "calling") /\ UNCHANGED ended
             \/ Rejected
    /\ UNCHANGED <<dev, rpcController, repo, files, content>>

\* Mutant of Returns: a call whose promise is rejected is made again.
ReturnsRetrying(r) ==
    /\ phase[r] = "calling"
    /\ Responds(r, 200) \/ Awaits(r, "importing")
    /\ UNCHANGED <<environment, content, called, ended>>

\* The promise is settled.
Returns(r) ==
    /\ phase[r] = "calling"
    /\ \/ Responds(r, 200) /\ UNCHANGED ended
       \/ Rejected
    /\ UNCHANGED <<environment, content, called>>

\* Mutant of Pulled: no finally, so that a failed download is not answered.
PulledSilently(r) ==
    /\ phase[r] = "pulling"
    /\ phase' = [phase EXCEPT ![r] = "settled"]
    /\ UNCHANGED <<environment, content, responses, status, called, ended>>

\* The archive is there, or a request for it failed.
Pulled(r) ==
    /\ phase[r] = "pulling"
    /\ \E s \in {200, 404} : Responds(r, s)
    /\ UNCHANGED <<environment, content, called, ended>>

Next ==
    /\ ~ended
    /\ \/ \E m \in Module : Imports(m) \/ RemoveFile(m)
       \/ \E r \in Request :
             \/ Arrives(r) \/ Refuses(r)
             \/ Get(r) \/ Put(r) \/ Post(r) \/ Other(r)
             \/ FileRead(r) \/ Invoked(r) \/ Returns(r) \/ Pulled(r)

Spec == Init /\ [][Next]_vars

-----------------------------------------------------------------------------
(* Properties.                                                             *)

Awaiting == {"reading", "importing", "calling", "pulling"}
Status == {200, 301, 304, 400, 403, 404, 405, 413, 414, 429, 431}

\* Type invariant (Handler.ts:36-60, RPCController.ts:12-24).
TypeOK ==
    /\ dev \in BOOLEAN
    /\ rpcController \in BOOLEAN
    /\ repo \in BOOLEAN
    /\ files \subseteq Module
    /\ modules \subseteq Module
    /\ phase \in [Request -> {"new", "arrived", "settled"} \cup Awaiting]
    /\ method \in [Request -> Method]
    /\ module \in [Request -> Module \cup {Unknown}]
    /\ member \in [Request -> {"own", "inherited", "missing"}]
    /\ refused \in [Request -> SUBSET Check]
    /\ responses \in [Request -> Nat]
    /\ status \in [Request -> Status \cup {0}]
    /\ called \in [Request -> Nat]
    /\ ended \in BOOLEAN

\* No request is answered twice, which throws, and none is dropped: what is not
\* answered yet awaits something (AHandlerContext.ts:36-39, PUTHandlerContext.ts:
\* 33-107, POSTHandlerContext.ts:289-330).
OneResponse ==
    \A r \in Request : responses[r] = IF phase[r] = "settled" THEN 1 ELSE 0

\* The endpoint that a PUT names is invoked once at most, and it was by each
\* request that is answered with a result: none is made good by another call, or
\* by the result of another request, whose arguments may differ
\* (PUTHandlerContext.ts:47-107).
OwnWork ==
    \A r \in Request : method[r] = "PUT" =>
        /\ called[r] <= 1
        /\ status[r] = 200 => called[r] = 1

\* In production nothing is done for a request that any check refuses: no
\* context is made, nothing read or invoked (Handler.ts:123-184).
NoWorkForRefused ==
    \A r \in Request : ~dev /\ refused[r] # {} =>
        /\ phase[r] \notin Awaiting
        /\ called[r] = 0
=============================================================================
