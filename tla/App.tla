-------------------------------- MODULE App ---------------------------------
(***************************************************************************)
(* The application that main.py assembles: middleware, each layer wrapped  *)
(* around the next, around the routers.  A request goes inwards until a    *)
(* layer answers it or a router does, and the response comes back out      *)
(* through the layers the request has passed, each putting its headers on. *)
(* An exception that nobody handles goes past all of them to Starlette's   *)
(* ServerErrorMiddleware, which runs the global exception handler.         *)
(* AiRouter and Scraper are inside; the other routers are their answers.   *)
(***************************************************************************)
EXTENDS AiRouter

\* "me" is GET /api/auth/me; "plain" what a router answers from memory
\* (/health, GET /api/ai/models); "anonymous" and "malformed" what FastAPI
\* refuses before the handler of any route.
Targets == Kinds \cup {"me", "plain", "anonymous", "malformed"}

\* Whether it is a CORS preflight, and to a host that is known.
Asks == [preflight : BOOLEAN, known : BOOLEAN, target : Targets]

NoAsk == [preflight |-> FALSE, known |-> FALSE, target |-> "none"]

ASSUME TargetsAssumption == {"none", "me", "plain", "anonymous", "malformed"} \cap DOMAIN Steps = {}

VARIABLES ask,   \* what each request is
          wire,  \* the responses that were begun for it
          log    \* what was logged of it: statuses, or Unhandled

outside == <<ask, wire, log>>
appVars == <<vars, outside>>

\* Mutant: the hosts are checked outside the security headers.
AddedHostsLate == <<"SecurityHeaders", "TrustedHost", "GZip", "CORS", "RequestID", "Latency">>

\* As create_app() adds them ...
Added == <<"TrustedHost", "SecurityHeaders", "GZip", "CORS", "RequestID", "Latency">>

\* Mutant: the order in which the comment of create_app() and TASK.md:294 put them.
StackAsListed == Added

\* ... and outermost first: Starlette wraps the last one around all others.
Stack == [i \in 1 .. Len(Added) |-> Added[Len(Added) + 1 - i]]

Layers == {Stack[i] : i \in DOMAIN Stack}

\* The line that _global_exception_handler() logs, among the statuses.
Unhandled == 0
Statuses == {200, 307, 400, 401, 422, 500, 502}
Marks    == Layers \cup {"ServerError"}

AppInit ==
    /\ Init
    /\ ask = [r \in Requests |-> NoAsk]
    /\ wire = [r \in Requests |-> <<>>]
    /\ log = [r \in Requests |-> <<>>]

-----------------------------------------------------------------------------
(* The layers. *)

\* The layers that answer a request themselves.
Stopping(q) == {i \in DOMAIN Stack : \/ Stack[i] = "CORS" /\ q.preflight
                                     \/ Stack[i] = "TrustedHost" /\ ~q.known}

First(q) == Stack[CHOOSE i \in Stopping(q) : \A j \in Stopping(q) : i <= j]

\* Those that have seen the response to q.
Passed(q) == {Stack[i] : i \in {j \in DOMAIN Stack : \A s \in Stopping(q) : j <= s}}

\* The response to q begins; _LatencyMiddleware logs its status.
Begins(r, q, code) ==
    /\ wire' = [wire EXCEPT ![r] = Append(@, [status |-> code, marks |-> Passed(q)])]
    /\ log' = IF "Latency" \in Passed(q) THEN [log EXCEPT ![r] = Append(@, code)] ELSE log

\* Mutant: a 500 is sent whether a response has begun or not.
ErrorsTwice(r) ==
    /\ log' = [log EXCEPT ![r] = Append(@, Unhandled)]
    /\ wire' = [wire EXCEPT ![r] = Append(@, [status |-> 500, marks |-> {"ServerError"}])]

\* ServerErrorMiddleware: _global_exception_handler() logs the exception, and
\* its response is sent unless one has begun.
Errors(r) ==
    /\ log' = [log EXCEPT ![r] = Append(@, Unhandled)]
    /\ wire' = IF wire[r] = <<>>
               THEN [wire EXCEPT ![r] = <<[status |-> 500, marks |-> {"ServerError"}]>>]
               ELSE wire

\* What a step of r's handler shows outside.
Shows(r, q) ==
    \/ pc'[r] = "raised" /\ Errors(r)
    \/ pc'[r] # "raised" /\ status'[r] = status[r] /\ UNCHANGED <<wire, log>>
    \/ pc'[r] # "raised" /\ status'[r] # status[r] /\ Begins(r, q, status'[r])

-----------------------------------------------------------------------------
(* The requests. *)

Arrives(r, q) == ask[r] = NoAsk /\ ask' = [ask EXCEPT ![r] = q]

\* A preflight has its answer from CORSMiddleware: 200, or 400 to an origin
\* that is not allowed; an unknown host has 400 from TrustedHostMiddleware, or a
\* redirect to "www." and its name if frontend_url has that.
TurnedBack(r, q) ==
    /\ Arrives(r, q) /\ Stopping(q) # {}
    /\ \E code \in IF First(q) = "CORS" THEN {200, 400} ELSE {307, 400} : Begins(r, q, code)
    /\ UNCHANGED vars

\* The routes that call no provider.
AtOnce(r, q) ==
    /\ Arrives(r, q) /\ Stopping(q) = {}
    /\ \/ q.target \in {"me", "plain"} /\ Begins(r, q, 200)
       \/ q.target = "anonymous" /\ Begins(r, q, 401)
       \/ q.target = "malformed" /\ Begins(r, q, 422)
       \/ q.target = "me" /\ Errors(r)   \* "user_metadata": null in the claims
    /\ UNCHANGED vars

Enters(r, q) ==
    /\ Arrives(r, q) /\ Stopping(q) = {}
    /\ q.target \in Kinds /\ (Send(r, q.target) \/ SendEmpty(r, q.target))
    /\ Shows(r, q)

\* The handler goes on; its steps are AiRouter's.
Serves(r)  == Timed(r) /\ Shows(r, ask[r]) /\ UNCHANGED ask
Thinks(r)  == LlmEnds(r) /\ Shows(r, ask[r]) /\ UNCHANGED ask
HangsUp(r) == Disconnect(r) /\ UNCHANGED outside

AppNext ==
    \E r \in Requests :
        \/ \E q \in Asks : TurnedBack(r, q) \/ AtOnce(r, q) \/ Enters(r, q)
        \/ Serves(r) \/ Thinks(r) \/ HangsUp(r)

AppSpec == AppInit /\ [][AppNext]_appVars

\* As AiRouter's: every timed step is ended by its timeout at the latest.
FairAppSpec == AppSpec /\ \A r \in Requests : WF_appVars(Serves(r))

-----------------------------------------------------------------------------
\* The type of what the application adds.
AppTypeOK ==
    /\ ask \in [Requests -> Asks \cup {NoAsk}]
    /\ wire \in [Requests -> Seq([status : Statuses, marks : SUBSET Marks])]
    /\ log \in [Requests -> Seq(Statuses \cup {Unhandled})]

Raised(r) == Unhandled \in {log[r][i] : i \in DOMAIN log[r]}

\* A request is answered at most once, a stream that breaks after its 200
\* included, and with what its handler decided (main.py:205-217).
OneResponse ==
    \A r \in Requests :
        /\ Len(wire[r]) <= 1
        /\ pc[r] \in {"done", "raised", "gone"} => wire[r] # <<>>
        /\ status[r] # 0 => wire[r] # <<>> /\ wire[r][1].status = status[r]

\* Every response bears its request id, in its headers or, a 500 that nobody
\* handled, in its body; and the log tells of it: its status and, whatever the
\* client has seen, the exception (main.py:112-131, 179-217).
Traceable ==
    \A r \in Requests :
        /\ \A i \in DOMAIN wire[r] :
              /\ wire[r][i].marks \cap {"RequestID", "ServerError"} # {}
              /\ wire[r][i].status \in {log[r][j] : j \in DOMAIN log[r]} \/ Raised(r)
        /\ pc[r] = "raised" => Raised(r)

\* A response has the security headers unless it answers a preflight, and
\* those of CORS, but for a 500 that nobody handled (main.py:137-173, 273-281).
Hardened ==
    \A r \in Requests : \A i \in DOMAIN wire[r] :
        \/ "ServerError" \in wire[r][i].marks
        \/ /\ "SecurityHeaders" \in wire[r][i].marks \/ ask[r].preflight
           /\ "CORS" \in wire[r][i].marks
=============================================================================
