----------------------------- MODULE AppProofs ------------------------------
(***************************************************************************)
(* Theorems about App, for any number of requests: inside it AiRouter runs *)
(* as it does alone, so AiRouterProofs holds of it, and what its layers    *)
(* and its exception handler send is one response that can be traced.      *)
(***************************************************************************)
EXTENDS App, AiRouterProofs

-----------------------------------------------------------------------------
(* The application is an AiRouter. *)

LEMMA StepIsAiRouters == AppNext => [Next]_vars
<1>1. ASSUME NEW r \in Requests, NEW q \in Asks, Enters(r, q) PROVE Next
  BY <1>1 DEF Enters, Next
<1>2. ASSUME NEW r \in Requests, Serves(r) \/ Thinks(r) \/ HangsUp(r) PROVE Next
  BY <1>2 DEF Serves, Thinks, HangsUp, Next
<1> QED
  BY <1>1, <1>2 DEF AppNext, TurnedBack, AtOnce

\* Whatever the layers do, the handlers behave as AiRouter lets them: its
\* theorems are theorems about the application (create_app, main.py:243-321).
THEOREM AppIsAiRouter == AppSpec => Spec
<1>1. [AppNext]_appVars => [Next]_vars
  BY StepIsAiRouters DEF appVars
<1> QED
  BY <1>1, PTL DEF AppSpec, AppInit, Spec

-----------------------------------------------------------------------------
(* The stack of layers. *)

LEMMA StackIs ==
  /\ DOMAIN Stack = 1 .. 6
  /\ Stack[1] = "Latency" /\ Stack[2] = "RequestID" /\ Stack[3] = "CORS" /\ Stack[4] = "GZip"
  /\ Stack[5] = "SecurityHeaders" /\ Stack[6] = "TrustedHost"
<1>1. /\ Len(Added) = 6
      /\ Added[1] = "TrustedHost" /\ Added[2] = "SecurityHeaders" /\ Added[3] = "GZip"
      /\ Added[4] = "CORS" /\ Added[5] = "RequestID" /\ Added[6] = "Latency"
  BY DEF Added
<1>2. DOMAIN Stack = 1 .. 6 /\ \A i \in 1 .. 6 : Stack[i] = Added[7 - i]
  BY <1>1 DEF Stack
<1> QED
  BY <1>1, <1>2

\* Every response passes the three outermost layers, and all but that to a
\* preflight the security headers.
LEMMA PassedLayers ==
  ASSUME NEW q \in Asks
  PROVE  /\ Passed(q) \in SUBSET Marks
         /\ {"Latency", "RequestID", "CORS"} \subseteq Passed(q)
         /\ "SecurityHeaders" \in Passed(q) \/ q.preflight
<1>1. Stopping(q) \subseteq {3, 6} /\ (~q.preflight => Stopping(q) \subseteq {6})
  <2> SUFFICES ASSUME NEW i \in Stopping(q) PROVE i \in {3, 6} /\ (~q.preflight => i = 6)
    OBVIOUS
  <2>1. i \in 1 .. 6 /\ ((Stack[i] = "CORS" /\ q.preflight) \/ Stack[i] = "TrustedHost")
    BY StackIs DEF Stopping
  <2>2. i \in {1, 2, 3, 4, 5, 6}
    BY <2>1
  <2> QED
    BY <2>1, <2>2, StackIs
<1>2. ASSUME NEW i \in 1 .. 6, \A s \in Stopping(q) : i <= s
      PROVE  Stack[i] \in Passed(q)
  BY <1>2, StackIs DEF Passed
<1>3. Stack[1] \in Passed(q) /\ Stack[2] \in Passed(q) /\ Stack[3] \in Passed(q)
  BY <1>1, <1>2
<1>4. ~q.preflight => Stack[5] \in Passed(q)
  BY <1>1, <1>2
<1>5. q.preflight \in BOOLEAN
  BY DEF Asks
<1>6. Passed(q) \subseteq Layers
  BY DEF Passed, Layers
<1> QED
  BY <1>3, <1>4, <1>5, <1>6, StackIs DEF Marks

-----------------------------------------------------------------------------
(* Responses. *)

Responses == [status : Statuses, marks : SUBSET Marks]

\* What every response to r owes to the reader of headers and logs.
Proper(r, response) ==
    /\ response.marks \cap {"RequestID", "ServerError"} # {}
    /\ response.status \in {log[r][j] : j \in DOMAIN log[r]} \/ Raised(r)
    /\ \/ "ServerError" \in response.marks
       \/ /\ "SecurityHeaders" \in response.marks \/ ask[r].preflight
          /\ "CORS" \in response.marks

\* A request has no response, or one, which is proper.
Answered(r) == \E response \in Responses : wire[r] = <<response>> /\ Proper(r, response)

Fit(r) ==
    /\ wire[r] = <<>> \/ Answered(r)
    /\ ask[r] = NoAsk => wire[r] = <<>> /\ pc[r] = "idle"
    /\ status[r] # 0 => wire[r] # <<>> /\ wire[r][1].status = status[r]
    /\ pc[r] # "idle" /\ status[r] = 0 => wire[r] = <<>>
    /\ pc[r] = "running" /\ kind[r] \notin Streams => status[r] = 0
    /\ pc[r] = "raised" => Raised(r)
    /\ pc[r] = "gone" => status[r] # 0

AppInv == AppTypeOK /\ \A r \in Requests : Fit(r)

LEMMA NoAskIsNone == NoAsk \notin Asks
  BY TargetsAssumption, KindsAssumption
     DEF NoAsk, Asks, Targets, TargetsAssumption, KindsAssumption

LEMMA InitAppInv == AppInit => AppInv
  BY DEF AppInit, Init, AppInv, AppTypeOK, Fit

\* One request is touched, the others are as they were.
Untouched(q) == /\ ask'[q] = ask[q] /\ wire'[q] = wire[q] /\ log'[q] = log[q]
                /\ pc'[q] = pc[q] /\ status'[q] = status[q] /\ kind'[q] = kind[q]

LEMMA UntouchedFits == ASSUME NEW q \in Requests, Fit(q), Untouched(q) PROVE Fit(q)'
<1>1. Raised(q)' <=> Raised(q)
  BY DEF Untouched, Raised
<1>2. ASSUME NEW response \in Responses, Proper(q, response) PROVE Proper(q, response)'
  BY <1>1, <1>2 DEF Untouched, Proper
<1> QED
  BY <1>1, <1>2 DEF Untouched, Fit, Answered

\* Writing a line to the log: it is in there, and so is all from before.
LEMMA Logged ==
  ASSUME AppTypeOK, NEW r \in Requests, NEW line \in Statuses \cup {Unhandled},
         log' = [log EXCEPT ![r] = Append(@, line)]
  PROVE  /\ log' \in [Requests -> Seq(Statuses \cup {Unhandled})]
         /\ \A q \in Requests \ {r} : log'[q] = log[q]
         /\ line \in {log'[r][j] : j \in DOMAIN log'[r]}
<1>1. log[r] \in Seq(Statuses \cup {Unhandled}) /\ Len(log[r]) \in Nat
  BY DEF AppTypeOK
<1> DEFINE longer == Append(log[r], line)
<1>2. longer \in Seq(Statuses \cup {Unhandled})
  BY <1>1
<1>3. Len(log[r]) + 1 \in DOMAIN longer /\ longer[Len(log[r]) + 1] = line
  BY <1>1
<1>4. log' = [log EXCEPT ![r] = longer]
  OBVIOUS
<1> HIDE DEF longer
<1>5. log'[r] = longer
  BY <1>4 DEF AppTypeOK
<1> QED
  BY <1>2, <1>3, <1>4, <1>5 DEF AppTypeOK

\* The first response of a request.
LEMMA FirstResponse ==
  ASSUME AppTypeOK, NEW r \in Requests, NEW response \in Responses,
         wire' = [wire EXCEPT ![r] = <<response>>]
  PROVE  /\ wire' \in [Requests -> Seq(Responses)]
         /\ wire'[r] = <<response>> /\ \A q \in Requests \ {r} : wire'[q] = wire[q]
<1> DEFINE one == <<response>>
<1>1. one \in Seq(Responses)
  OBVIOUS
<1>2. wire \in [Requests -> Seq(Responses)]
  BY DEF AppTypeOK, Responses
<1> HIDE DEF one
<1>3. wire' = [wire EXCEPT ![r] = one]
  BY DEF one
<1>4. wire' \in [Requests -> Seq(Responses)] /\ wire'[r] = one
      /\ \A q \in Requests \ {r} : wire'[q] = wire[q]
  BY <1>1, <1>2, <1>3
<1> QED
  BY <1>4 DEF one

LEMMA BeginsFirst ==
  ASSUME AppTypeOK, NEW r \in Requests, NEW q \in Asks, NEW code \in Statuses,
         wire[r] = <<>>, ask'[r] = q, Begins(r, q, code)
  PROVE  /\ wire' \in [Requests -> Seq(Responses)]
         /\ log' \in [Requests -> Seq(Statuses \cup {Unhandled})]
         /\ \A p \in Requests \ {r} : wire'[p] = wire[p] /\ log'[p] = log[p]
         /\ Answered(r)' /\ wire'[r] # <<>> /\ wire'[r][1].status = code
<1> DEFINE response == [status |-> code, marks |-> Passed(q)]
<1>1. response \in Responses /\ response.status = code /\ response.marks = Passed(q)
  BY PassedLayers DEF Responses
<1>2. wire' = [wire EXCEPT ![r] = <<response>>]
  BY DEF Begins
<1>3. log' = [log EXCEPT ![r] = Append(@, code)]
  BY PassedLayers DEF Begins
<1> HIDE DEF response
<1>4. /\ wire' \in [Requests -> Seq(Responses)] /\ wire'[r] = <<response>>
      /\ \A p \in Requests \ {r} : wire'[p] = wire[p]
  BY <1>1, <1>2, FirstResponse
<1>5. /\ log' \in [Requests -> Seq(Statuses \cup {Unhandled})]
      /\ \A p \in Requests \ {r} : log'[p] = log[p]
      /\ code \in {log'[r][j] : j \in DOMAIN log'[r]}
  BY <1>3, Logged
<1>6. Proper(r, response)'
  BY <1>1, <1>5, PassedLayers DEF Proper
<1>7. wire'[r] # <<>> /\ wire'[r][1] = response
  BY <1>4
<1> QED
  BY <1>1, <1>4, <1>5, <1>6, <1>7 DEF Answered

LEMMA ErrorsOnce ==
  ASSUME AppTypeOK, NEW r \in Requests, Errors(r), wire[r] = <<>> \/ Answered(r), ask'[r] = ask[r] \/ wire[r] = <<>>
  PROVE  /\ wire' \in [Requests -> Seq(Responses)]
         /\ log' \in [Requests -> Seq(Statuses \cup {Unhandled})]
         /\ \A p \in Requests \ {r} : wire'[p] = wire[p] /\ log'[p] = log[p]
         /\ Raised(r)' /\ Answered(r)' /\ wire'[r] # <<>>
         /\ wire'[r][1].status = IF wire[r] = <<>> THEN 500 ELSE wire[r][1].status
<1>1. /\ log' \in [Requests -> Seq(Statuses \cup {Unhandled})]
      /\ \A p \in Requests \ {r} : log'[p] = log[p]
      /\ Raised(r)'
  BY Logged DEF Errors, Raised
<1>2. CASE wire[r] = <<>>
  <2> DEFINE response == [status |-> 500, marks |-> {"ServerError"}]
  <2>1. response \in Responses /\ response.status = 500 /\ response.marks = {"ServerError"}
    BY DEF Responses, Statuses, Marks
  <2>2. wire' = [wire EXCEPT ![r] = <<response>>]
    BY <1>2 DEF Errors
  <2> HIDE DEF response
  <2>3. /\ wire' \in [Requests -> Seq(Responses)] /\ wire'[r] = <<response>>
        /\ \A p \in Requests \ {r} : wire'[p] = wire[p]
    <3>1. response \in Responses
      BY <2>1
    <3> QED
      BY <2>2, <3>1, FirstResponse
  <2>4. Proper(r, response)'
    BY <1>1, <2>1 DEF Proper
  <2>5. wire'[r] # <<>> /\ wire'[r][1] = response
    BY <2>3
  <2> QED
    BY <1>1, <1>2, <2>1, <2>3, <2>4, <2>5 DEF Answered
<1>3. CASE wire[r] # <<>>
  <2>1. wire' = wire /\ wire \in [Requests -> Seq(Responses)] /\ ask'[r] = ask[r]
    BY <1>3 DEF Errors, AppTypeOK, Responses
  <2>2. PICK response \in Responses : wire[r] = <<response>> /\ Proper(r, response)
    BY <1>3 DEF Answered
  <2>3. Proper(r, response)'
    BY <1>1, <2>1, <2>2 DEF Proper
  <2> QED
    BY <1>1, <1>3, <2>1, <2>2, <2>3 DEF Answered
<1> QED
  BY <1>2, <1>3

-----------------------------------------------------------------------------
(* Every action keeps the invariant. *)

\* What is left to show of a step of r.
LEMMA AppCloses ==
  ASSUME AppInv, NEW r \in Requests, AppTypeOK', Fit(r)', \A q \in Requests \ {r} : Untouched(q)
  PROVE  AppInv'
  BY UntouchedFits DEF AppInv

LEMMA TurnedBackKeeps ==
  ASSUME AppInv, IInv, NEW r \in Requests, NEW q \in Asks, TurnedBack(r, q) \/ AtOnce(r, q)
  PROVE  AppInv'
<1>1. /\ AppTypeOK /\ ask[r] = NoAsk /\ wire[r] = <<>> /\ pc[r] = "idle" /\ status[r] = 0
      /\ ask' = [ask EXCEPT ![r] = q] /\ UNCHANGED <<pc, status, kind>>
  BY DEF TurnedBack, AtOnce, Arrives, vars, AppInv, Fit, IInv, RequestInv, Placed
<1>2. /\ ask' \in [Requests -> Asks \cup {NoAsk}] /\ ask'[r] = q /\ q # NoAsk
      /\ \A p \in Requests \ {r} : ask'[p] = ask[p]
  BY <1>1, NoAskIsNone DEF AppTypeOK
<1>3. (\E code \in Statuses : Begins(r, q, code)) \/ Errors(r)
  BY DEF TurnedBack, AtOnce, Statuses
<1>4. /\ wire' \in [Requests -> Seq(Responses)]
      /\ log' \in [Requests -> Seq(Statuses \cup {Unhandled})]
      /\ \A p \in Requests \ {r} : wire'[p] = wire[p] /\ log'[p] = log[p]
      /\ Answered(r)'
  BY <1>1, <1>2, <1>3, BeginsFirst, ErrorsOnce
<1>5. AppTypeOK'
  BY <1>2, <1>4 DEF AppTypeOK, Responses
<1>6. Fit(r)'
  BY <1>1, <1>2, <1>4 DEF Fit
<1>7. \A p \in Requests \ {r} : Untouched(p)
  BY <1>1, <1>2, <1>4 DEF Untouched
<1> QED
  BY <1>5, <1>6, <1>7, AppCloses

\* A handler's step decides the status at most once.
LEMMA DecidesOnce ==
  ASSUME AppInv, IInv, NEW r \in Requests, Timed(r) \/ LlmEnds(r)
  PROVE  /\ pc[r] = "running" /\ kind' = kind
         /\ \A q \in Requests \ {r} : pc'[q] = pc[q] /\ status'[q] = status[q]
         /\ pc'[r] \in {"running", "done", "raised"}
         /\ status[r] # 0 => status'[r] = status[r]
         /\ status'[r] \in Statuses \cup {0}
         /\ pc'[r] = "running" => status'[r] = status[r]
         /\ pc'[r] = "raised" => status'[r] = IF status[r] = 0 THEN 500 ELSE status[r]
         /\ pc'[r] # "running" => status'[r] # 0
<1>1. /\ pc[r] = "running" /\ FieldTypes
      /\ kind[r] \notin Streams => status[r] = 0
      /\ kind[r] \in Streams => status[r] = 200
  BY DEF Timed, LlmEnds, ScrapeGoesOn, ScrapeEnds, GenerateEnds, UploadReturns, UploadRaises,
     LocateEnds, Working, AppInv, Fit, IInv, RequestInv, Told
<1>2. \/ Advance(r) \/ (\E code \in {500, 502} : Fails(r, code)) \/ Breaks(r)
      \/ UNCHANGED <<kind, pc, status>>
  BY DEF Timed, LlmEnds, ScrapeGoesOn, ScrapeEnds, GenerateEnds, UploadReturns, UploadRaises,
     LocateEnds
<1>3. kind' = kind
  BY <1>2 DEF Advance, Fails, Breaks
<1>4. ASSUME NEW how \in {"done", "raised"}, NEW code \in {200, 500, 502}, Leaves(r, how, code)
      PROVE  /\ pc'[r] = how /\ \A q \in Requests \ {r} : pc'[q] = pc[q] /\ status'[q] = status[q]
             /\ status'[r] = IF status[r] = 0 THEN code ELSE status[r]
  <2>1. CASE Streaming(r)
    BY <1>1, <1>4, <2>1 DEF Leaves, Streaming, FieldTypes
  <2>2. CASE ~Streaming(r)
    BY <1>1, <1>4, <2>2 DEF Leaves, Streaming, FieldTypes
  <2> QED
    BY <2>1, <2>2
<1>5. \/ UNCHANGED <<pc, status>>
      \/ \E code \in {200, 500, 502} : Leaves(r, "done", code)
      \/ Leaves(r, "raised", 500)
  BY <1>2 DEF Advance, Fails, Breaks, Responds
<1>6. CASE UNCHANGED <<pc, status>>
  BY <1>1, <1>3, <1>6 DEF Statuses
<1>7. CASE \E code \in {200, 500, 502} : Leaves(r, "done", code)
  BY <1>1, <1>3, <1>4, <1>7 DEF Statuses
<1>8. CASE Leaves(r, "raised", 500)
  BY <1>1, <1>3, <1>4, <1>8 DEF Statuses
<1> QED
  BY <1>5, <1>6, <1>7, <1>8

LEMMA HandlerKeeps ==
  ASSUME AppInv, IInv, NEW r \in Requests, Serves(r) \/ Thinks(r)
  PROVE  AppInv'
<1>1. /\ Shows(r, ask[r]) /\ ask' = ask
      /\ Timed(r) \/ LlmEnds(r)
  BY DEF Serves, Thinks
<1>2. /\ AppTypeOK /\ pc[r] = "running" /\ kind' = kind
      /\ \A q \in Requests \ {r} : pc'[q] = pc[q] /\ status'[q] = status[q]
      /\ pc'[r] \in {"running", "done", "raised"}
      /\ status[r] # 0 => status'[r] = status[r]
      /\ status'[r] \in Statuses \cup {0}
      /\ pc'[r] = "running" => status'[r] = status[r]
      /\ pc'[r] = "raised" => status'[r] = IF status[r] = 0 THEN 500 ELSE status[r]
      /\ pc'[r] # "running" => status'[r] # 0
  BY <1>1, DecidesOnce DEF AppInv
<1>3. /\ Fit(r) /\ ask[r] # NoAsk /\ ask[r] \in Asks
      /\ status[r] = 0 => wire[r] = <<>>
      /\ status[r] # 0 => wire[r] # <<>> /\ wire[r][1].status = status[r]
      /\ wire[r] = <<>> \/ Answered(r)
  BY <1>2 DEF AppInv, Fit, AppTypeOK
<1>4. CASE pc'[r] = "raised"
  <2>1. Errors(r)
    BY <1>1, <1>4 DEF Shows
  <2>2. /\ wire' \in [Requests -> Seq(Responses)]
        /\ log' \in [Requests -> Seq(Statuses \cup {Unhandled})]
        /\ \A p \in Requests \ {r} : wire'[p] = wire[p] /\ log'[p] = log[p]
        /\ Raised(r)' /\ Answered(r)' /\ wire'[r] # <<>>
        /\ wire'[r][1].status = IF wire[r] = <<>> THEN 500 ELSE wire[r][1].status
    BY <1>1, <1>2, <1>3, <2>1, ErrorsOnce
  <2>3. AppTypeOK'
    BY <1>1, <1>2, <2>2 DEF AppTypeOK, Responses
  <2>4. Fit(r)'
    BY <1>1, <1>2, <1>3, <1>4, <2>2 DEF Fit
  <2> QED
    BY <1>1, <1>2, <2>2, <2>3, <2>4, AppCloses DEF Untouched
<1>5. CASE pc'[r] # "raised" /\ status'[r] = status[r]
  <2>1. wire' = wire /\ log' = log
    BY <1>1, <1>5 DEF Shows
  <2>2. AppTypeOK'
    BY <1>1, <1>2, <2>1 DEF AppTypeOK
  <2>3. Answered(r) => Answered(r)'
    BY <1>1, <2>1 DEF Answered, Proper, Raised
  <2>4. Fit(r)'
    BY <1>1, <1>2, <1>3, <1>5, <2>1, <2>3 DEF Fit
  <2> QED
    BY <1>1, <1>2, <2>1, <2>2, <2>4, AppCloses DEF Untouched
<1>6. CASE pc'[r] # "raised" /\ status'[r] # status[r]
  <2>1. Begins(r, ask[r], status'[r]) /\ wire[r] = <<>> /\ status'[r] \in Statuses
    BY <1>1, <1>2, <1>3, <1>6 DEF Shows
  <2>2. /\ wire' \in [Requests -> Seq(Responses)]
        /\ log' \in [Requests -> Seq(Statuses \cup {Unhandled})]
        /\ \A p \in Requests \ {r} : wire'[p] = wire[p] /\ log'[p] = log[p]
        /\ Answered(r)' /\ wire'[r] # <<>> /\ wire'[r][1].status = status'[r]
    BY <1>1, <1>2, <1>3, <2>1, BeginsFirst
  <2>3. AppTypeOK'
    BY <1>1, <1>2, <2>2 DEF AppTypeOK, Responses
  <2>4. Fit(r)'
    BY <1>1, <1>2, <1>3, <1>6, <2>2 DEF Fit
  <2> QED
    BY <1>1, <1>2, <2>2, <2>3, <2>4, AppCloses DEF Untouched
<1> QED
  BY <1>4, <1>5, <1>6

LEMMA EntersKeeps ==
  ASSUME AppInv, IInv, NEW r \in Requests, NEW q \in Asks, Enters(r, q)
  PROVE  AppInv'
<1> DEFINE k == q.target
<1>1. /\ AppTypeOK /\ FieldTypes /\ ask[r] = NoAsk /\ wire[r] = <<>> /\ pc[r] = "idle"
      /\ status[r] = 0 /\ ask' = [ask EXCEPT ![r] = q] /\ Shows(r, q)
      /\ Send(r, k) \/ SendEmpty(r, k)
  BY DEF Enters, Arrives, AppInv, Fit, IInv, RequestInv, Placed
<1>2. /\ ask' \in [Requests -> Asks \cup {NoAsk}] /\ ask'[r] = q /\ q # NoAsk
      /\ \A p \in Requests \ {r} : ask'[p] = ask[p]
  BY <1>1, NoAskIsNone DEF AppTypeOK
<1>3. /\ kind' = [kind EXCEPT ![r] = k]
      /\ \/ /\ pc' = [pc EXCEPT ![r] = "running"]
            /\ IF k \in Streams THEN status' = [status EXCEPT ![r] = 200] ELSE status' = status
         \/ pc' = [pc EXCEPT ![r] = "done"] /\ status' = [status EXCEPT ![r] = 400]
  BY <1>1 DEF Send, SendEmpty
<1>4. /\ kind'[r] = k /\ pc'[r] \in {"running", "done"}
      /\ \A p \in Requests \ {r} : /\ kind'[p] = kind[p] /\ pc'[p] = pc[p]
                                   /\ status'[p] = status[p]
      /\ pc'[r] = "running" => status'[r] = IF k \in Streams THEN 200 ELSE 0
      /\ pc'[r] = "done" => status'[r] = 400
  <2> HIDE DEF k
  <2>1. CASE k \in Streams
    BY <1>1, <1>3, <2>1 DEF FieldTypes
  <2>2. CASE k \notin Streams
    BY <1>1, <1>3, <2>2 DEF FieldTypes
  <2> QED
    BY <2>1, <2>2
<1> HIDE DEF k
<1>5. CASE status'[r] = 0
  <2>1. wire' = wire /\ log' = log
    BY <1>1, <1>4, <1>5 DEF Shows
  <2>2. AppTypeOK'
    BY <1>1, <1>2, <2>1 DEF AppTypeOK
  <2>3. Fit(r)'
    BY <1>1, <1>2, <1>4, <1>5, <2>1 DEF Fit
  <2> QED
    BY <1>2, <1>4, <2>1, <2>2, <2>3, AppCloses DEF Untouched
<1>6. CASE status'[r] # 0
  <2>1. Begins(r, q, status'[r]) /\ status'[r] \in Statuses
    BY <1>1, <1>4, <1>6 DEF Shows, Statuses
  <2>2. /\ wire' \in [Requests -> Seq(Responses)]
        /\ log' \in [Requests -> Seq(Statuses \cup {Unhandled})]
        /\ \A p \in Requests \ {r} : wire'[p] = wire[p] /\ log'[p] = log[p]
        /\ Answered(r)' /\ wire'[r] # <<>> /\ wire'[r][1].status = status'[r]
    BY <1>1, <1>2, <2>1, BeginsFirst
  <2>3. AppTypeOK'
    BY <1>2, <2>2 DEF AppTypeOK, Responses
  <2>4. Fit(r)'
    BY <1>2, <1>4, <1>6, <2>2 DEF Fit
  <2> QED
    BY <1>2, <1>4, <2>2, <2>3, <2>4, AppCloses DEF Untouched
<1> QED
  BY <1>5, <1>6

LEMMA HangsUpKeeps ==
  ASSUME AppInv, IInv, NEW r \in Requests, HangsUp(r)
  PROVE  AppInv'
<1>1. /\ pc[r] = "running" /\ kind[r] \in Streams /\ pc' = [pc EXCEPT ![r] = "gone"]
      /\ UNCHANGED <<kind, status, ask, wire, log>> /\ FieldTypes /\ Fit(r) /\ AppTypeOK
      /\ status[r] = 200
  BY DEF HangsUp, Disconnect, Streaming, outside, AppInv, IInv, RequestInv, Told
<1>2. pc'[r] = "gone" /\ \A q \in Requests \ {r} : pc'[q] = pc[q]
  BY <1>1 DEF FieldTypes
<1>3. Answered(r) => Answered(r)'
  BY <1>1 DEF Answered, Proper, Raised
<1>4. Fit(r)'
  BY <1>1, <1>2, <1>3 DEF Fit
<1>5. AppTypeOK'
  BY <1>1 DEF AppTypeOK
<1> QED
  BY <1>1, <1>2, <1>4, <1>5, AppCloses DEF Untouched

LEMMA AppInvNext == ASSUME AppInv, IInv, [AppNext]_appVars PROVE AppInv'
<1>1. CASE UNCHANGED appVars
  <2>1. UNCHANGED <<kind, pc, status, ask, wire, log>>
    BY <1>1 DEF appVars, vars, outside
  <2>2. AppTypeOK' /\ \A q \in Requests : Untouched(q)
    BY <2>1 DEF AppInv, AppTypeOK, Untouched
  <2> QED
    BY <2>2, UntouchedFits DEF AppInv
<1> QED
  BY <1>1, TurnedBackKeeps, EntersKeeps, HandlerKeeps, HangsUpKeeps DEF AppNext

\* The inductive invariant: where each request is and what was sent for it
\* (main.py:112-219).
THEOREM AppInvariant == AppSpec => []AppInv
<1>1. AppSpec => []IInv
  BY AppIsAiRouter, Invariant, PTL
<1>2. AppInv /\ IInv /\ [AppNext]_appVars => AppInv'
  BY AppInvNext
<1> QED
  BY <1>1, <1>2, InitAppInv, PTL DEF AppSpec

\* A request is answered once, with the status its handler decided, even when
\* its stream breaks (ServerErrorMiddleware, main.py:205-217).
THEOREM AnsweredOnce == AppSpec => []OneResponse
<1>1. AppInv /\ IInv => OneResponse
  <2> SUFFICES ASSUME AppInv, IInv, NEW r \in Requests
               PROVE  /\ Len(wire[r]) <= 1
                      /\ pc[r] \in {"done", "raised", "gone"} => wire[r] # <<>>
                      /\ status[r] # 0 => wire[r] # <<>> /\ wire[r][1].status = status[r]
    BY DEF OneResponse
  <2>1. status[r] # 0 => wire[r] # <<>> /\ wire[r][1].status = status[r]
    BY DEF AppInv, Fit
  <2>4. Len(wire[r]) <= 1
    <3>1. CASE wire[r] = <<>>
      BY <3>1
    <3>2. CASE wire[r] # <<>>
      <4>1. PICK response \in Responses : wire[r] = <<response>>
        BY <3>2 DEF AppInv, Fit, Answered
      <4>2. Len(<<response>>) = 1
        OBVIOUS
      <4> QED
        BY <4>1, <4>2
    <3> QED
      BY <3>1, <3>2
  <2>2. pc[r] \in {"done", "raised"} => status[r] # 0
    BY DEF IInv, RequestInv, Placed
  <2>3. pc[r] = "gone" => status[r] # 0
    BY DEF AppInv, Fit
  <2> QED
    BY <2>1, <2>2, <2>3, <2>4
<1>2. AppSpec => []IInv
  BY AppIsAiRouter, Invariant, PTL
<1> QED
  BY <1>1, <1>2, AppInvariant, PTL

\* Every response can be traced to its line in the log (main.py:112-131,
\* 179-217).
THEOREM ResponsesAreTraceable == AppSpec => []Traceable
<1>1. AppInv => Traceable
  <2> SUFFICES ASSUME AppInv, NEW r \in Requests
               PROVE  /\ \A i \in DOMAIN wire[r] :
                            /\ wire[r][i].marks \cap {"RequestID", "ServerError"} # {}
                            /\ \/ wire[r][i].status \in {log[r][j] : j \in DOMAIN log[r]}
                               \/ Raised(r)
                      /\ pc[r] = "raised" => Raised(r)
    BY DEF Traceable
  <2>1. Fit(r)
    BY DEF AppInv
  <2> QED
    BY <2>1 DEF Fit, Answered, Proper
<1> QED
  BY <1>1, AppInvariant, PTL

\* Security and CORS headers are on every response but those to preflights and
\* of the exception handler (main.py:137-173, 264-284).
THEOREM ResponsesAreHardened == AppSpec => []Hardened
<1>1. AppInv => Hardened
  BY DEF AppInv, Fit, Answered, Proper, Hardened
<1> QED
  BY <1>1, AppInvariant, PTL
-----------------------------------------------------------------------------
(* The log agrees with what was sent. *)

Broken == [status |-> 500, marks |-> {"ServerError"}]

\* Of a request the log holds nothing before it is answered, then the status of
\* its response; after that the exception, if the handler of a stream raised
\* it; and only the exception, if it came before there was a response.
Recorded(r) ==
    \/ wire[r] = <<>> /\ log[r] = <<>>
    \/ /\ wire[r] # <<>> /\ "ServerError" \notin wire[r][1].marks
       /\ \/ log[r] = <<wire[r][1].status>> /\ pc[r] # "raised"
          \/ log[r] = <<wire[r][1].status, Unhandled>> /\ pc[r] = "raised" /\ kind[r] \in Streams
    \/ wire[r] = <<Broken>> /\ log[r] = <<Unhandled>> /\ pc[r] \in {"raised", "idle"}

LogAgrees == \A r \in Requests : Recorded(r)

\* A line after another makes two.
LEMMA SecondLine ==
  ASSUME NEW S, NEW s \in Seq(S), NEW t \in Seq(S), NEW b \in S
  PROVE  Len(s) = 1 /\ Len(t) = 2 /\ t[1] = s[1] /\ t[2] = b => Append(s, b) = t
<1>1. /\ Append(s, b) \in Seq(S) /\ Len(Append(s, b)) = Len(s) + 1
      /\ \A i \in 1 .. Len(s) : Append(s, b)[i] = s[i]
      /\ Append(s, b)[Len(s) + 1] = b
  OBVIOUS
<1> SUFFICES ASSUME Len(s) = 1, Len(t) = 2, t[1] = s[1], t[2] = b
             PROVE  Append(s, b) = t
  OBVIOUS
<1> DEFINE l == Append(s, b)
<1> HIDE DEF l
<1>2. l \in Seq(S) /\ Len(l) = 2 /\ l[1] = s[1] /\ l[2] = b
  BY <1>1 DEF l
<1>3. \A i \in 1 .. Len(l) : l[i] = t[i]
  BY <1>2
<1>4. l = t
  BY <1>2, <1>3, SeqEqual
<1> QED
  BY <1>4 DEF l

LEMMA TwoLines ==
  ASSUME NEW S, NEW a \in S, NEW b \in S
  PROVE  Append(<<a>>, b) = <<a, b>>
<1> DEFINE one == <<a>>
           two == <<a, b>>
<1>1. one \in Seq(S) /\ Len(one) = 1 /\ one[1] = a
  OBVIOUS
<1>2. two \in Seq(S) /\ Len(two) = 2 /\ two[1] = a /\ two[2] = b
  OBVIOUS
<1> HIDE DEF one, two
<1>3. one \in Seq(S) /\ two \in Seq(S)
  BY <1>1, <1>2
<1>4. Append(one, b) = two
  BY <1>1, <1>2, <1>3, SecondLine
<1> QED
  BY <1>4 DEF one, two

\* The first and the second line of a request.
LEMMA Lines ==
  ASSUME AppTypeOK, NEW r \in Requests, NEW line \in Statuses \cup {Unhandled},
         log' = [log EXCEPT ![r] = Append(@, line)]
  PROVE  /\ log[r] = <<>> => log'[r] = <<line>>
         /\ \A first \in Statuses : log[r] = <<first>> => log'[r] = <<first, line>>
         /\ \A q \in Requests \ {r} : log'[q] = log[q]
<1>1. log'[r] = Append(log[r], line) /\ \A q \in Requests \ {r} : log'[q] = log[q]
  BY DEF AppTypeOK
<1>2. Append(<<>>, line) = <<line>>
  OBVIOUS
<1>3. \A first \in Statuses : Append(<<first>>, line) = <<first, line>>
  BY TwoLines
<1> QED
  BY <1>1, <1>2, <1>3

\* A response that passes the layers is recorded.
LEMMA BeginsRecorded ==
  ASSUME AppTypeOK, NEW r \in Requests, NEW q \in Asks, NEW code \in Statuses,
         wire[r] = <<>>, log[r] = <<>>, Begins(r, q, code), pc'[r] # "raised"
  PROVE  Recorded(r)' /\ \A p \in Requests \ {r} : wire'[p] = wire[p] /\ log'[p] = log[p]
<1> DEFINE response == [status |-> code, marks |-> Passed(q)]
<1>1. /\ response \in Responses /\ response.status = code
      /\ "ServerError" \notin response.marks
  BY PassedLayers, StackIs DEF Responses, Passed
<1>2. wire' = [wire EXCEPT ![r] = <<response>>]
  BY DEF Begins
<1> HIDE DEF response
<1>3. wire'[r] = <<response>> /\ \A p \in Requests \ {r} : wire'[p] = wire[p]
  BY <1>1, <1>2, FirstResponse
<1>4. log' = [log EXCEPT ![r] = Append(@, code)]
  BY PassedLayers DEF Begins
<1>5. log'[r] = <<code>> /\ \A p \in Requests \ {r} : log'[p] = log[p]
  BY <1>4, Lines
<1>6. wire'[r] # <<>> /\ wire'[r][1] = response
  BY <1>3
<1> QED
  BY <1>1, <1>3, <1>5, <1>6 DEF Recorded

\* So is an exception, before and after a response has begun.
LEMMA ErrorsRecorded ==
  ASSUME AppTypeOK, NEW r \in Requests, Errors(r), Recorded(r), pc[r] # "raised",
         wire[r] = <<>> => pc'[r] \in {"raised", "idle"},
         wire[r] # <<>> => /\ "ServerError" \notin wire[r][1].marks
                           /\ wire[r][1].status \in Statuses
                           /\ pc'[r] = "raised" /\ kind'[r] \in Streams
  PROVE  Recorded(r)' /\ \A p \in Requests \ {r} : wire'[p] = wire[p] /\ log'[p] = log[p]
<1>1. log' = [log EXCEPT ![r] = Append(@, Unhandled)]
  BY DEF Errors
<1>2. \A p \in Requests \ {r} : log'[p] = log[p]
  BY <1>1, Lines
<1>3. CASE wire[r] = <<>>
  <2>1. Broken \in Responses /\ Broken.status = 500
    BY DEF Responses, Broken, Statuses, Marks
  <2>2. wire' = [wire EXCEPT ![r] = <<Broken>>]
    BY <1>3 DEF Errors, Broken
  <2>3. wire'[r] = <<Broken>> /\ \A p \in Requests \ {r} : wire'[p] = wire[p]
    <3>1. Broken \in Responses
      BY <2>1
    <3> QED
      BY <2>2, <3>1, FirstResponse
  <2>4. log[r] = <<>>
    <3>1. <<Broken>> # <<>>
      OBVIOUS
    <3> QED
      BY <1>3, <3>1 DEF Recorded
  <2>5. log'[r] = <<Unhandled>>
    BY <1>1, <2>4, Lines
  <2> QED
    BY <1>2, <1>3, <2>3, <2>5 DEF Recorded
<1>4. CASE wire[r] # <<>>
  <2>1. wire' = wire
    BY <1>4 DEF Errors
  <2>2. log[r] = <<wire[r][1].status>>
    <3>1. <<Broken>>[1].marks = {"ServerError"}
      BY DEF Broken
    <3> QED
      BY <1>4, <3>1 DEF Recorded
  <2>3. log'[r] = <<wire[r][1].status, Unhandled>>
    BY <1>1, <1>4, <2>2, Lines
  <2> QED
    BY <1>2, <1>4, <2>1, <2>3 DEF Recorded
<1> QED
  BY <1>3, <1>4

LEMMA OthersRecorded ==
  ASSUME LogAgrees, NEW r \in Requests, Recorded(r)', \A q \in Requests \ {r} : Untouched(q)
  PROVE  LogAgrees'
<1>1. ASSUME NEW q \in Requests \ {r} PROVE Recorded(q)'
  BY DEF LogAgrees, Untouched, Recorded
<1> QED
  BY <1>1 DEF LogAgrees

\* A request arrives: nothing was sent or logged of it.
LEMMA ArrivesUnrecorded ==
  ASSUME AppInv, LogAgrees, NEW r \in Requests, ask[r] = NoAsk
  PROVE  wire[r] = <<>> /\ log[r] = <<>>
<1>1. wire[r] = <<>> /\ <<Broken>> # <<>>
  BY DEF AppInv, Fit
<1> QED
  BY <1>1 DEF LogAgrees, Recorded

LEMMA AtOnceRecorded ==
  ASSUME AppInv, IInv, LogAgrees, NEW r \in Requests, NEW q \in Asks,
         TurnedBack(r, q) \/ AtOnce(r, q)
  PROVE  LogAgrees'
<1>1. /\ AppTypeOK /\ ask[r] = NoAsk /\ ask' = [ask EXCEPT ![r] = q]
      /\ UNCHANGED <<pc, status, kind>> /\ pc[r] = "idle"
  BY DEF TurnedBack, AtOnce, Arrives, vars, AppInv, Fit
<1>2. wire[r] = <<>> /\ log[r] = <<>> /\ Recorded(r)
  BY <1>1, ArrivesUnrecorded DEF LogAgrees
<1>3. (\E code \in Statuses : Begins(r, q, code)) \/ Errors(r)
  BY DEF TurnedBack, AtOnce, Statuses
<1>4. Recorded(r)' /\ \A p \in Requests \ {r} : wire'[p] = wire[p] /\ log'[p] = log[p]
  BY <1>1, <1>2, <1>3, BeginsRecorded, ErrorsRecorded
<1>5. \A p \in Requests \ {r} : Untouched(p)
  BY <1>1, <1>4 DEF Untouched, AppTypeOK
<1> QED
  BY <1>4, <1>5, OthersRecorded

LEMMA HandlerRecorded ==
  ASSUME AppInv, IInv, LogAgrees, NEW r \in Requests, Serves(r) \/ Thinks(r)
  PROVE  LogAgrees'
<1>1. Shows(r, ask[r]) /\ ask' = ask /\ (Timed(r) \/ LlmEnds(r))
  BY DEF Serves, Thinks
<1>2. /\ AppTypeOK /\ pc[r] = "running" /\ kind' = kind
      /\ \A q \in Requests \ {r} : pc'[q] = pc[q] /\ status'[q] = status[q]
      /\ pc'[r] \in {"running", "done", "raised"}
      /\ status[r] # 0 => status'[r] = status[r]
      /\ status'[r] \in Statuses \cup {0}
  BY <1>1, DecidesOnce DEF AppInv
<1>3. /\ Recorded(r) /\ Fit(r) /\ ask[r] \in Asks
      /\ status[r] = 0 => wire[r] = <<>>
      /\ kind[r] \notin Streams => wire[r] = <<>>
      /\ wire[r] = <<>> \/ (wire[r] # <<>> /\ wire[r][1].status \in Statuses
                              /\ "ServerError" \notin wire[r][1].marks)
  <2>1. ask[r] # NoAsk /\ ask[r] \in Asks /\ Fit(r) /\ Recorded(r)
    BY <1>2 DEF AppInv, Fit, AppTypeOK, LogAgrees
  <2>2. /\ status[r] = 0 => wire[r] = <<>>
        /\ kind[r] \notin Streams => wire[r] = <<>>
    BY <1>2, <2>1 DEF Fit
  <2>3. wire[r] # <<>> => status[r] \in Statuses /\ wire[r][1].status = status[r]
    BY <1>2, <2>1, <2>2 DEF Fit, Statuses
  <2>4. wire[r] # <<>> => "ServerError" \notin wire[r][1].marks
    <3>1. <<Broken>> # <<>>
      OBVIOUS
    <3> QED
      BY <1>2, <2>1, <3>1 DEF Recorded
  <2> QED
    BY <2>1, <2>2, <2>3, <2>4
<1>4. CASE pc'[r] = "raised"
  <2>1. Errors(r)
    BY <1>1, <1>4 DEF Shows
  <2>2. Recorded(r)' /\ \A p \in Requests \ {r} : wire'[p] = wire[p] /\ log'[p] = log[p]
    BY <1>2, <1>3, <1>4, <2>1, ErrorsRecorded
  <2> QED
    BY <1>1, <1>2, <2>2, OthersRecorded DEF Untouched
<1>5. CASE pc'[r] # "raised" /\ status'[r] = status[r]
  <2>1. wire' = wire /\ log' = log
    BY <1>1, <1>5 DEF Shows
  <2>2. Recorded(r)'
    <3>1. wire[r] # <<Broken>>
      <4>1. <<Broken>>[1].marks = {"ServerError"} /\ <<Broken>> # <<>>
        BY DEF Broken
      <4> QED
        BY <1>3, <4>1
    <3> QED
      BY <1>2, <1>3, <1>5, <2>1, <3>1 DEF Recorded
  <2> QED
    BY <1>1, <1>2, <2>1, <2>2, OthersRecorded DEF Untouched
<1>6. CASE pc'[r] # "raised" /\ status'[r] # status[r]
  <2>1. Begins(r, ask[r], status'[r]) /\ wire[r] = <<>> /\ status'[r] \in Statuses
    BY <1>1, <1>2, <1>3, <1>6 DEF Shows
  <2>2. log[r] = <<>>
    <3>1. <<Broken>> # <<>>
      OBVIOUS
    <3> QED
      BY <1>3, <2>1, <3>1 DEF Recorded
  <2>3. Recorded(r)' /\ \A p \in Requests \ {r} : wire'[p] = wire[p] /\ log'[p] = log[p]
    BY <1>2, <1>3, <1>6, <2>1, <2>2, BeginsRecorded
  <2> QED
    BY <1>1, <1>2, <2>3, OthersRecorded DEF Untouched
<1> QED
  BY <1>4, <1>5, <1>6

LEMMA EntersRecorded ==
  ASSUME AppInv, IInv, LogAgrees, NEW r \in Requests, NEW q \in Asks, Enters(r, q)
  PROVE  LogAgrees'
<1>1. /\ AppTypeOK /\ FieldTypes /\ ask[r] = NoAsk /\ ask' = [ask EXCEPT ![r] = q]
      /\ status[r] = 0 /\ Shows(r, q)
      /\ Send(r, q.target) \/ SendEmpty(r, q.target)
  BY DEF Enters, Arrives, AppInv, Fit, IInv, RequestInv, Placed, Send, SendEmpty
<1>2. wire[r] = <<>> /\ log[r] = <<>>
  BY <1>1, ArrivesUnrecorded
<1>3. /\ pc'[r] \in {"running", "done"}
      /\ \A p \in Requests \ {r} : /\ kind'[p] = kind[p] /\ pc'[p] = pc[p]
                                   /\ status'[p] = status[p]
      /\ status'[r] \in {0, 200, 400}
  <2> DEFINE k == q.target
  <2>1. /\ kind' = [kind EXCEPT ![r] = k]
        /\ \/ /\ pc' = [pc EXCEPT ![r] = "running"]
              /\ IF k \in Streams THEN status' = [status EXCEPT ![r] = 200] ELSE status' = status
           \/ pc' = [pc EXCEPT ![r] = "done"] /\ status' = [status EXCEPT ![r] = 400]
    BY <1>1 DEF Send, SendEmpty
  <2> HIDE DEF k
  <2>2. CASE k \in Streams
    BY <1>1, <2>1, <2>2 DEF FieldTypes
  <2>3. CASE k \notin Streams
    BY <1>1, <2>1, <2>3 DEF FieldTypes
  <2> QED
    BY <2>2, <2>3
<1>4. Recorded(r)' /\ \A p \in Requests \ {r} : wire'[p] = wire[p] /\ log'[p] = log[p]
  <2>1. CASE status'[r] = 0
    <3>1. wire' = wire /\ log' = log
      BY <1>1, <1>3, <2>1 DEF Shows
    <3> QED
      BY <1>2, <3>1 DEF Recorded
  <2>2. CASE status'[r] # 0
    <3>1. Begins(r, q, status'[r]) /\ status'[r] \in Statuses
      BY <1>1, <1>3, <2>2 DEF Shows, Statuses
    <3> QED
      BY <1>1, <1>2, <1>3, <3>1, BeginsRecorded
  <2> QED
    BY <2>1, <2>2
<1>5. \A p \in Requests \ {r} : Untouched(p)
  BY <1>1, <1>3, <1>4 DEF Untouched, AppTypeOK
<1> QED
  BY <1>4, <1>5, OthersRecorded

LEMMA HangsUpRecorded ==
  ASSUME AppInv, IInv, LogAgrees, NEW r \in Requests, HangsUp(r)
  PROVE  LogAgrees'
<1>1. /\ pc[r] = "running" /\ pc' = [pc EXCEPT ![r] = "gone"] /\ FieldTypes
      /\ UNCHANGED <<kind, status, ask, wire, log>>
  BY DEF HangsUp, Disconnect, outside, IInv
<1>2. pc'[r] = "gone" /\ \A q \in Requests \ {r} : pc'[q] = pc[q]
  BY <1>1 DEF FieldTypes
<1>3. Recorded(r)'
  BY <1>1, <1>2 DEF LogAgrees, Recorded
<1> QED
  BY <1>1, <1>2, <1>3, OthersRecorded DEF Untouched

\* What the log says of a request is what its client was sent, no line missing
\* and none too many: in particular an exception is logged just if there was
\* one (_LatencyMiddleware and _global_exception_handler, main.py:112-131, 205-217).
THEOREM LogIsTrue == AppSpec => []LogAgrees
<1>1. AppInit => LogAgrees
  BY DEF AppInit, LogAgrees, Recorded
<1>2. ASSUME AppInv, IInv, LogAgrees, [AppNext]_appVars PROVE LogAgrees'
  <2>1. CASE UNCHANGED appVars
    BY <1>2, <2>1 DEF appVars, vars, outside, LogAgrees, Recorded
  <2> QED
    BY <1>2, <2>1, AtOnceRecorded, EntersRecorded, HandlerRecorded, HangsUpRecorded DEF AppNext
<1>3. AppSpec => []IInv
  BY AppIsAiRouter, Invariant, PTL
<1> QED
  BY <1>1, <1>2, <1>3, AppInvariant, PTL DEF AppSpec

-----------------------------------------------------------------------------
(* What holds of the handlers alone holds inside the application. *)

\* The streams, the pictures and the calls of the handlers, whatever layers lie
\* around them (create_app, main.py:243-321).
THEOREM AppKeepsAi ==
  AppSpec => [](TypeOK /\ StreamOrdered /\ EndsAreTold /\ PicturesAccounted /\ CallsBounded)
  BY AppIsAiRouter, TypeCorrect, StreamsInOrder, StreamsTellTheirEnd, PicturesAreAccountedFor,
     CallsAreBounded, PTL

\* As long as every 200 of Cloudflare has its form, no exception of a stream is
\* ever logged: a 200 that a client of generate-text sees stays one to its last
\* event (ai_generate_text, ai.py:221-289).
THEOREM StreamsNeverRaise ==
  AppSpec /\ [][WellFormed]_vars =>
    [](\A r \in Requests : kind[r] \in Streams => ~Raised(r))
<1>1. EndsAreTold /\ ErrorsWrapped /\ LogAgrees /\ IInv /\ AppInv =>
        \A r \in Requests : kind[r] \in Streams => ~Raised(r)
  <2> SUFFICES ASSUME EndsAreTold, ErrorsWrapped, LogAgrees, IInv, AppInv,
                      NEW r \in Requests, kind[r] \in Streams
               PROVE  ~Raised(r)
    OBVIOUS
  <2>1. pc[r] \notin {"raised", "idle"}
    BY KindFacts DEF EndsAreTold, ErrorsWrapped, Scraper!ErrorsWrapped, IInv, RequestInv, Placed
  <2>2. log[r] = <<>> \/ (wire[r] # <<>> /\ log[r] = <<wire[r][1].status>>)
    BY <2>1 DEF LogAgrees, Recorded
  <2>3. wire[r] # <<>> => wire[r][1].status # Unhandled
    <3>1. wire[r] # <<>> => \E response \in Responses : wire[r] = <<response>>
      BY DEF AppInv, Fit, Answered
    <3>2. \A response \in Responses : response.status # Unhandled
      BY DEF Responses, Statuses, Unhandled
    <3> QED
      BY <3>1, <3>2
  <2> QED
    BY <2>2, <2>3 DEF Raised
<1> QED
  BY <1>1, AppIsAiRouter, ErrorsAreWrapped, StreamsTellTheirEnd, LogIsTrue, Invariant, AppInvariant, PTL
=============================================================================
