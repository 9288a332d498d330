---------------------------- MODULE LiveRequests ----------------------------
(***************************************************************************)
(* liveSearch and fetchReplace of the script that sw_js.c puts into pages: *)
(* each input, click or submit asks the server for new contents of the     *)
(* target element; answers come in any order, or not, while the user goes  *)
(* on typing.  A step is one task of the browser with the promise handlers *)
(* that run at its end.                                                    *)
(***************************************************************************)
EXTENDS Integers, Sequences, FiniteSets, TLC

CONSTANT MaxRequests   \* bound: requests of one page

VARIABLES
  config,          \* [debounce, abort, outer, form]
  typed,           \* what the input holds: how often it was changed
  timer,           \* requestState.timer is pending
  requests,        \* [value, stage, ok]; requestId is their number
  target           \* the target element: [content, state, error, loading]

liveVars == <<config, typed, timer, requests, target>>

Configs == [debounce : BOOLEAN,    \* debounceMs > 0
            abort : BOOLEAN,       \* abortStale, in a browser that can abort
            outer : BOOLEAN,       \* swapMode: the element itself is replaced
            form : BOOLEAN]        \* preventSubmit, on a form

\* An element as the server writes it: no state, no class for loading.
Fresh(content) == [content |-> content, state |-> "none", error |-> FALSE, loading |-> FALSE]

RequestId == Len(requests)
Current(i) == i = RequestId
UnderWay(i) == requests[i].stage \in {"asked", "body"}

\* emitRequestState and setLoadingClass
EmitState(element, state) == [element EXCEPT !.state = state, !.error = (state = "error")]
SetLoading(element, loading) == [element EXCEPT !.loading = loading]

\* replaceTargetContent
Replaced(element, content) ==
  IF config.outer THEN Fresh(content) ELSE [element EXCEPT !.content = content]

-----------------------------------------------------------------------------
\* sendRequest.  The request before is told to abort; it ends without effect,
\* since by then it is not the current one.
SendRequest ==
  LET before == [i \in DOMAIN requests |->
                   IF config.abort /\ Current(i) /\ UnderWay(i)
                   THEN [requests[i] EXCEPT !.stage = "aborted"] ELSE requests[i]]
  IN  /\ RequestId < MaxRequests
      /\ requests' = Append(before, [value |-> typed', stage |-> "asked", ok |-> FALSE])
      /\ target' = EmitState(SetLoading(target, TRUE), "loading")

LiveInit ==
  /\ config \in Configs
  /\ typed = 0
  /\ timer = FALSE
  /\ requests = <<>>
  /\ target = Fresh(-1)

\* scheduleRequest, at each input; fetchReplace has no timer.
Type ==
  /\ typed' = typed + 1 /\ typed < MaxRequests
  /\ IF config.debounce THEN timer' = TRUE /\ UNCHANGED <<requests, target>>
     ELSE UNCHANGED timer /\ SendRequest
  /\ UNCHANGED config

TimerFires ==
  /\ timer
  /\ timer' = FALSE
  /\ UNCHANGED typed
  /\ SendRequest
  /\ UNCHANGED config

Submit ==
  /\ config.form
  /\ timer' = FALSE
  /\ UNCHANGED typed
  /\ SendRequest
  /\ UNCHANGED config

\* The .finally() handler.
Finally(i, element) ==
  LET done == SetLoading(element, FALSE)
  IN  IF ~Current(i) THEN element
      ELSE IF done.state = "loading" THEN EmitState(done, "idle") ELSE done

Ends(i, ok) == requests' = [requests EXCEPT ![i].stage = "done", ![i].ok = ok]

\* An answer's head arrives; one that is no success is an error, as is a
\* network that fails before the answer is whole.
HeadArrives(i) ==
  /\ requests[i].stage = "asked"
  /\ requests' = [requests EXCEPT ![i].stage = "body"]
  /\ UNCHANGED <<config, typed, timer, target>>

Fails(i) ==
  /\ UnderWay(i)
  /\ Ends(i, FALSE)
  /\ target' = Finally(i, EmitState(target, "error"))
  /\ UNCHANGED <<config, typed, timer>>

\* The answer is whole: it is shown if no request was made since.
\* Mutant: it is shown in any case.
ShownAlways(i) == TRUE
Shown(i) == Current(i)

BodyArrives(i) ==
  /\ requests[i].stage = "body"
  /\ Ends(i, TRUE)
  /\ target' = Finally(i, IF Shown(i) THEN EmitState(Replaced(target, requests[i].value), "success")
                          ELSE target)
  /\ UNCHANGED <<config, typed, timer>>

LiveNext ==
  \/ Type \/ TimerFires \/ Submit
  \/ \E i \in DOMAIN requests : HeadArrives(i) \/ Fails(i) \/ BodyArrives(i)

LiveSpec == LiveInit /\ [][LiveNext]_liveVars

-----------------------------------------------------------------------------
\* When the script has nothing left to wait for, what was typed last has been
\* asked for, and the target shows the answer to that, or that it failed, and no
\* longer that it is loading; older answers, in whatever order, left no trace.
\* An older request that fails late is excepted, where requests are not aborted:
\* its error is shown.
Settled ==
  LET last == requests[RequestId]
  IN  ~timer /\ RequestId > 0 /\ (\A i \in DOMAIN requests : ~UnderWay(i)) =>
        /\ last.value = typed
        /\ ~target.loading
        /\ last.ok => target.content = last.value
        /\ config.abort => target.state = (IF last.ok THEN "success" ELSE "error")
        /\ target.error = (target.state = "error")
=============================================================================
