------------------------------- MODULE Queries -------------------------------
(***************************************************************************)
(* What a client of the daemon is told of the stored reports: the handlers  *)
(* of internal/api/api.go over the store, and the request and the output of *)
(* the inspect command (internal/cmd/inspect.go).  Both only read.          *)
(***************************************************************************)
EXTENDS Store

\* The text of a limit parameter: absent, no number, or a number.
Absent    == [kind |-> "absent"]
Word      == [kind |-> "word"]
Number(n) == [kind |-> "number", value |-> n]

Response(status, body) == [status |-> status, body |-> body]

Refused(raw) ==
    \/ raw.kind = "word"
    \/ raw.kind = "number" /\ raw.value < 0

LimitOf(raw) == IF raw.kind = "number" THEN raw.value ELSE 0

\* GET /v1/events.
HandleListEvents(query) ==
    IF Refused(query.limit) THEN Response(400, << >>)
    ELSE Response(200, List(query.filter, LimitOf(query.limit)))

\* GET /v1/events/{id}.
HandleGetEvent(id) == IF Found(id) THEN Response(200, <<Get(id)>>) ELSE Response(404, << >>)

\* The pod argument of inspect, <name> or pod/<name>, or none.
Argument == [prefixed : BOOLEAN, name : Label] \cup {[prefixed |-> FALSE, name |-> NoName]}

TrimPrefix(arg) == [arg EXCEPT !.prefixed = FALSE]

\* Mutant of LimitSent: a limit of zero or less is sent too.
LimitAlwaysSent(limit) == Number(limit)

LimitSent(limit) == IF limit > 0 THEN Number(limit) ELSE Absent

\* fetchReports: the request; a field that is empty is not sent, which is the empty filter.
\* The server compares the text of a name with its own, so that a prefix left on it
\* finds nothing.
InspectQuery(options, arg) ==
    [filter |-> [namespace |-> options.namespace, container |-> options.container,
                 pod |-> IF arg.prefixed THEN "pod/" ELSE arg.name],
     limit  |-> LimitSent(options.limit)]

\* runInspect: an error, a sentence, or the reports one after another.
RunInspect(options, arg) ==
    LET answer == HandleListEvents(InspectQuery(options, TrimPrefix(arg))) IN
    IF options.format \notin {"text", "json"} \/ answer.status # 200 THEN [outcome |-> "error"]
    ELSE IF options.format = "text" /\ answer.body = << >> THEN [outcome |-> "none recorded"]
    ELSE [outcome |-> "reports", printed |-> answer.body]

\* The dashboard's request.
FetchAll == HandleListEvents([filter |-> [k \in Field |-> NoName], limit |-> Absent])

-----------------------------------------------------------------------------
\* The positions of the reports that somebody asks for.
Wanted(namespace, pod, container) ==
    {i \in DOMAIN ordered :
        /\ namespace \in {NoName, ordered[i].identity.namespace}
        /\ pod \in {NoName, ordered[i].identity.pod}
        /\ container \in {NoName, ordered[i].identity.container}}

\* s is the newest at most n (or all, when n is not positive) of the reports at these
\* positions, newest first.
NewestOf(s, positions, n) ==
    /\ Len(s) = IF n > 0 /\ n < Cardinality(positions) THEN n ELSE Cardinality(positions)
    /\ \A k \in DOMAIN s :
          LET newer == {i \in positions : \E l \in 1 .. k - 1 : s[l] = ordered[i]} IN
          \E i \in positions \ newer : s[k] = ordered[i] /\ \A j \in positions \ newer : j <= i

\* inspect.go runInspect, api.go handleListEvents and handleGetEvent, store.go List: whatever
\* its flags and however the pod is written, inspect never sends what the daemon refuses; it
\* prints the newest matching reports, newest first, or says that there are none; the
\* dashboard gets all; and what is listed, and only that, is found under its ID.
AnswersAreTheStore ==
    /\ \A arg \in Argument, namespace, container \in Label \cup {NoName},
          limit \in -1 .. Capacity + 1, format \in {"text", "json"} :
          LET options == [namespace |-> namespace, container |-> container,
                          limit |-> limit, format |-> format]
              output == RunInspect(options, arg)
              wanted == Wanted(namespace, arg.name, container)
          IN  IF wanted = {} /\ format = "text" THEN output.outcome = "none recorded"
              ELSE output.outcome = "reports" /\ NewestOf(output.printed, wanted, limit)
    /\ NewestOf(FetchAll.body, DOMAIN ordered, 0)
    /\ \A id \in ID :
          LET found == HandleGetEvent(id) IN
          IF \E i \in DOMAIN FetchAll.body : FetchAll.body[i].id = id
          THEN found.status = 200 /\ found.body[1].id = id
               /\ \E i \in DOMAIN FetchAll.body : FetchAll.body[i] = found.body[1]
          ELSE found.status = 404
=============================================================================
