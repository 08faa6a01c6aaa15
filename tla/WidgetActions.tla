---------------------------- MODULE WidgetActions ----------------------------
(***************************************************************************)
(* Acting on an upstream service from a display: completing a task of a    *)
(* Google Tasks or Todoist list (server/lists.go), calling a Home          *)
(* Assistant service (server/ha_action.go), and the refresh that makes the *)
(* display show it (provider/coordinator.go, tasks.go, home_assistant.go,  *)
(* backoff.go, tasks/adapters).                                            *)
(*                                                                         *)
(* One widget: a worker polls its provider in a loop, several HTTP         *)
(* requests call the provider beside it, and a configuration reload        *)
(* replaces worker and provider.  A fetch reads upstream in several        *)
(* requests between which upstream may change.  The Home Assistant         *)
(* entities are items as well: "open" is off, "done" is on.                *)
(***************************************************************************)
EXTENDS TaskList

CONSTANTS
  Users,         \* HTTP requests: one action each
  Asks,          \* what each may ask for: for an item a status, see AsksAssumption
  Confs,         \* configurations of the widget, see InitProvider
  Initially,     \* upstream at boot: Items -> Statuses or "absent"
  Dashboards,    \* the cards of the configured and of the default dashboard
  PageSize, MaxPages,
  Interval, InitialInterval, MaxInterval,  \* whole seconds, in a finer unit
  MaxFaults,     \* bound: requests that fail and access tokens that are lost
  MaxFailures,   \* bound: failures in a row that are counted
  MaxChanges     \* bound: reloads and changes others make upstream

\* where a secret may be given
Places == {"secrets", "config", "env", "options", "file"}

ASSUME ConfsAssumption ==
  Confs \subseteq [source : {"gtasks", "todoist", "hass"}, list : BOOLEAN,
                   token : SUBSET Places, refresh : SUBSET Places]
\* what stands for an item the handlers reject
Invalid == 0

ASSUME AsksAssumption == Asks \in [Users -> SUBSET ((Items \cup {Invalid}) \X Statuses)]
ASSUME UsersAssumption == Users \cap {"worker", "other"} = {}
ASSUME InitiallyAssumption == Initially \in [Items -> Statuses \cup {"absent"}]
ASSUME DashboardsAssumption == Dashboards \in [{"own", "default"} -> Seq(Items)]
ASSUME PagesAssumption == PageSize \in Nat \ {0} /\ MaxPages \in Nat \ {0}
ASSUME IntervalAssumption == {Interval, InitialInterval, MaxInterval} \subseteq Nat \ {0, 1}
ASSUME BoundsAssumption == {MaxFaults, MaxFailures, MaxChanges} \subseteq Nat

VARIABLES
  conf,       \* the widget's configuration
  up,         \* upstream: Items -> status
  author,     \* whose change of an item was the last: Items -> Users \cup {"other"}
  insts,      \* the providers made so far: [kind, cached access token]
  current,    \* the provider of the running worker, 0 if there is none
  rq,         \* the request to upstream that a user or the worker is in
  user,       \* HTTP requests of the displays
  wk,         \* the worker
  refreshCh,  \* a refresh is queued for the worker
  failures,   \* consecutive failures
  status,     \* what the cache says of the widget: "none", "healthy", "failing"
  shown,      \* what displays show
  faults, changes

upVars == <<up, author>>
netVars == <<rq, insts>>
showVars == <<failures, status, shown>>
vars == <<conf, upVars, netVars, current, user, wk, refreshCh, showVars, faults, changes>>

\* Something goes wrong, something is changed from outside.
Fault == faults < MaxFaults /\ faults' = faults + 1 /\ UNCHANGED changes
Change == changes < MaxChanges /\ changes' = changes + 1 /\ UNCHANGED faults

Worker == "worker"
Procs == Users \cup {Worker}

-----------------------------------------------------------------------------
(* Providers.                                                              *)

\* resolveTaskSecret: the places are tried in turn.
SecretGiven(places) == places \cap {"secrets", "config", "env"} # {}

\* Google Tasks: a credentials file fills in what is not given otherwise.
InitGTasks(c) ==
  IF ~c.list THEN "error"
  ELSE IF SecretGiven(c.refresh) \/ "file" \in c.refresh THEN "oauth" ELSE "gtasks"

InitTodoist(c) ==
  IF SecretGiven(c.token) \/ "options" \in c.token THEN "todoist" ELSE "error"

\* Home Assistant: "list" is its address; the token is not taken from the configuration.
InitHass(c) ==
  IF c.list /\ c.token \cap {"secrets", "env", "options"} # {} THEN "hass" ELSE "error"

\* What kind of upstream client a configuration makes.
InitProvider(c) ==
  CASE c.source = "gtasks" -> InitGTasks(c)
    [] c.source = "todoist" -> InitTodoist(c)
    [] c.source = "hass" -> InitHass(c)

IsTasks(kind) == kind # "hass"

\* The provider of a configuration.  Without a refresh token Google Tasks is asked with
\* the token that is given; if none is, its requests carry no token and are refused.
NewInstance(c) ==
  [kind |-> InitProvider(c),
   cached |-> IF InitProvider(c) = "gtasks" /\ c.token = {} THEN "bad" ELSE "none"]

\* the provider has a refresh token or a token that it was given
HasToken(inst) == inst.kind = "oauth" \/ inst.cached # "bad"

KindOf(x) == insts[rq[x].inst].kind

NoRequest == [pc |-> "none", inst |-> 0, tok |-> "none", retry |-> FALSE]

\* A request to upstream begins with the access token: with a refresh token, Google
\* Tasks has it cached or asks for it; the others have a static one.
NewRequest(inst, all) ==
  LET ask == all[inst].kind = "oauth" /\ all[inst].cached = "none"
  IN  [pc |-> IF ask THEN "token" ELSE "send", inst |-> inst,
       tok |-> IF all[inst].kind = "oauth" THEN all[inst].cached
               ELSE IF HasToken(all[inst]) THEN "good" ELSE "bad",
       retry |-> FALSE]

-----------------------------------------------------------------------------
(* The worker's fetch.                                                     *)

FirstStep(kind) ==
  CASE kind \in {"gtasks", "oauth"} -> "meta"
    [] kind = "todoist" -> "project"
    [] kind = "hass" -> "lovelace"

NoDelay == [lo |-> 0, hi |-> 0]

Fetching(kind) ==
  [pc |-> "fetch", step |-> FirstStep(kind), page |-> 1, got |-> <<>>, cards |-> "none",
   delay |-> NoDelay]

NoWorker == [Fetching("hass") EXCEPT !.pc = "none"]

\* The entries of the items in S, in upstream's order.
Entries(S) ==
  Pick([i \in Items |-> [id |-> i, st |-> up[i]]], S)

\* What upstream lists: Google everything, Todoist what is open.
Listed(kind) ==
  Entries({i \in Items : IF kind = "todoist" THEN up[i] = "open" ELSE up[i] \in Statuses})

\* Page n of what upstream lists; the page token is an offset.
Page(kind, n) ==
  LET all == Listed(kind)
      last == IF n * PageSize > Len(all) THEN Len(all) ELSE n * PageSize
  IN  SubSeq(all, (n - 1) * PageSize + 1, last)

LastPage(kind, n) == Len(Listed(kind)) <= n * PageSize \/ n = MaxPages

\* The cards of the view of a dashboard, none if there is no dashboard.
ViewCards(dash) == IF dash = "none" THEN <<>> ELSE Dashboards[dash]

\* A card for every entity, by id.
FallbackCards == [i \in Items |-> i]

\* The cards with the states of their entities.
Cards(dash) ==
  LET ids == IF ViewCards(dash) = <<>> THEN FallbackCards ELSE ViewCards(dash)
  IN  Pick([k \in DOMAIN ids |-> [id |-> ids[k], st |-> up[ids[k]]]],
           {k \in DOMAIN ids : up[ids[k]] \in Statuses})

\* IsNetworkOrServerError
Transient(ans) == ans \in {"5xx", "net"}

\* InitialInterval, doubled with every failure after the first.
Grown(n) ==
  LET after[k \in 1..n] == IF k = 1 THEN InitialInterval ELSE 2 * after[k - 1]
  IN  after[n]

\* Fault: the jitter may lift the delay over the poll interval.
NextDelay_NoCeiling(n) ==
  LET ceiling == IF Interval < MaxInterval THEN Interval ELSE MaxInterval
      d == IF Grown(n) > ceiling THEN ceiling ELSE Grown(n)
  IN  [lo |-> (4 * d) \div 5, hi |-> (6 * d) \div 5]

\* The delays after the n-th failure in a row: exponential up to the ceiling, give or
\* take a fifth, and never over the poll interval.
NextDelay(n) ==
  LET ceiling == IF Interval < MaxInterval THEN Interval ELSE MaxInterval
      d == IF Grown(n) > ceiling THEN ceiling ELSE Grown(n)
      over == (6 * d) \div 5
  IN  [lo |-> (4 * d) \div 5, hi |-> IF over > Interval THEN Interval ELSE over]

ComputeRetryDelay(ans, n) ==
  IF ans # "ok" /\ Transient(ans) THEN NextDelay(n) ELSE [lo |-> Interval, hi |-> Interval]

\* RecordFailure: the last known data stays on display.
FetchFailed(ans) ==
  /\ failures' = IF failures < MaxFailures THEN failures + 1 ELSE failures
  /\ status' = "failing"
  /\ wk' = [wk EXCEPT !.pc = "wait", !.delay = ComputeRetryDelay(ans, failures + 1)]
  /\ rq' = [rq EXCEPT ![Worker] = NoRequest]
  /\ UNCHANGED shown

\* What a fetch does after the request of its current step was answered with ans.
FailedFetch == [wk EXCEPT !.pc = "failed"]
GoTo(step) == [wk EXCEPT !.step = step]
Recorded(entries) == [wk EXCEPT !.pc = "record", !.got = entries]

\* Not having the title of a list is no reason to fail, not having access to it is.
AfterMeta(ans) == IF ans \in {"ok", "5xx", "net"} THEN GoTo("pages") ELSE FailedFetch

AfterProject(ans) == IF ans = "ok" THEN GoTo("sections") ELSE FailedFetch

AfterSections(ans) == IF ans = "ok" THEN GoTo("pages") ELSE FailedFetch

\* A page is read; the last one of the open tasks of Todoist is followed by its
\* completed ones.
AfterPage(kind, ans) ==
  LET read == wk.got \o Page(kind, wk.page)
  IN  IF ans # "ok" THEN FailedFetch
      ELSE IF ~LastPage(kind, wk.page) THEN [wk EXCEPT !.page = @ + 1, !.got = read]
      ELSE IF kind = "todoist" THEN [wk EXCEPT !.step = "completed", !.got = read]
      ELSE Recorded(read)

\* Any error: without completed items.
AfterCompleted(ans) ==
  Recorded(IF ans = "ok" THEN Merge(wk.got, Entries({i \in Items : up[i] = "done"})) ELSE wk.got)

\* Any error: without a dashboard; but instead of one that does not exist the default.
AfterLovelace(ans) ==
  IF ans = "404" /\ wk.step = "lovelace" THEN GoTo("default")
  ELSE [wk EXCEPT !.step = "states",
                  !.cards = IF ans # "ok" THEN "none" ELSE IF wk.step = "lovelace" THEN "own" ELSE "default"]

AfterStates(ans) == IF ans = "ok" THEN Recorded(Cards(wk.cards)) ELSE FailedFetch

\* FetchList of the adapters and Fetch of Home Assistant.
NextStep(kind, ans) ==
  CASE wk.step = "meta" -> AfterMeta(ans)
    [] wk.step = "project" -> AfterProject(ans)
    [] wk.step = "sections" -> AfterSections(ans)
    [] wk.step = "pages" -> AfterPage(kind, ans)
    [] wk.step = "completed" -> AfterCompleted(ans)
    [] wk.step \in {"lovelace", "default"} -> AfterLovelace(ans)
    [] wk.step = "states" -> AfterStates(ans)

\* The worker has its answer.
FetchAnswered(ans) ==
  \E w \in {NextStep(KindOf(Worker), ans)} :
    \/ w.pc = "failed" /\ FetchFailed(ans)
    \/ /\ w.pc # "failed"
       /\ wk' = w
       /\ rq' = [rq EXCEPT ![Worker] = IF w.pc = "fetch" THEN NewRequest(@.inst, insts) ELSE NoRequest]
       /\ UNCHANGED showVars

-----------------------------------------------------------------------------
(* Access tokens of Google Tasks.                                          *)

\* getAccessToken after waiting for tokenMu: another request has refreshed the token.
UseCachedToken(x) ==
  /\ rq[x].pc = "token"
  /\ insts[rq[x].inst].cached # "none"
  /\ rq' = [rq EXCEPT ![x].pc = "send", ![x].tok = insts[rq[x].inst].cached]
  /\ UNCHANGED <<conf, upVars, insts, current, user, wk, refreshCh, showVars, faults, changes>>

\* A refresh is due or forced by a 401.
NeedsToken(x) ==
  rq[x].pc = "force" \/ (rq[x].pc = "token" /\ insts[rq[x].inst].cached = "none")

\* The token endpoint is asked under tokenMu.  After a forced refresh the request is
\* made again with the new token.
RefreshToken(x) ==
  /\ NeedsToken(x)
  /\ insts' = [insts EXCEPT ![rq[x].inst].cached = "good"]
  /\ rq' = [rq EXCEPT ![x].pc = "send", ![x].tok = "good", ![x].retry = @ \/ rq[x].pc = "force"]
  /\ UNCHANGED <<conf, upVars, current, user, wk, refreshCh, showVars, faults, changes>>

\* The margin of 60 seconds is reached: the cached token is not used any more.
ExpireToken(n) ==
  /\ Fault
  /\ insts[n].kind = "oauth" /\ insts[n].cached # "none"
  /\ insts' = [insts EXCEPT ![n].cached = "none"]
  /\ UNCHANGED <<conf, upVars, rq, current, user, wk, refreshCh, showVars>>

\* External: Google revokes the tokens it has granted, those in requests under way too.
RevokeTokens ==
  /\ Fault
  /\ \E n \in DOMAIN insts : insts[n].cached = "good"
  /\ insts' = [n \in DOMAIN insts |-> [insts[n] EXCEPT !.cached = IF @ = "none" THEN @ ELSE "bad"]]
  /\ rq' = [x \in Procs |-> IF rq[x].pc # "none" /\ KindOf(x) = "oauth" THEN [rq[x] EXCEPT !.tok = "bad"] ELSE rq[x]]
  /\ user' = [u \in Users |-> IF user[u].pc = "calling" THEN [user[u] EXCEPT !.trouble = TRUE] ELSE user[u]]
  /\ UNCHANGED <<conf, upVars, current, wk, refreshCh, showVars>>

-----------------------------------------------------------------------------
(* Requests of the displays.                                               *)

NoAction == [pc |-> "idle", item |-> 0, want |-> "done", code |-> 0, ran |-> 0, trouble |-> FALSE]

\* The reply; of an action that was not done nothing more is asked.
Replied(r, code) ==
  [(IF code = 200 THEN r ELSE [NoAction EXCEPT !.ran = r.ran, !.trouble = r.trouble])
     EXCEPT !.pc = "replied", !.code = code]

\* Both kinds of upstream say with two codes that a token is not accepted.
Unauthorised(ans) == ans \in {"401", "403"}

\* The error mapping of the handler of lists ...
ListStatus(ans) ==
  CASE ans = "ok" -> 200
    [] Unauthorised(ans) -> 401
    [] ans = "404" -> 404
    [] ans = "5xx" -> 502
    [] ans = "net" -> 500

\* ... and of the handler of actions.
ActionStatus(ans) ==
  CASE ans = "ok" -> 200
    [] Unauthorised(ans) -> 401
    [] ans = "404" -> 404
    [] ans \in {"5xx", "net"} -> 502

StatusCode(kind, ans) == IF IsTasks(kind) THEN ListStatus(ans) ELSE ActionStatus(ans)

\* What the handlers check before they call the coordinator: ids, domain and service.
ValidAsk(i) == i # Invalid

\* The call on provider n begins, in trouble if it has no token.
Calls(u, n, i, want) ==
  /\ user' = [user EXCEPT ![u] = [@ EXCEPT !.pc = "calling", !.item = i, !.want = want,
                                         !.trouble = ~HasToken(insts[n])]]
  /\ rq' = [rq EXCEPT ![u] = NewRequest(n, insts)]

\* CompleteListItem: the provider of the list is looked up under the coordinator's lock
\* and called without it.
CompleteListItem(u, i) ==
  IsTasks(insts[current].kind) /\ Calls(u, current, i, "done")

\* CallWidgetActionWithResponse, likewise.
CallWidgetAction(u, i, want) ==
  ~IsTasks(insts[current].kind) /\ Calls(u, current, i, want)

\* The handlers up to the call of upstream.
BeginAction(u, i, want) ==
  /\ user[u].pc = "idle"
  /\ IF ~ValidAsk(i) \/ current = 0
     THEN /\ user' = [user EXCEPT ![u] = Replied(@, IF ~ValidAsk(i) THEN 400 ELSE 404)]
          /\ UNCHANGED rq
     ELSE \/ want = "done" /\ CompleteListItem(u, i)
          \/ CallWidgetAction(u, i, want)
  /\ UNCHANGED <<conf, upVars, insts, current, wk, refreshCh, showVars, faults, changes>>

\* Fault: whatever the error, the request is made again with a new token.
Retries_AnyError(x, ans) == KindOf(x) = "oauth" /\ ans \notin {"ok", "404"} /\ ~rq[x].retry

\* doGetWithRetry, doPatchWithRetry: one retry, after a 401 and with a new token.
Retries(x, ans) == KindOf(x) = "oauth" /\ ans = "401" /\ ~rq[x].retry

\* The request is to be made again, after a forced refresh.
RetryRequest(r) == [r EXCEPT !.pc = "force"]

\* An answer has come to x, whose HTTP request, if x is a user, is now r.
AfterAnswer(x, ans, r) ==
  \/ /\ Retries(x, ans)
     /\ rq' = [rq EXCEPT ![x] = RetryRequest(@)]
     /\ user' = IF x = Worker THEN user ELSE [user EXCEPT ![x] = r]
     /\ UNCHANGED <<wk, showVars>>
  \/ /\ ~Retries(x, ans)
     /\ x # Worker
     /\ user' = [user EXCEPT ![x] = IF ans = "ok" THEN [r EXCEPT !.pc = "refresh"]
                                    ELSE Replied(r, StatusCode(KindOf(x), ans))]
     /\ rq' = [rq EXCEPT ![x] = IF ans = "ok" THEN [@ EXCEPT !.pc = "none"] ELSE NoRequest]
     /\ UNCHANGED <<wk, showVars>>
  \/ ~Retries(x, ans) /\ x = Worker /\ UNCHANGED user /\ FetchAnswered(ans)

RequestOf(x) == IF x = Worker THEN NoAction ELSE user[x]
Troubled(x) == [RequestOf(x) EXCEPT !.trouble = TRUE]

\* Upstream does not accept the token.
Refused(x) ==
  /\ rq[x].pc = "send"
  /\ rq[x].tok = "bad"
  /\ AfterAnswer(x, "401", RequestOf(x))
  /\ UNCHANGED <<conf, upVars, insts, current, refreshCh, faults, changes>>

\* Upstream serves a read of the worker.
Served ==
  /\ rq[Worker].pc = "send"
  /\ rq[Worker].tok = "good"
  /\ UNCHANGED <<conf, upVars, insts, current, refreshCh, faults, changes>>
  /\ AfterAnswer(Worker, "ok", NoAction)

\* Upstream carries out what user u asks for.
Execute(u) ==
  /\ up' = [up EXCEPT ![user[u].item] = IF @ = "absent" THEN @ ELSE user[u].want]
  /\ author' = [author EXCEPT ![user[u].item] = u]

\* ... and says so.  A task that does not exist is not found.
CompleteItem(u) ==
  /\ IsTasks(KindOf(u))
  /\ IF up[user[u].item] = "absent" THEN AfterAnswer(u, "404", user[u]) /\ UNCHANGED upVars
     ELSE Execute(u) /\ AfterAnswer(u, "ok", [user[u] EXCEPT !.ran = @ + 1])

\* A service of an entity that does not exist has no effect.
CallService(u) ==
  /\ ~IsTasks(KindOf(u))
  /\ Execute(u)
  /\ AfterAnswer(u, "ok", [user[u] EXCEPT !.ran = @ + 1])

Executed(u) ==
  /\ rq[u].pc = "send"
  /\ rq[u].tok = "good"
  /\ CompleteItem(u) \/ CallService(u)
  /\ UNCHANGED <<conf, insts, current, refreshCh, faults, changes>>

\* Once a fetch has failed, the next ones may fail as well.
Outage(x) ==
  x = Worker /\ failures \in 1..(MaxFailures - 1) /\ UNCHANGED <<faults, changes>>

\* A request fails without effect.
Fails(x, ans) ==
  /\ Fault \/ Outage(x)
  /\ rq[x].pc = "send"
  /\ AfterAnswer(x, ans, Troubled(x))
  /\ UNCHANGED <<conf, upVars, insts, current, refreshCh>>

\* A request was carried out, and its answer is lost or an error.
LosesAnswer(u, ans) ==
  /\ Fault
  /\ rq[u].pc = "send"
  /\ rq[u].tok = "good"
  /\ up[user[u].item] # "absent"
  /\ Execute(u)
  /\ AfterAnswer(u, ans, [Troubled(u) EXCEPT !.ran = @ + 1])
  /\ UNCHANGED <<conf, insts, current, refreshCh>>

\* The token endpoint fails: after a 401 that remains the answer.
TokenFails(x) ==
  /\ Fault
  /\ NeedsToken(x)
  /\ IF x = Worker
     THEN FetchAnswered(IF rq[x].pc = "force" THEN "401" ELSE "net") /\ UNCHANGED user
     ELSE /\ user' = [user EXCEPT ![x] = Replied(Troubled(x), IF rq[x].pc = "force" THEN 401 ELSE 500)]
          /\ rq' = [rq EXCEPT ![x] = NoRequest]
          /\ UNCHANGED <<wk, showVars>>
  /\ UNCHANGED <<conf, upVars, insts, current, refreshCh>>

\* Fault: the refresh goes to the worker of the provider that was called.
RefreshWidget_Captured(u) ==
  /\ user[u].pc = "refresh"
  /\ refreshCh' = (refreshCh \/ (current # 0 /\ current = rq[u].inst))
  /\ user' = [user EXCEPT ![u] = Replied(@, IF current = 0 /\ IsTasks(KindOf(u)) THEN 500 ELSE 200)]
  /\ rq' = [rq EXCEPT ![u] = NoRequest]
  /\ UNCHANGED <<conf, upVars, insts, current, wk, showVars, faults, changes>>

\* RefreshWidget finds the widget's worker of now.  A missing worker fails the
\* completion of a task and is only logged after a service call.  The code looks the
\* worker up under the coordinator's lock and sends after releasing it; a worker that is
\* replaced in between has a successor that fetches anyway, so both are one step here.
RefreshWidget(u) ==
  /\ user[u].pc = "refresh"
  /\ refreshCh' = (refreshCh \/ current # 0)
  /\ user' = [user EXCEPT ![u] = Replied(@, IF current = 0 /\ IsTasks(KindOf(u)) THEN 500 ELSE 200)]
  /\ rq' = [rq EXCEPT ![u] = NoRequest]
  /\ UNCHANGED <<conf, upVars, insts, current, wk, showVars, faults, changes>>

-----------------------------------------------------------------------------
(* The worker's loop.                                                      *)

StartFetch ==
  /\ wk' = Fetching(insts[current].kind)
  /\ rq' = [rq EXCEPT ![Worker] = NewRequest(current, insts)]

\* Fault: the timer is not armed again after a failure.
Poll_OnlyHealthy ==
  /\ wk.pc = "wait"
  /\ status = "healthy"
  /\ StartFetch
  /\ UNCHANGED <<conf, upVars, insts, current, user, refreshCh, showVars, faults, changes>>

Poll ==
  /\ wk.pc = "wait"
  /\ StartFetch
  /\ UNCHANGED <<conf, upVars, insts, current, user, refreshCh, showVars, faults, changes>>

TakeRefresh ==
  /\ wk.pc = "wait"
  /\ refreshCh
  /\ refreshCh' = FALSE
  /\ StartFetch
  /\ UNCHANGED <<conf, upVars, insts, current, user, showVars, faults, changes>>

\* The entries in the order of the adapter, in a set.
Ordered(kind, got) ==
  CASE kind \in {"gtasks", "oauth"} -> OrderTasks(got)
    [] kind = "todoist" -> {open \o Only(got, "done") : open \in OrderTasks(Only(got, "open"))}
    [] kind = "hass" -> {got}

\* RecordSuccess and the broadcast.
Record ==
  /\ wk.pc = "record"
  /\ \E list \in Ordered(insts[current].kind, wk.got) :
       shown' \in IF IsTasks(insts[current].kind) THEN BuildSnapshot(list) ELSE {list}
  /\ status' = "healthy"
  /\ failures' = 0
  /\ wk' = [wk EXCEPT !.pc = "wait", !.got = <<>>, !.delay = ComputeRetryDelay("ok", 0)]
  /\ UNCHANGED <<conf, upVars, netVars, current, user, refreshCh, faults, changes>>

-----------------------------------------------------------------------------
(* The world around.                                                       *)

\* Somebody changes an item with another client.
EditUpstream(i, st) ==
  /\ Change
  /\ up[i] # st
  /\ up' = [up EXCEPT ![i] = st]
  /\ author' = [author EXCEPT ![i] = "other"]
  /\ UNCHANGED <<conf, netVars, current, user, wk, refreshCh, showVars>>

\* A reload that touches the widget replaces worker and provider; requests under way
\* keep the old provider.  The data stays unless the domain configuration has changed.
Reload(c) ==
  LET kind == InitProvider(c)
      purge == c # conf
  IN  /\ Change
      /\ c.source = conf.source
      /\ conf' = c
      /\ IF kind = "error"
         THEN /\ current' = 0
              /\ wk' = NoWorker
              /\ rq' = [rq EXCEPT ![Worker] = NoRequest]
              /\ UNCHANGED insts
         ELSE /\ insts' = Append(insts, NewInstance(c))
              /\ current' = Len(insts')
              /\ wk' = Fetching(kind)
              /\ rq' = [rq EXCEPT ![Worker] = NewRequest(current', insts')]
      /\ refreshCh' = FALSE
      /\ shown' = IF purge THEN <<>> ELSE shown
      /\ status' = IF purge \/ kind = "error" THEN "failing" ELSE status
      /\ failures' = (IF purge THEN 0 ELSE failures) + (IF kind = "error" THEN 1 ELSE 0)
      /\ UNCHANGED <<upVars, user>>

Init ==
  /\ conf \in Confs
  /\ up = Initially
  /\ author = [i \in Items |-> "other"]
  /\ \E kind \in {InitProvider(conf)} :
       IF kind = "error"
       THEN insts = <<>> /\ current = 0 /\ wk = NoWorker /\ failures = 1
            /\ rq = [x \in Procs |-> NoRequest]
       ELSE insts = <<NewInstance(conf)>> /\ current = 1 /\ wk = Fetching(kind) /\ failures = 0
            /\ rq = [x \in Procs |-> IF x = Worker THEN NewRequest(1, insts) ELSE NoRequest]
  /\ user = [u \in Users |-> NoAction]
  /\ refreshCh = FALSE
  /\ status = "none"
  /\ shown = <<>>
  /\ faults = 0 /\ changes = 0

Errors == {"401", "403", "404", "5xx", "net"}

Requests(x) == UseCachedToken(x) \/ RefreshToken(x) \/ Refused(x)

\* The worker is a goroutine that is never blocked for good: its timer fires and the
\* HTTP clients have timeouts.
WorkerSteps == Served \/ Poll \/ TakeRefresh \/ Record \/ Requests(Worker)

Next ==
  \/ \E x \in Procs : TokenFails(x) \/ (\E ans \in Errors : Fails(x, ans))
  \/ \E u \in Users :
       \/ \E ask \in Asks[u] : BeginAction(u, ask[1], ask[2])
       \/ Requests(u) \/ Executed(u) \/ RefreshWidget(u)
       \/ \E ans \in {"5xx", "net"} : LosesAnswer(u, ans)
  \/ WorkerSteps
  \/ \E n \in DOMAIN insts : ExpireToken(n)
  \/ RevokeTokens
  \/ \E i \in Items, st \in Statuses \cup {"absent"} : EditUpstream(i, st)
  \/ \E c \in Confs : Reload(c)

Fairness == WF_vars(WorkerSteps)

Spec == Init /\ [][Next]_vars

FairSpec == Spec /\ Fairness

-----------------------------------------------------------------------------
(* Properties.                                                             *)

\* Types; only the OAuth client asks for tokens, and a widget has a worker exactly when it
\* has a provider.
TypeOK ==
  /\ conf \in Confs
  /\ up \in [Items -> Statuses \cup {"absent"}]
  /\ author \in [Items -> Users \cup {"other"}]
  /\ insts \in Seq([kind : {"oauth", "gtasks", "todoist", "hass"}, cached : {"none", "good", "bad"}])
  /\ current \in 0..Len(insts)
  /\ \A x \in Procs :
       /\ rq[x].pc \in {"none", "token", "force", "send"}
       /\ rq[x].pc # "none" => rq[x].inst \in DOMAIN insts
       /\ rq[x].pc \in {"token", "force"} => KindOf(x) = "oauth"
  /\ \A u \in Users : user[u].pc \in {"idle", "calling", "refresh", "replied"}
  /\ wk.pc \in {"none", "fetch", "record", "wait"} /\ (wk.pc = "none" <=> current = 0)
  /\ wk.page \in 1..MaxPages
  /\ shown \in Seq(Entry)

\* item i is on display, and not in state st
ShownOtherwise(i, st) == \E e \in ToSet(shown) : e.id = i /\ e.st # st

\* the fetch under way has not read of item i anything but st
ReadsRight(i, st) ==
  wk.pc \in {"fetch", "record"} /\ \A e \in ToSet(wk.got) : e.id = i => e.st = st

\* Once a display was told that its action has been done, an item that is still shown as
\* before is about to be read: a refresh is queued, or the fetch under way will show it,
\* or the widget is marked as failing.  Holds for a refresh that finds the worker in the
\* middle of a fetch, for several refreshes of which one is queued, and for a worker that
\* a reload replaced between the action and the refresh (coordinator.go:189-231).
RefreshNotLost ==
  \A u \in Users :
    LET i == user[u].item
        st == user[u].want
    IN  user[u].code = 200 /\ author[i] = u /\ up[i] = st /\ ShownOtherwise(i, st)
        => current = 0 \/ refreshCh \/ ReadsRight(i, st) \/ status = "failing"

\* An action is carried out at most once, retry included; exactly once when the reply is
\* 200, and not at all when it blames the request or its authorisation.  Only a reply
\* that blames the server leaves it open (lists.go:68-82, ha_action.go:299-327).  A cached
\* access token that Google has revoked is no reason to answer 401: one refresh and one
\* retry make up for it, whatever the other requests do with the token meanwhile
\* (gtasks.go:286-358).  For a client without any token 401 is the answer.
ReplyTruthful ==
  \A u \in Users :
    /\ user[u].ran <= 1
    /\ user[u].code = 200 => user[u].ran = 1
    /\ user[u].code \in {400, 401, 404} => user[u].ran = 0
    /\ user[u].code = 401 => user[u].trouble

\* No item is on display twice, although the pages were read at different times, and a
\* subtask comes after its parent (gtasks.go:226-278, todoist.go:430-488, model.go:49).
ListSound ==
  /\ Cardinality(IdsOf(shown)) = Len(shown)
  /\ \A j, k \in DOMAIN shown :
       shown[j].st = "open" /\ shown[k].st = "open" /\ Parent[shown[k].id] = shown[j].id
       /\ conf.source # "hass" => j < k

\* However many failures there were in a row, the delay doubled with each of them, a widget
\* is tried again no later than a healthy one is polled, and not at once
\* (backoff.go:108-175).
RetryBounded ==
  wk.pc = "wait" => 0 < wk.delay.lo /\ wk.delay.lo <= wk.delay.hi /\ wk.delay.hi <= Interval

\* What is on display is what upstream has now.
Current ==
  /\ \A e \in ToSet(shown) : up[e.id] = e.st
  /\ conf.source # "hass" => \A i \in Items : up[i] = "open" => i \in IdsOf(shown)

\* Once nobody changes anything and requests succeed, the displays of a widget that has
\* a token come to show what upstream has: a revoked token, any number of failed fetches,
\* a list that was read in pieces while it changed and an action whose answer was lost
\* are all made up for.
Converges == <>[](current # 0 /\ HasToken(insts[current]) => Current)
=============================================================================
