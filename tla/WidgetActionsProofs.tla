------------------------ MODULE WidgetActionsProofs -------------------------
(***************************************************************************)
(* Proofs about the actions that displays ask for and the worker that      *)
(* shows their effect, for any number of requests at once, any number of   *)
(* faults, revoked tokens and reloads, and any tree of tasks.              *)
(*                                                                         *)
(* A reply says the truth because a request that may be made again has not *)
(* been carried out, and because a request made with a token that is       *)
(* refused has been made again unless the trouble is not the cache's.      *)
(*                                                                         *)
(* No refresh is lost because everything a fetch has read since an action  *)
(* was done shows its effect, and what is shown was read by the last       *)
(* fetch.  A list is sound because the loops that build it keep order and  *)
(* visit every place once.                                                 *)
(***************************************************************************)
EXTENDS WidgetActions, SequenceTheorems, FiniteSetTheorems, WellFoundedInduction, TLAPS

-----------------------------------------------------------------------------
(* The invariant.                                                          *)

Instances == [kind : {"oauth", "gtasks", "todoist", "hass"}, cached : {"none", "good", "bad"}]

ActionRecs ==
  [pc : {"idle", "calling", "refresh", "replied"}, item : Items \cup {0}, want : Statuses, code : Nat,
   ran : Nat, trouble : BOOLEAN]

RequestRecs ==
  [pc : {"none", "token", "force", "send"}, inst : Nat, tok : {"none", "good", "bad"}, retry : BOOLEAN]

Shape ==
  /\ insts \in Seq(Instances)
  /\ current \in 0..Len(insts)
  /\ user \in [Users -> ActionRecs]
  /\ rq = [x \in Procs |-> rq[x]]
  /\ \A u \in Users : rq[u] \in RequestRecs

\* Where a display's request is, and what upstream has done of it.
Stage(u) ==
  /\ user[u].pc # "calling" => rq[u].pc = "none"
  /\ user[u].pc \in {"idle", "calling"} => user[u].ran = 0 /\ user[u].code = 0
  /\ user[u].pc = "refresh" => user[u].ran = 1 /\ user[u].code = 0
  /\ user[u].pc = "replied" =>
       /\ user[u].ran <= 1
       /\ user[u].code = 200 => user[u].ran = 1
       /\ user[u].code \in {400, 401, 404} => user[u].ran = 0
       /\ user[u].code = 401 => user[u].trouble

\* Of the requests that carry a token only one with a cached token can be refused; a
\* second attempt only if the token was revoked meanwhile.
Token(u) ==
  /\ rq[u].pc # "none" => rq[u].inst \in 1..Len(insts)
  /\ rq[u].pc # "none" /\ rq[u].tok = "bad" =>
       (KindOf(u) = "oauth" /\ ~rq[u].retry) \/ user[u].trouble
  /\ rq[u].pc \in {"token", "force"} => KindOf(u) = "oauth"
  /\ rq[u].pc = "token" => ~rq[u].retry

Inv == Shape /\ \A u \in Users : Stage(u) /\ Token(u)

-----------------------------------------------------------------------------
(* Replies and requests.                                                   *)

\* A reply keeps what is known of the action.
LEMMA RepliedType ==
    ASSUME NEW r \in ActionRecs, NEW code \in Nat
    PROVE  /\ Replied(r, code) \in ActionRecs
           /\ Replied(r, code).pc = "replied" /\ Replied(r, code).code = code
           /\ Replied(r, code).ran = r.ran /\ Replied(r, code).trouble = r.trouble
<1>1. NoAction \in ActionRecs
  BY DEF NoAction, ActionRecs, Statuses
<1>2. CASE code = 200
  <2>1. Replied(r, code) = [r EXCEPT !.pc = "replied", !.code = code]
    BY <1>2 DEF Replied
  <2> QED
    BY <2>1 DEF ActionRecs
<1>3. CASE code # 200
  <2>1. Replied(r, code) = [NoAction EXCEPT !.ran = r.ran, !.trouble = r.trouble, !.pc = "replied", !.code = code]
    BY <1>1, <1>3 DEF Replied, ActionRecs
  <2> QED
    BY <1>1, <2>1 DEF ActionRecs
<1> QED
  BY <1>2, <1>3

\* The error mappings of both handlers: only a token that is not accepted is
\* answered with 401, and 200 is no error.
LEMMA StatusFacts ==
    ASSUME NEW kind, NEW ans \in Errors
    PROVE  /\ StatusCode(kind, ans) \in {401, 404, 500, 502}
           /\ StatusCode(kind, ans) = 401 => ans \in {"401", "403"}
           /\ StatusCode(kind, ans) = 404 => ans = "404"
<1>1. /\ ListStatus(ans) \in {401, 404, 500, 502}
      /\ ListStatus(ans) = 401 => ans \in {"401", "403"}
      /\ ListStatus(ans) = 404 => ans = "404"
  BY DEF ListStatus, Unauthorised, Errors
<1>2. /\ ActionStatus(ans) \in {401, 404, 500, 502}
      /\ ActionStatus(ans) = 401 => ans \in {"401", "403"}
      /\ ActionStatus(ans) = 404 => ans = "404"
  BY DEF ActionStatus, Unauthorised, Errors
<1> QED
  BY <1>1, <1>2 DEF StatusCode

\* Kinds of providers do not change, and providers do not go away.
KindsKept ==
  /\ insts' \in Seq(Instances) /\ Len(insts) <= Len(insts')
  /\ \A n \in 1..Len(insts) : insts'[n].kind = insts[n].kind

\* A request nobody has touched stays in order.
LEMMA UserKept ==
    ASSUME Shape, KindsKept, NEW u \in Users, Stage(u), Token(u), user'[u] = user[u], rq'[u] = rq[u]
    PROVE  Stage(u)' /\ Token(u)'
<1>1. Len(insts) \in Nat /\ Len(insts') \in Nat
  BY DEF Shape, KindsKept
<1>2. rq[u].pc # "none" => rq[u].inst \in 1..Len(insts') /\ KindOf(u)' = KindOf(u)
  BY <1>1 DEF Token, KindOf, KindsKept
<1>3. Stage(u)'
  BY DEF Stage
<1>4. Token(u)'
  BY <1>2 DEF Token
<1> QED
  BY <1>3, <1>4

\* Steps that no request of a display is touched by.
LEMMA UsersKept ==
    ASSUME Inv, KindsKept, current' \in 0..Len(insts'), user' = user,
           rq' = [x \in Procs |-> rq'[x]], \A u \in Users : rq'[u] = rq[u]
    PROVE  Inv'
<1>1. Shape'
  BY DEF Inv, Shape, KindsKept
<1>2. \A u \in Users : Stage(u)' /\ Token(u)'
  BY UserKept DEF Inv
<1> QED
  BY <1>1, <1>2 DEF Inv

\* Nothing has happened to the providers.
LEMMA SameKinds ==
    ASSUME Shape, UNCHANGED insts
    PROVE  KindsKept
  BY DEF Shape, KindsKept

\* Another cached token for one of them.
LEMMA CachedKinds ==
    ASSUME Shape, NEW n, NEW c \in {"none", "good", "bad"}, insts' = [insts EXCEPT ![n].cached = c]
    PROVE  KindsKept /\ Len(insts') = Len(insts)
<1>1. /\ insts \in [1..Len(insts) -> Instances] /\ Len(insts) \in Nat
      /\ DOMAIN insts = 1..Len(insts)
  BY DEF Shape
<1>2. \A m \in 1..Len(insts) : insts'[m] \in Instances /\ insts'[m].kind = insts[m].kind
  BY <1>1 DEF Instances
<1>3. DOMAIN insts' = 1..Len(insts)
  BY <1>1
<1>4. insts' \in [1..Len(insts) -> Instances]
  BY <1>1, <1>2
<1>5. insts' \in Seq(Instances) /\ Len(insts') = Len(insts)
  BY <1>1, <1>4, SeqDef, LenProperties
<1> QED
  BY <1>1, <1>2, <1>5 DEF KindsKept

\* A request with provider n begins without a retry, with the token that is cached or
\* given if the provider has one.
LEMMA NewRequestFacts ==
    ASSUME NEW all \in Seq(Instances), NEW n \in 1..Len(all)
    PROVE  LET r == NewRequest(n, all) IN
           /\ r \in RequestRecs /\ r.inst = n /\ ~r.retry
           /\ r.pc \in {"token", "send"}
           /\ r.pc = "token" => all[n].kind = "oauth"
           /\ r.tok = "bad" => all[n].kind = "oauth" \/ ~HasToken(all[n])
<1>1. all[n] \in Instances /\ n \in Nat
  BY ElementOfSeq
<1>2. FALSE \in BOOLEAN
  OBVIOUS
<1> QED
  BY <1>1, <1>2 DEF NewRequest, RequestRecs, Instances, HasToken

-----------------------------------------------------------------------------
(* Steps of a display's request.                                           *)

\* One display's request moves on; the others do not.
LEMMA OneMoves ==
    ASSUME Inv, KindsKept, current' \in 0..Len(insts'), NEW u \in Users,
           user' \in [Users -> ActionRecs], rq' = [x \in Procs |-> rq'[x]], rq'[u] \in RequestRecs,
           \A v \in Users : v # u => user'[v] = user[v] /\ rq'[v] = rq[v],
           Stage(u)', Token(u)'
    PROVE  Inv'
<1>1. Shape
  BY DEF Inv
<1>2. Shape'
  BY <1>1 DEF Shape, KindsKept
<1>3. \A v \in Users : v # u => Stage(v)' /\ Token(v)'
  BY <1>1, UserKept DEF Inv
<1> QED
  BY <1>2, <1>3 DEF Inv

\* The same, with what becomes of it.
LEMMA UserMoves ==
    ASSUME Inv, KindsKept, current' \in 0..Len(insts'), NEW u \in Users, NEW a \in ActionRecs, NEW r \in RequestRecs,
           user' = [user EXCEPT ![u] = a], rq' = [rq EXCEPT ![u] = r],
           (user'[u] = a /\ rq'[u] = r) => Stage(u)' /\ Token(u)'
    PROVE  Inv'
<1>1. Shape /\ u \in Procs /\ Users \subseteq Procs
  BY DEF Inv, Procs
<1>2. /\ user' \in [Users -> ActionRecs] /\ user'[u] = a
      /\ \A v \in Users : v # u => user'[v] = user[v]
  BY <1>1 DEF Shape
<1>3. /\ rq' = [x \in Procs |-> rq'[x]] /\ rq'[u] = r
      /\ \A v \in Users : v # u => rq'[v] = rq[v]
  BY <1>1 DEF Shape
<1> QED
  BY <1>2, <1>3, OneMoves

\* A request that the handlers reject, or that finds no provider.
LEMMA RejectedInv ==
    ASSUME Inv, NEW u \in Users, NEW n \in {400, 404}, user[u].pc = "idle",
           user' = [user EXCEPT ![u] = Replied(user[u], n)], rq' = rq, insts' = insts, current' = current
    PROVE  Inv'
<1>1. Shape /\ Stage(u) /\ user[u] \in ActionRecs /\ rq[u] \in RequestRecs
  BY DEF Inv, Shape
<1>2. KindsKept /\ current' \in 0..Len(insts')
  BY <1>1, SameKinds DEF Shape
<1>3. user[u].ran = 0 /\ rq[u].pc = "none"
  BY <1>1 DEF Stage
<1>4. n \in Nat
  OBVIOUS
<1>5. PICK b \in ActionRecs : b = Replied(user[u], n) /\ b.pc = "replied" /\ b.code = n /\ b.ran = 0
  BY <1>1, <1>3, <1>4, RepliedType
<1>6. /\ user' \in [Users -> ActionRecs] /\ user'[u] = b
      /\ \A v \in Users : v # u => user'[v] = user[v] /\ rq'[v] = rq[v]
  BY <1>1, <1>5 DEF Shape
<1>7. rq' = [x \in Procs |-> rq'[x]] /\ rq'[u] \in RequestRecs
  BY <1>1 DEF Shape
<1>8. Stage(u)' /\ Token(u)'
  BY <1>3, <1>5, <1>6 DEF Stage, Token
<1> QED
  BY <1>2, <1>6, <1>7, <1>8, OneMoves

\* The handlers up to the call of upstream.
LEMMA BeginActionInv ==
    ASSUME Inv, NEW u \in Users, NEW i \in Items \cup {Invalid}, NEW want \in Statuses, BeginAction(u, i, want)
    PROVE  Inv'
<1>0. Shape /\ Stage(u) /\ Token(u) /\ user[u] \in ActionRecs /\ rq[u] \in RequestRecs
  BY DEF Inv, Shape
<1>1. user[u].pc = "idle" /\ insts' = insts /\ current' = current
  BY DEF BeginAction
<1>2. KindsKept /\ current' \in 0..Len(insts')
  BY <1>0, <1>1, SameKinds DEF Shape
<1>3. user[u].ran = 0 /\ user[u].code = 0 /\ rq[u].pc = "none"
  BY <1>0, <1>1 DEF Stage
<1>4. CASE ~ValidAsk(i) \/ current = 0
  <2>1. \/ user' = [user EXCEPT ![u] = Replied(user[u], 400)]
        \/ user' = [user EXCEPT ![u] = Replied(user[u], 404)]
    BY <1>4 DEF BeginAction
  <2>2. rq' = rq
    BY <1>4 DEF BeginAction
  <2> QED
    BY <1>1, <2>1, <2>2, RejectedInv
<1>5. CASE ValidAsk(i) /\ current # 0
  <2> DEFINE r == NewRequest(current, insts)
  <2> DEFINE t == ~HasToken(insts[current])
  <2>1. PICK w \in Statuses :
          /\ user' = [user EXCEPT ![u] = [user[u] EXCEPT !.pc = "calling", !.item = i, !.want = w,
                                                        !.trouble = t]]
          /\ rq' = [rq EXCEPT ![u] = r]
    BY <1>5 DEF BeginAction, CompleteListItem, CallWidgetAction, Calls
  <2> DEFINE a == [user[u] EXCEPT !.pc = "calling", !.item = i, !.want = w, !.trouble = t]
  <2>0. t \in BOOLEAN
    BY Zenon DEF HasToken
  <2>2. a \in ActionRecs /\ a.pc = "calling" /\ a.ran = 0 /\ a.code = 0 /\ a.trouble = t
    BY <1>0, <1>3, <2>0 DEF ActionRecs, Invalid
  <2>3. current \in 1..Len(insts) /\ insts \in Seq(Instances)
    BY <1>0, <1>5 DEF Shape
  <2>4. /\ r \in RequestRecs /\ r.inst = current /\ ~r.retry
        /\ r.pc \in {"token", "send"}
        /\ r.pc = "token" => insts[current].kind = "oauth"
        /\ r.tok = "bad" => insts[current].kind = "oauth" \/ ~HasToken(insts[current])
    BY <2>3, NewRequestFacts
  <2> HIDE DEF a, r
  <2>5. ASSUME user'[u] = a, rq'[u] = r PROVE Stage(u)' /\ Token(u)'
    BY <1>1, <2>2, <2>3, <2>4, <2>5 DEF Stage, Token, KindOf
  <2> QED
    BY <1>2, <2>1, <2>2, <2>4, <2>5, UserMoves DEF a
<1> QED
  BY <1>4, <1>5

\* getAccessToken.
LEMMA TokenInv ==
    ASSUME Inv, NEW u \in Users, UseCachedToken(u) \/ RefreshToken(u)
    PROVE  Inv'
<1> DEFINE r == rq'[u]
<1>0. Shape /\ Stage(u) /\ Token(u) /\ user[u] \in ActionRecs /\ rq[u] \in RequestRecs /\ u \in Procs
  BY DEF Inv, Shape, Procs
<1>1. /\ rq[u].pc \in {"token", "force"} /\ user' = user /\ current' = current
      /\ user' = [user EXCEPT ![u] = user[u]]
  BY <1>0 DEF UseCachedToken, RefreshToken, NeedsToken, Shape
<1>2. user[u].pc = "calling" /\ rq[u].inst \in 1..Len(insts) /\ KindOf(u) = "oauth"
  BY <1>0, <1>1 DEF Stage, Token
<1>3. CASE UseCachedToken(u)
  <2>1. rq' = [rq EXCEPT ![u] = r] /\ r = [rq[u] EXCEPT !.pc = "send", !.tok = insts[rq[u].inst].cached]
    BY <1>0, <1>3 DEF UseCachedToken, Shape
  <2>2. insts[rq[u].inst] \in Instances /\ insts' = insts
    BY <1>0, <1>2, <1>3, ElementOfSeq DEF Shape, UseCachedToken
  <2>3. r \in RequestRecs /\ r.pc = "send" /\ r.inst = rq[u].inst /\ r.retry = rq[u].retry
    BY <1>0, <2>1, <2>2 DEF RequestRecs, Instances
  <2>4. ~rq[u].retry
    BY <1>0, <1>3 DEF Token, UseCachedToken
  <2>5. KindsKept /\ current' \in 0..Len(insts')
    BY <1>0, <1>1, <2>2, SameKinds DEF Shape
  <2> HIDE DEF r
  <2>6. ASSUME user'[u] = user[u], rq'[u] = r PROVE Stage(u)' /\ Token(u)'
    BY <1>0, <1>2, <2>2, <2>3, <2>4, <2>6 DEF Stage, Token, KindOf
  <2> QED
    BY <1>0, <1>1, <2>1, <2>3, <2>5, <2>6, UserMoves
<1>4. CASE RefreshToken(u)
  <2>1. /\ rq' = [rq EXCEPT ![u] = r]
        /\ r = [rq[u] EXCEPT !.pc = "send", !.tok = "good", !.retry = @ \/ rq[u].pc = "force"]
        /\ insts' = [insts EXCEPT ![rq[u].inst].cached = "good"]
    BY <1>0, <1>4 DEF RefreshToken, Shape
  <2>2. r \in RequestRecs /\ r.pc = "send" /\ r.inst = rq[u].inst /\ r.tok = "good"
    BY <1>0, <2>1 DEF RequestRecs
  <2>3. KindsKept /\ Len(insts') = Len(insts)
    BY <1>0, <2>1, CachedKinds
  <2>4. current' \in 0..Len(insts')
    BY <1>0, <1>1, <2>3 DEF Shape
  <2> HIDE DEF r
  <2>5. ASSUME user'[u] = user[u], rq'[u] = r PROVE Stage(u)' /\ Token(u)'
    BY <1>0, <1>2, <2>2, <2>3, <2>5 DEF Stage, Token
  <2> QED
    BY <1>0, <1>1, <2>1, <2>2, <2>3, <2>4, <2>5, UserMoves
<1> QED
  BY <1>3, <1>4

\* An answer comes: what is retried has not been carried out, and what is told is
\* true of a.
LEMMA AnsweredInv ==
    ASSUME Inv, NEW u \in Users, NEW ans \in Errors \cup {"ok"}, NEW a \in ActionRecs,
           rq[u].pc = "send", AfterAnswer(u, ans, a),
           a.pc = "calling", a.code = 0, a.ran <= 1,
           ans = "ok" => a.ran = 1,
           ans \in {"401", "403", "404"} => a.ran = 0,
           ans \in {"401", "403"} /\ ~Retries(u, ans) => a.trouble,
           UNCHANGED <<insts, current>>
    PROVE  Inv'
<1>0. Shape /\ Stage(u) /\ Token(u) /\ rq[u] \in RequestRecs /\ u \in Procs /\ u # Worker
  BY UsersAssumption DEF Inv, Shape, Procs, Worker
<1>1. KindsKept /\ current' \in 0..Len(insts')
  BY <1>0, SameKinds DEF Shape
<1>2. rq[u].inst \in 1..Len(insts)
  BY <1>0 DEF Token
<1>3. CASE Retries(u, ans)
  <2> DEFINE r == [rq[u] EXCEPT !.pc = "force"]
  <2>1. rq' = [rq EXCEPT ![u] = r] /\ user' = [user EXCEPT ![u] = a]
    BY <1>0, <1>3 DEF AfterAnswer, RetryRequest
  <2>2. ans = "401" /\ ~rq[u].retry /\ a.ran = 0 /\ KindOf(u) = "oauth"
    BY <1>3 DEF Retries
  <2>3. r \in RequestRecs /\ r.pc = "force" /\ r.inst = rq[u].inst /\ r.retry = rq[u].retry /\ r.tok = rq[u].tok
    BY <1>0 DEF RequestRecs
  <2> HIDE DEF r
  <2>4. ASSUME user'[u] = a, rq'[u] = r PROVE Stage(u)' /\ Token(u)'
    BY <1>0, <1>2, <2>2, <2>3, <2>4 DEF Stage, Token, KindOf
  <2> QED
    BY <1>1, <2>1, <2>3, <2>4, UserMoves
<1>4. CASE ~Retries(u, ans) /\ ans = "ok"
  <2> DEFINE r == [rq[u] EXCEPT !.pc = "none"]
             b == [a EXCEPT !.pc = "refresh"]
  <2>1. rq' = [rq EXCEPT ![u] = r] /\ user' = [user EXCEPT ![u] = b]
    BY <1>0, <1>4 DEF AfterAnswer
  <2>2. r \in RequestRecs /\ r.pc = "none"
    BY <1>0 DEF RequestRecs
  <2>3. b \in ActionRecs /\ b.pc = "refresh" /\ b.ran = 1 /\ b.code = 0
    BY <1>4 DEF ActionRecs
  <2> HIDE DEF r, b
  <2>4. ASSUME user'[u] = b, rq'[u] = r PROVE Stage(u)' /\ Token(u)'
    BY <2>2, <2>3, <2>4 DEF Stage, Token
  <2> QED
    BY <1>1, <2>1, <2>2, <2>3, <2>4, UserMoves
<1>5. CASE ~Retries(u, ans) /\ ans # "ok"
  <2> DEFINE code == StatusCode(KindOf(u), ans)
             b == Replied(a, code)
  <2>1. rq' = [rq EXCEPT ![u] = NoRequest] /\ user' = [user EXCEPT ![u] = b]
    BY <1>0, <1>5 DEF AfterAnswer
  <2>2. NoRequest \in RequestRecs /\ NoRequest.pc = "none"
    BY DEF NoRequest, RequestRecs
  <2>3. /\ code \in {401, 404, 500, 502}
        /\ code = 401 => ans \in {"401", "403"}
        /\ code = 404 => ans = "404"
    BY <1>5, StatusFacts
  <2> HIDE DEF code
  <2>4. /\ b \in ActionRecs /\ b.pc = "replied" /\ b.code = code /\ b.ran = a.ran
        /\ b.trouble = a.trouble
    <3>1. code \in Nat
      BY <2>3
    <3> QED
      BY <3>1, RepliedType, Zenon
  <2> HIDE DEF b
  <2>5. ASSUME user'[u] = b, rq'[u] = NoRequest PROVE Stage(u)' /\ Token(u)'
    BY <1>5, <2>2, <2>3, <2>4, <2>5 DEF Stage, Token
  <2> QED
    BY <1>1, <2>1, <2>2, <2>4, <2>5, UserMoves
<1> QED
  BY <1>3, <1>4, <1>5

\* A request under way has not been carried out.
LEMMA UnderWay ==
    ASSUME Inv, NEW u \in Users, rq[u].pc # "none"
    PROVE  /\ Shape /\ Stage(u) /\ Token(u) /\ user[u] \in ActionRecs /\ rq[u] \in RequestRecs
           /\ user[u].pc = "calling" /\ user[u].ran = 0 /\ user[u].code = 0
           /\ u # Worker /\ u \in Procs /\ RequestOf(u) = user[u]
<1>1. Shape /\ Stage(u) /\ Token(u) /\ user[u] \in ActionRecs /\ rq[u] \in RequestRecs
  BY DEF Inv, Shape
<1>2. user[u].pc = "calling" /\ user[u].ran = 0 /\ user[u].code = 0
  BY <1>1 DEF Stage
<1>3. u # Worker /\ u \in Procs
  BY UsersAssumption DEF Worker, Procs
<1> QED
  BY <1>1, <1>2, <1>3 DEF RequestOf

\* Trouble is only noted.
LEMMA TroubledFacts ==
    ASSUME Inv, NEW u \in Users, rq[u].pc # "none"
    PROVE  /\ Troubled(u) \in ActionRecs /\ Troubled(u).pc = "calling" /\ Troubled(u).code = 0
           /\ Troubled(u).ran = 0 /\ Troubled(u).trouble
<1>1. /\ user[u] \in ActionRecs /\ RequestOf(u) = user[u]
      /\ user[u].pc = "calling" /\ user[u].ran = 0 /\ user[u].code = 0
  BY UnderWay
<1> QED
  BY <1>1 DEF Troubled, ActionRecs

\* A token that is not accepted although the request was made again is one that was
\* revoked meanwhile.
LEMMA RefusedInv ==
    ASSUME Inv, NEW u \in Users, Refused(u)
    PROVE  Inv'
<1>1. rq[u].pc = "send" /\ rq[u].tok = "bad" /\ UNCHANGED <<insts, current>>
  BY DEF Refused
<1> DEFINE a == user[u]
<1>2. /\ Token(u) /\ a \in ActionRecs /\ RequestOf(u) = a /\ rq[u] \in RequestRecs
      /\ a.pc = "calling" /\ a.ran = 0 /\ a.code = 0
  BY <1>1, UnderWay
<1>3. AfterAnswer(u, "401", a)
  BY <1>2 DEF Refused
<1>4. ~Retries(u, "401") => a.trouble
  BY <1>1, <1>2 DEF Token, Retries
<1> HIDE DEF a
<1>5. "401" \in Errors \cup {"ok"}
  BY DEF Errors
<1> QED
  BY <1>1, <1>2, <1>3, <1>4, <1>5, AnsweredInv

\* Upstream has done it, or has not found the item.
LEMMA ExecutedInv ==
    ASSUME Inv, NEW u \in Users, Executed(u)
    PROVE  Inv'
<1>1. rq[u].pc = "send" /\ UNCHANGED <<insts, current>>
  BY DEF Executed
<1> DEFINE a == user[u]
           b == [a EXCEPT !.ran = @ + 1]
<1>2. a \in ActionRecs /\ a.pc = "calling" /\ a.ran = 0 /\ a.code = 0
  BY <1>1, UnderWay
<1>3. b \in ActionRecs /\ b.pc = "calling" /\ b.ran = 1 /\ b.code = 0
  BY <1>2 DEF ActionRecs
<1>4. AfterAnswer(u, "404", a) \/ AfterAnswer(u, "ok", b)
  BY DEF Executed, CompleteItem, CallService
<1> HIDE DEF a, b
<1>5. "404" \in Errors \cup {"ok"} /\ "ok" \in Errors \cup {"ok"}
  BY DEF Errors
<1>6. CASE AfterAnswer(u, "404", a)
  BY <1>1, <1>2, <1>5, <1>6, AnsweredInv
<1>7. CASE AfterAnswer(u, "ok", b)
  BY <1>1, <1>3, <1>5, <1>7, AnsweredInv
<1> QED
  BY <1>4, <1>6, <1>7

\* A request fails.
LEMMA FailsInv ==
    ASSUME Inv, NEW u \in Users, NEW ans \in Errors, Fails(u, ans)
    PROVE  Inv'
<1>1. rq[u].pc = "send" /\ UNCHANGED <<insts, current>>
  BY DEF Fails
<1> DEFINE a == Troubled(u)
<1>2. a \in ActionRecs /\ a.pc = "calling" /\ a.ran = 0 /\ a.code = 0 /\ a.trouble
  BY <1>1, TroubledFacts
<1>3. AfterAnswer(u, ans, a) /\ ans \in Errors \cup {"ok"} /\ ans # "ok"
  BY DEF Fails, Errors
<1> HIDE DEF a
<1> QED
  BY <1>1, <1>2, <1>3, AnsweredInv

\* A request whose answer is lost has been carried out, and is not made again.
LEMMA LosesAnswerInv ==
    ASSUME Inv, NEW u \in Users, NEW ans \in {"5xx", "net"}, LosesAnswer(u, ans)
    PROVE  Inv'
<1>1. rq[u].pc = "send" /\ UNCHANGED <<insts, current>>
  BY DEF LosesAnswer
<1> DEFINE a == Troubled(u)
           b == [a EXCEPT !.ran = @ + 1]
<1>2. AfterAnswer(u, ans, b) /\ ans \in Errors \cup {"ok"} /\ ans \notin {"ok", "401", "403", "404"}
  BY DEF LosesAnswer, Errors
<1>3. a \in ActionRecs /\ a.pc = "calling" /\ a.ran = 0 /\ a.code = 0
  BY <1>1, TroubledFacts
<1> HIDE DEF a
<1>4. b \in ActionRecs /\ b.pc = "calling" /\ b.ran = 1 /\ b.code = 0
  BY <1>3 DEF ActionRecs
<1> HIDE DEF b
<1> QED
  BY <1>1, <1>2, <1>4, AnsweredInv

\* The reply to a request that is over.
LEMMA ReplyInv ==
    ASSUME Inv, NEW u \in Users, NEW a \in ActionRecs, NEW n \in Nat,
           user' = [user EXCEPT ![u] = Replied(a, n)], rq' = [rq EXCEPT ![u] = NoRequest],
           a.ran <= 1, n = 200 => a.ran = 1, n \in {400, 401, 404} => a.ran = 0, n = 401 => a.trouble,
           UNCHANGED <<insts, current>>
    PROVE  Inv'
<1>1. Shape /\ KindsKept /\ current' \in 0..Len(insts') /\ Users \subseteq Procs
  BY SameKinds DEF Inv, Shape, Procs
<1>2. PICK b \in ActionRecs : /\ b = Replied(a, n) /\ b.pc = "replied" /\ b.code = n /\ b.ran = a.ran
                              /\ b.trouble = a.trouble
  BY RepliedType
<1>3. NoRequest \in RequestRecs /\ NoRequest.pc = "none"
  BY DEF NoRequest, RequestRecs
<1>4. /\ user' \in [Users -> ActionRecs] /\ user'[u] = b
      /\ \A v \in Users : v # u => user'[v] = user[v] /\ rq'[v] = rq[v]
  BY <1>1, <1>2 DEF Shape
<1>5. rq' = [x \in Procs |-> rq'[x]] /\ rq'[u] = NoRequest
  BY <1>1 DEF Shape
<1>6. Stage(u)' /\ Token(u)'
  BY <1>2, <1>3, <1>4, <1>5 DEF Stage, Token
<1> QED
  BY <1>1, <1>3, <1>4, <1>5, <1>6, OneMoves

\* The token endpoint fails, and the request with it.
LEMMA TokenFailsInv ==
    ASSUME Inv, NEW u \in Users, TokenFails(u)
    PROVE  Inv'
<1>1. rq[u].pc # "none" /\ UNCHANGED <<insts, current>>
  BY DEF TokenFails, NeedsToken
<1> DEFINE a == Troubled(u)
           n == IF rq[u].pc = "force" THEN 401 ELSE 500
<1>2. a \in ActionRecs /\ a.ran = 0 /\ a.trouble /\ u # Worker
  BY <1>1, TroubledFacts, UnderWay
<1>3. user' = [user EXCEPT ![u] = Replied(a, n)] /\ rq' = [rq EXCEPT ![u] = NoRequest]
  BY <1>2 DEF TokenFails
<1> HIDE DEF a
<1>4. /\ n \in Nat /\ a.ran <= 1 /\ (n = 200 => a.ran = 1) /\ (n \in {400, 401, 404} => a.ran = 0)
      /\ (n = 401 => a.trouble)
  BY <1>2
<1> HIDE DEF n
<1> QED
  BY <1>1, <1>2, <1>3, <1>4, ReplyInv, Zenon

\* The reply to an action that was done.
LEMMA RefreshWidgetInv ==
    ASSUME Inv, NEW u \in Users, RefreshWidget(u)
    PROVE  Inv'
<1> DEFINE a == user[u]
           n == IF current = 0 /\ IsTasks(KindOf(u)) THEN 500 ELSE 200
<1>1. a.pc = "refresh" /\ UNCHANGED <<insts, current>>
  BY DEF RefreshWidget
<1>2. a \in ActionRecs /\ a.ran = 1
  BY <1>1 DEF Inv, Shape, Stage
<1>3. user' = [user EXCEPT ![u] = Replied(a, n)] /\ rq' = [rq EXCEPT ![u] = NoRequest]
  BY DEF RefreshWidget
<1> HIDE DEF a
<1>4. /\ n \in Nat /\ a.ran <= 1 /\ (n = 200 => a.ran = 1) /\ (n \in {400, 401, 404} => a.ran = 0)
      /\ (n = 401 => a.trouble)
  BY <1>2
<1> HIDE DEF n
<1> QED
  BY <1>1, <1>2, <1>3, <1>4, ReplyInv, Zenon

-----------------------------------------------------------------------------
(* Steps of the worker, and the world around.                              *)

\* The worker's request is no display's.
LEMMA WorkerMoves ==
    ASSUME Inv, KindsKept, current' \in 0..Len(insts'), user' = user,
           rq' = rq \/ \E r : rq' = [rq EXCEPT ![Worker] = r]
    PROVE  Inv'
<1>1. Shape /\ \A u \in Users : u # Worker
  BY UsersAssumption DEF Inv, Worker
<1>2. rq' = [x \in Procs |-> rq'[x]] /\ \A u \in Users : rq'[u] = rq[u]
  BY <1>1 DEF Shape, Procs
<1> QED
  BY <1>2, UsersKept

\* What the worker does with an answer.
LEMMA FetchAnsweredMoves ==
    ASSUME NEW ans, FetchAnswered(ans)
    PROVE  \E r : rq' = [rq EXCEPT ![Worker] = r]
  BY DEF FetchAnswered, FetchFailed

\* The same after a retry.
LEMMA WorkerAnswered ==
    ASSUME NEW ans, NEW a, AfterAnswer(Worker, ans, a)
    PROVE  user' = user /\ \E r : rq' = [rq EXCEPT ![Worker] = r]
<1>1. CASE Retries(Worker, ans)
  <2>1. rq' = [rq EXCEPT ![Worker] = RetryRequest(rq[Worker])] /\ user' = user
    BY <1>1 DEF AfterAnswer
  <2> QED
    BY <2>1
<1>2. CASE ~Retries(Worker, ans)
  <2>1. user' = user /\ FetchAnswered(ans)
    BY <1>2 DEF AfterAnswer
  <2> QED
    BY <2>1, FetchAnsweredMoves
<1> QED
  BY <1>1, <1>2

\* The worker's steps that ask the token endpoint.
LEMMA WorkerRefreshInv ==
    ASSUME Inv, RefreshToken(Worker)
    PROVE  Inv'
<1> DEFINE n == rq[Worker].inst
<1>1. insts' = [insts EXCEPT ![n].cached = "good"] /\ current' = current /\ user' = user
  BY DEF RefreshToken
<1>2. \E r : rq' = [rq EXCEPT ![Worker] = r]
  BY DEF RefreshToken
<1> HIDE DEF n
<1>3. KindsKept /\ Len(insts') = Len(insts)
  BY <1>1, CachedKinds DEF Inv
<1>4. current' \in 0..Len(insts')
  BY <1>1, <1>3 DEF Inv, Shape
<1> QED
  BY <1>1, <1>2, <1>3, <1>4, WorkerMoves

\* The others.
LEMMA WorkerInv ==
    ASSUME Inv, \/ Served \/ Poll \/ TakeRefresh \/ Record \/ UseCachedToken(Worker) \/ Refused(Worker)
                \/ TokenFails(Worker) \/ \E ans \in Errors : Fails(Worker, ans)
    PROVE  Inv'
<1>1. insts' = insts /\ current' = current
  BY DEF Served, Poll, TakeRefresh, Record, UseCachedToken, Refused, TokenFails, Fails, netVars
<1>2. KindsKept /\ current' \in 0..Len(insts')
  BY <1>1, SameKinds DEF Inv, Shape
<1>3. user' = user /\ (rq' = rq \/ \E r : rq' = [rq EXCEPT ![Worker] = r])
  <2>1. CASE Served
    BY <2>1, WorkerAnswered DEF Served
  <2>2. CASE Poll \/ TakeRefresh
    BY <2>2 DEF Poll, TakeRefresh, StartFetch
  <2>3. CASE Record
    BY <2>3 DEF Record, netVars
  <2>4. CASE UseCachedToken(Worker)
    BY <2>4 DEF UseCachedToken
  <2>5. CASE Refused(Worker)
    BY <2>5, WorkerAnswered DEF Refused
  <2>6. CASE TokenFails(Worker)
    BY <2>6, FetchAnsweredMoves DEF TokenFails
  <2>7. CASE \E ans \in Errors : Fails(Worker, ans)
    BY <2>7, WorkerAnswered DEF Fails
  <2> QED
    BY <2>1, <2>2, <2>3, <2>4, <2>5, <2>6, <2>7
<1> QED
  BY <1>2, <1>3, WorkerMoves

\* A token expires.
LEMMA ExpireTokenInv ==
    ASSUME Inv, NEW n \in DOMAIN insts, ExpireToken(n)
    PROVE  Inv'
<1>1. insts' = [insts EXCEPT ![n].cached = "none"] /\ current' = current /\ user' = user /\ rq' = rq
  BY DEF ExpireToken
<1>2. KindsKept /\ Len(insts') = Len(insts)
  BY <1>1, CachedKinds DEF Inv
<1>3. current' \in 0..Len(insts')
  BY <1>1, <1>2 DEF Inv, Shape
<1> QED
  BY <1>1, <1>2, <1>3, WorkerMoves

\* Another provider is made.
LEMMA ReloadInv ==
    ASSUME Inv, NEW c \in Confs, Reload(c)
    PROVE  Inv'
<1>1. user' = user /\ \E r : rq' = [rq EXCEPT ![Worker] = r]
  BY DEF Reload
<1>2. insts \in Seq(Instances) /\ Len(insts) \in Nat
  BY DEF Inv, Shape
<1>3. InitProvider(c) \in {"error", "oauth", "gtasks", "todoist", "hass"}
  BY ConfsAssumption DEF InitProvider, InitGTasks, InitTodoist, InitHass
<1>4. CASE InitProvider(c) = "error"
  <2>1. insts' = insts /\ current' = 0
    BY <1>4 DEF Reload
  <2>2. KindsKept /\ current' \in 0..Len(insts')
    BY <1>2, <2>1, SameKinds DEF Inv
  <2> QED
    BY <1>1, <2>2, WorkerMoves
<1>5. CASE InitProvider(c) # "error"
  <2> DEFINE e == NewInstance(c)
  <2>1. insts' = Append(insts, e) /\ current' = Len(insts')
    BY <1>5 DEF Reload
  <2>2. e \in Instances
    BY <1>3, <1>5 DEF NewInstance, Instances
  <2> HIDE DEF e
  <2>3. /\ insts' \in Seq(Instances) /\ Len(insts') = Len(insts) + 1
        /\ \A m \in 1..Len(insts) : insts'[m] = insts[m]
    BY <1>2, <2>1, <2>2, AppendProperties
  <2>4. KindsKept /\ current' \in 0..Len(insts')
    BY <1>2, <2>1, <2>3 DEF KindsKept
  <2> QED
    BY <1>1, <2>4, WorkerMoves
<1> QED
  BY <1>4, <1>5

\* Google revokes the tokens: that is trouble for every request under way.
LEMMA RevokeTokensInv ==
    ASSUME Inv, RevokeTokens
    PROVE  Inv'
<1>0. Shape /\ current' = current /\ Users \subseteq Procs
  BY DEF Inv, RevokeTokens, Procs
<1>1. /\ insts' = [n \in DOMAIN insts |-> [insts[n] EXCEPT !.cached = IF @ = "none" THEN @ ELSE "bad"]]
      /\ insts \in [1..Len(insts) -> Instances] /\ Len(insts) \in Nat /\ DOMAIN insts = 1..Len(insts)
  BY <1>0 DEF RevokeTokens, Shape
<1>2. \A n \in 1..Len(insts) : insts'[n] \in Instances /\ insts'[n].kind = insts[n].kind
  BY <1>1 DEF Instances
<1>3. insts' \in [1..Len(insts) -> Instances]
  BY <1>1, <1>2
<1>4. insts' \in Seq(Instances) /\ Len(insts') = Len(insts)
  BY <1>1, <1>3, SeqDef, LenProperties
<1>5. KindsKept /\ current' \in 0..Len(insts')
  BY <1>0, <1>1, <1>2, <1>4 DEF KindsKept, Shape
<1>6. /\ rq' = [x \in Procs |-> rq'[x]]
      /\ \A u \in Users : \/ rq[u].pc # "none" /\ rq'[u] = [rq[u] EXCEPT !.tok = "bad"] /\ KindOf(u) = "oauth"
                          \/ rq'[u] = rq[u] /\ (rq[u].pc # "none" => KindOf(u) # "oauth")
  BY <1>0 DEF RevokeTokens, Shape
<1>7. \A u \in Users : rq[u] \in RequestRecs /\ user[u] \in ActionRecs /\ Stage(u) /\ Token(u)
  BY DEF Inv, Shape
<1>8. \A u \in Users : /\ rq'[u] \in RequestRecs /\ rq'[u].pc = rq[u].pc /\ rq'[u].inst = rq[u].inst
                       /\ rq'[u].retry = rq[u].retry
                       /\ rq[u].pc # "none" /\ rq'[u].tok = "bad" => KindOf(u) = "oauth" \/ user[u].trouble
  <2> TAKE u \in Users
  <2>1. rq[u] \in RequestRecs /\ Token(u)
    BY <1>7
  <2>2. CASE rq'[u] = rq[u]
    BY <2>1, <2>2 DEF Token
  <2>3. CASE rq'[u] = [rq[u] EXCEPT !.tok = "bad"] /\ KindOf(u) = "oauth"
    BY <2>1, <2>3 DEF RequestRecs
  <2> QED
    BY <1>6, <2>2, <2>3
<1>9. \A u \in Users : IF user[u].pc = "calling" THEN user'[u] = [user[u] EXCEPT !.trouble = TRUE]
                                                ELSE user'[u] = user[u]
  BY DEF RevokeTokens
<1>10. \A u \in Users : /\ user'[u] \in ActionRecs /\ user'[u].pc = user[u].pc /\ user'[u].ran = user[u].ran
                        /\ user'[u].code = user[u].code /\ (user[u].trouble => user'[u].trouble)
                        /\ user[u].pc = "calling" => user'[u].trouble
  <2> TAKE u \in Users
  <2>1. user[u] \in ActionRecs
    BY <1>7
  <2>2. CASE user[u].pc = "calling"
    BY <1>9, <2>1, <2>2 DEF ActionRecs
  <2>3. CASE user[u].pc # "calling"
    BY <1>9, <2>1, <2>3
  <2> QED
    BY <2>2, <2>3
<1>11. user' \in [Users -> ActionRecs]
  BY <1>10 DEF RevokeTokens
<1>12. Shape'
  BY <1>4, <1>5, <1>6, <1>8, <1>11 DEF Shape
<1>13. ASSUME NEW u \in Users PROVE Stage(u)' /\ Token(u)'
  <2>1. Stage(u)'
    BY <1>7, <1>8, <1>10 DEF Stage
  <2>2. rq[u].pc # "none" => rq[u].inst \in 1..Len(insts) /\ user[u].pc = "calling" /\ KindOf(u)' = KindOf(u)
    BY <1>2, <1>7, <1>8 DEF Stage, Token, KindOf
  <2>3. Token(u)'
    BY <1>4, <1>7, <1>8, <1>10, <2>2 DEF Token
  <2> QED
    BY <2>1, <2>3
<1> QED
  BY <1>12, <1>13 DEF Inv

-----------------------------------------------------------------------------
(* The first theorems.                                                     *)

\* Nothing is asked for yet.
LEMMA InitInv ==
    ASSUME Init
    PROVE  Inv
<1>1. InitProvider(conf) \in {"error", "oauth", "gtasks", "todoist", "hass"}
  BY ConfsAssumption DEF Init, InitProvider, InitGTasks, InitTodoist, InitHass
<1>2. /\ user = [u \in Users |-> NoAction] /\ rq = [x \in Procs |-> rq[x]]
      /\ \A u \in Users : rq[u] = NoRequest /\ u # Worker
  BY UsersAssumption DEF Init, Procs, Worker
<1>3. insts \in Seq(Instances) /\ current \in 0..Len(insts)
  <2>1. CASE InitProvider(conf) = "error"
    BY <2>1 DEF Init
  <2>2. CASE InitProvider(conf) # "error"
    <3> DEFINE e == NewInstance(conf)
    <3>1. e \in Instances
      BY <1>1, <2>2 DEF NewInstance, Instances
    <3>2. insts = <<e>> /\ current = 1
      BY <2>2 DEF Init
    <3> HIDE DEF e
    <3> QED
      BY <3>1, <3>2
  <2> QED
    BY <2>1, <2>2
<1>4. NoAction \in ActionRecs /\ NoRequest \in RequestRecs
  BY DEF NoAction, ActionRecs, Statuses, NoRequest, RequestRecs
<1>5. Shape
  BY <1>2, <1>3, <1>4 DEF Shape
<1>6. ASSUME NEW u \in Users PROVE Stage(u) /\ Token(u)
  <2>0. user[u] = NoAction /\ rq[u] = NoRequest
    BY <1>2
  <2>1. user[u].pc = "idle" /\ user[u].ran = 0 /\ user[u].code = 0 /\ rq[u].pc = "none"
    BY <2>0 DEF NoAction, NoRequest
  <2> QED
    BY <2>1 DEF Stage, Token
<1> QED
  BY <1>5, <1>6 DEF Inv

\* What display u's request does.
DisplayStep(u) ==
  \/ TokenFails(u) \/ \E ans \in Errors : Fails(u, ans)
  \/ \E ask \in Asks[u] : BeginAction(u, ask[1], ask[2])
  \/ Requests(u) \/ Executed(u) \/ RefreshWidget(u)
  \/ \E ans \in {"5xx", "net"} : LosesAnswer(u, ans)

\* It keeps the invariant.
LEMMA DisplayInv ==
    ASSUME Inv, NEW u \in Users, DisplayStep(u)
    PROVE  Inv'
<1>1. ASSUME NEW ask \in Asks[u], BeginAction(u, ask[1], ask[2]) PROVE Inv'
  <2>1. ask[1] \in Items \cup {Invalid} /\ ask[2] \in Statuses
    BY AsksAssumption
  <2> QED
    BY <1>1, <2>1, BeginActionInv
<1>2. CASE Requests(u)
  BY <1>2, TokenInv, RefusedInv DEF Requests
<1> QED
  BY <1>1, <1>2, TokenFailsInv, FailsInv, ExecutedInv, RefreshWidgetInv, LosesAnswerInv DEF DisplayStep

\* Every step keeps the invariant.
LEMMA NextInv ==
    ASSUME Inv, [Next]_vars
    PROVE  Inv'
<1>1. CASE UNCHANGED vars
  BY <1>1, SameKinds, WorkerMoves DEF vars, netVars, Inv, Shape
<1>2. CASE Next
  <2>1. ASSUME NEW x \in Procs, TokenFails(x) \/ (\E ans \in Errors : Fails(x, ans)) PROVE Inv'
    BY <2>1, DisplayInv, WorkerInv DEF Procs, DisplayStep
  <2>2. CASE WorkerSteps
    BY <2>2, WorkerInv, WorkerRefreshInv DEF WorkerSteps, Requests
  <2>3. CASE \E n \in DOMAIN insts : ExpireToken(n)
    BY <2>3, ExpireTokenInv
  <2>4. CASE RevokeTokens
    BY <2>4, RevokeTokensInv
  <2>5. CASE \E i \in Items, st \in Statuses \cup {"absent"} : EditUpstream(i, st)
    <3>1. UNCHANGED <<rq, insts, current, user>>
      BY <2>5 DEF EditUpstream, netVars
    <3>2. KindsKept /\ current' \in 0..Len(insts')
      BY <3>1, SameKinds DEF Inv, Shape
    <3> QED
      BY <3>1, <3>2, WorkerMoves
  <2>6. CASE \E c \in Confs : Reload(c)
    BY <2>6, ReloadInv
  <2>7. ASSUME NEW u \in Users,
               \/ \E ask \in Asks[u] : BeginAction(u, ask[1], ask[2])
               \/ Requests(u) \/ Executed(u) \/ RefreshWidget(u)
               \/ \E ans \in {"5xx", "net"} : LosesAnswer(u, ans)
        PROVE  Inv'
    BY <2>7, DisplayInv DEF DisplayStep
  <2> QED
    BY <1>2, <2>1, <2>2, <2>3, <2>4, <2>5, <2>6, <2>7 DEF Next
<1> QED
  BY <1>1, <1>2

\* The invariant holds whatever displays, upstream and reloads do.
THEOREM Invariance == Spec => []Inv
<1>1. Init => Inv
  BY InitInv
<1>2. Inv /\ [Next]_vars => Inv'
  BY NextInv
<1> QED
  BY <1>1, <1>2, PTL DEF Spec

\* Displays are told the truth: an action is carried out at most once, retries
\* included, once if the reply is 200, not at all if it blames the request or its
\* authorisation, and 401 is never the cache's fault (lists.go, ha_action.go,
\* doPatchWithRetry of gtasks.go).
THEOREM RepliesTruthful == Spec => []ReplyTruthful
<1>1. Inv => ReplyTruthful
  <2> SUFFICES ASSUME Inv, NEW u \in Users
               PROVE  /\ user[u].ran <= 1
                      /\ user[u].code = 200 => user[u].ran = 1
                      /\ user[u].code \in {400, 401, 404} => user[u].ran = 0
                      /\ user[u].code = 401 => user[u].trouble
    BY DEF ReplyTruthful
  <2>1. user[u] \in ActionRecs /\ Stage(u)
    BY DEF Inv, Shape
  <2> QED
    BY <2>1 DEF Stage, ActionRecs
<1> QED
  BY <1>1, Invariance, PTL

-----------------------------------------------------------------------------
(* Loops.                                                                  *)

\* A set of numbers has a least one.
LEMMA LeastElement ==
    ASSUME NEW T \in SUBSET Nat, T # {}
    PROVE  \E x \in T : \A y \in T : x <= y
<1>1. PICK x \in T : \A y \in T : ~(<<y, x>> \in OpToRel(<, Nat))
  BY NatLessThanWellFounded, WFMin, Zenon
<1>2. \A y \in T : ~(y < x)
  BY <1>1 DEF OpToRel
<1> QED
  BY <1>2

\* The results of a loop of n rounds after each of them.
Runs(n, T, base, round) ==
  \E f \in [0..n -> T] : f[0] = base /\ \A k \in 1..n : f[k] = round[k][f[k - 1]]

\* Every loop of n rounds has results, whatever a round does with the one before: what a
\* recursive function computes can be reasoned about round by round.
LEMMA LoopExists ==
    ASSUME NEW n \in Nat, NEW T, NEW base \in T, NEW round \in [1..n -> [T -> T]]
    PROVE  Runs(n, T, base, round)
<1> DEFINE Done(m) == Runs(m, T, base, round)
           Bad == {m \in 0..n : ~Done(m)}
<1>1. Bad = {}
  <2> SUFFICES ASSUME Bad # {} PROVE FALSE
    OBVIOUS
  <2>1. PICK m \in Bad : \A k \in Bad : m <= k
    <3> HIDE DEF Done
    <3>1. Bad \in SUBSET Nat
      OBVIOUS
    <3> HIDE DEF Bad
    <3> QED
      BY <3>1, LeastElement
  <2>2. m # 0
    <3> DEFINE f == [k \in 0..0 |-> base]
    <3>1. f \in [0..0 -> T] /\ f[0] = base /\ 1..0 = {}
      OBVIOUS
    <3> HIDE DEF f
    <3>2. Done(0)
      BY <3>1 DEF Runs
    <3> QED
      BY <3>2
  <2>3. m - 1 \in 0..n /\ m \in 1..n
    BY <2>2
  <2>4. Done(m - 1)
    <3> HIDE DEF Done
    <3> QED
      BY <2>1, <2>3
  <2>5. PICK f \in [0..(m - 1) -> T] : f[0] = base /\ \A k \in 1..(m - 1) : f[k] = round[k][f[k - 1]]
    BY <2>4 DEF Runs
  <2> DEFINE g == [k \in 0..m |-> IF k = m THEN round[m][f[m - 1]] ELSE f[k]]
  <2>6. round[m] \in [T -> T] /\ f[m - 1] \in T
    BY <2>3, <2>5
  <2>7. g \in [0..m -> T]
    BY <2>3, <2>5, <2>6
  <2>8. g[0] = base
    BY <2>3, <2>5
  <2>9. \A k \in 1..m : g[k] = round[k][g[k - 1]]
    <3> TAKE k \in 1..m
    <3>1. CASE k = m
      <4>1. m - 1 # m /\ m \in 0..m /\ m - 1 \in 0..m
        BY <2>3
      <4>2. g[m] = round[m][f[m - 1]] /\ g[m - 1] = f[m - 1]
        BY <4>1
      <4> QED
        BY <3>1, <4>2
    <3>2. CASE k # m
      <4>1. k \in 1..(m - 1) /\ k - 1 # m /\ k \in 0..m /\ k - 1 \in 0..m
        BY <2>3, <3>2
      <4>2. g[k] = f[k] /\ g[k - 1] = f[k - 1]
        BY <3>2, <4>1
      <4> QED
        BY <2>5, <4>1, <4>2
    <3> QED
      BY <3>1, <3>2
  <2>10. Done(m)
    <3> HIDE DEF g
    <3> QED
      BY <2>7, <2>8, <2>9 DEF Runs
  <2> QED
    BY <2>10
<1>2. Done(n)
  <2> HIDE DEF Done
  <2> QED
    BY <1>1
<1> QED
  BY <1>2

\* What Pick gathers: the elements of s at the places in K, all of them and in
\* their order.
Picks(at, r, s, K, n) ==
    /\ at \in [1..Len(r) -> K \cap 1..n]
    /\ \A j \in 1..Len(r) : r[j] = s[at[j]]
    /\ \A j, k \in 1..Len(r) : j < k => at[j] < at[k]
    /\ \A k \in K \cap 1..n : \E j \in 1..Len(r) : at[j] = k

\* One more round of the loop appends the n-th element if its place is wanted.
LEMMA PickRound ==
    ASSUME NEW E, NEW s \in Seq(E), NEW K, NEW n \in 1..Len(s), NEW r \in Seq(E), NEW at,
           Picks(at, r, s, K, n - 1)
    PROVE  LET q == IF n \in K THEN Append(r, s[n]) ELSE r
           IN  q \in Seq(E) /\ \E a : Picks(a, q, s, K, n)
<1>0. Len(r) \in Nat /\ Len(s) \in Nat /\ s[n] \in E /\ n \in Nat
  BY LenProperties, ElementOfSeq
<1>1. CASE n \in K
  <2> DEFINE q == Append(r, s[n])
             a == [j \in 1..(Len(r) + 1) |-> IF j = Len(r) + 1 THEN n ELSE at[j]]
  <2>1. /\ q \in Seq(E) /\ Len(q) = Len(r) + 1 /\ q[Len(r) + 1] = s[n]
        /\ \A j \in 1..Len(r) : q[j] = r[j]
    BY <1>0, AppendProperties
  <2> HIDE DEF q
  <2>2. a \in [1..Len(q) -> K \cap 1..n]
    BY <1>0, <1>1, <2>1 DEF Picks
  <2>3. \A j \in 1..Len(q) : q[j] = s[a[j]]
    <3> TAKE j \in 1..Len(q)
    <3>1. CASE j = Len(r) + 1
      BY <1>0, <2>1, <3>1
    <3>2. CASE j # Len(r) + 1
      <4>1. j \in 1..Len(r) /\ a[j] = at[j]
        BY <1>0, <2>1, <3>2
      <4> QED
        BY <2>1, <4>1 DEF Picks
    <3> QED
      BY <3>1, <3>2
  <2>4. ASSUME NEW j \in 1..Len(q), NEW k \in 1..Len(q), j < k PROVE a[j] < a[k]
    <3>1. j \in 1..Len(r) /\ a[j] = at[j] /\ at[j] \in 1..(n - 1)
      BY <1>0, <2>1, <2>4 DEF Picks
    <3>2. CASE k = Len(r) + 1
      <4>1. a[k] = n
        BY <1>0, <2>1, <3>2
      <4> QED
        BY <1>0, <3>1, <4>1
    <3>3. CASE k # Len(r) + 1
      <4>1. k \in 1..Len(r) /\ a[k] = at[k]
        BY <1>0, <2>1, <3>3
      <4> QED
        BY <2>4, <3>1, <4>1 DEF Picks
    <3> QED
      BY <3>2, <3>3
  <2>5. \A k \in K \cap 1..n : \E j \in 1..Len(q) : a[j] = k
    <3> TAKE k \in K \cap 1..n
    <3>1. CASE k = n
      <4>1. Len(r) + 1 \in 1..Len(q) /\ a[Len(r) + 1] = k
        BY <1>0, <2>1, <3>1
      <4> QED
        BY <4>1
    <3>2. CASE k # n
      <4>1. k \in K \cap 1..(n - 1)
        BY <1>0, <3>2
      <4>2. PICK j \in 1..Len(r) : at[j] = k
        BY <4>1 DEF Picks
      <4>3. j \in 1..Len(q) /\ a[j] = k
        BY <1>0, <2>1, <4>2
      <4> QED
        BY <4>3
    <3> QED
      BY <3>1, <3>2
  <2> HIDE DEF a
  <2>6. Picks(a, q, s, K, n)
    BY <2>2, <2>3, <2>4, <2>5 DEF Picks
  <2> QED
    BY <1>1, <2>1, <2>6 DEF q
<1>2. CASE n \notin K
  <2>1. K \cap 1..n = K \cap 1..(n - 1)
    BY <1>0, <1>2
  <2>2. Picks(at, r, s, K, n)
    BY <2>1 DEF Picks
  <2> QED
    BY <1>2, <2>2
<1> QED
  BY <1>1, <1>2

\* Pick returns the elements at the places of K, each once and in the order of s.
LEMMA Picked ==
    ASSUME NEW E, NEW s \in Seq(E), NEW K
    PROVE  /\ Pick(s, K) \in Seq(E)
           /\ \E at : Picks(at, Pick(s, K), s, K, Len(s))
<1> DEFINE N == Len(s)
           T == Seq(E)
           next(n, r) == IF n \in K THEN Append(r, s[n]) ELSE r
           round == [n \in 1..N |-> [r \in T |-> next(n, r)]]
           upTo == CHOOSE g : g = [n \in 0..N |-> IF n = 0 THEN <<>> ELSE IF n \in K THEN Append(g[n - 1], s[n]) ELSE g[n - 1]]
<1>0. N \in Nat /\ <<>> \in T /\ \A n \in 1..N : s[n] \in E
  BY LenProperties, ElementOfSeq, EmptySeq
<1>1. Pick(s, K) = upTo[N]
  BY Zenon DEF Pick
<1>2. \E g : g = [n \in 0..N |-> IF n = 0 THEN <<>> ELSE IF n \in K THEN Append(g[n - 1], s[n]) ELSE g[n - 1]]
  <2>1. ASSUME NEW n \in 1..N, NEW r \in T PROVE next(n, r) \in T
    BY <1>0, AppendProperties
  <2>2. round \in [1..N -> [T -> T]] /\ \A n \in 1..N, r \in T : round[n][r] = next(n, r)
    <3> HIDE DEF next, T
    <3> QED
      BY <2>1
  <2>3. \E f \in [0..N -> T] : f[0] = <<>> /\ \A n \in 1..N : f[n] = round[n][f[n - 1]]
    <3> DEFINE base == <<>>
    <3>1. base \in T
      BY <1>0
    <3> HIDE DEF base, round, T, N
    <3>2. Runs(N, T, base, round)
      BY <1>0, <2>2, <3>1, LoopExists
    <3> QED
      BY <3>2 DEF base, Runs
  <2>4. PICK f \in [0..N -> T] : f[0] = <<>> /\ \A n \in 1..N : f[n] = round[n][f[n - 1]]
    <3> HIDE DEF round, T, N
    <3> QED
      BY <2>3
  <2>5. \A n \in 1..N : f[n] = next(n, f[n - 1])
    <3> HIDE DEF round, T, N, next
    <3> TAKE n \in 1..N
    <3>1. n - 1 \in 0..N
      BY <1>0
    <3> QED
      BY <2>2, <2>4, <3>1
  <2> DEFINE body == [n \in 0..N |-> IF n = 0 THEN <<>> ELSE IF n \in K THEN Append(f[n - 1], s[n]) ELSE f[n - 1]]
  <2>6. \A n \in 0..N : f[n] = body[n]
    <3> HIDE DEF T, N, round
    <3> TAKE n \in 0..N
    <3>1. CASE n = 0
      BY <2>4, <3>1
    <3>2. CASE n # 0
      <4>1. n \in 1..N
        BY <1>0, <3>2
      <4> QED
        BY <2>5, <3>2, <4>1
    <3> QED
      BY <3>1, <3>2
  <2>7. f = body
    <3>1. f = [n \in 0..N |-> f[n]]
      BY <2>4
    <3>2. body = [n \in 0..N |-> body[n]]
      OBVIOUS
    <3> HIDE DEF body, N
    <3>3. [n \in 0..N |-> f[n]] = [n \in 0..N |-> body[n]]
      BY <2>6
    <3> QED
      BY <3>1, <3>2, <3>3, Zenon
  <2> QED
    BY <2>7
<1>3. upTo = [n \in 0..N |-> IF n = 0 THEN <<>> ELSE IF n \in K THEN Append(upTo[n - 1], s[n]) ELSE upTo[n - 1]]
  <2> HIDE DEF N
  <2> QED
    BY <1>2, Zenon
<1> HIDE DEF upTo
<1>4. /\ upTo[0] = <<>>
      /\ \A n \in 1..N : upTo[n] = IF n \in K THEN Append(upTo[n - 1], s[n]) ELSE upTo[n - 1]
  <2> HIDE DEF N
  <2>1. 0 \in 0..N /\ \A n \in 1..N : n \in 0..N /\ n # 0
    BY <1>0
  <2> QED
    BY <1>3, <2>1, Zenon
<1> HIDE DEF N
<1> DEFINE good(n) == upTo[n] \in Seq(E) /\ \E at : Picks(at, upTo[n], s, K, n)
           Bad == {n \in 0..N : ~good(n)}
<1>5. Bad = {}
  <2> SUFFICES ASSUME Bad # {} PROVE FALSE
    OBVIOUS
  <2>1. PICK n \in Bad : \A k \in Bad : n <= k
    <3> HIDE DEF good
    <3>1. Bad \in SUBSET Nat
      BY <1>0
    <3> HIDE DEF Bad
    <3> QED
      BY <3>1, LeastElement
  <2>2. n # 0
    <3> DEFINE at == [j \in 1..0 |-> 0]
    <3>1. Len(<<>>) = 0 /\ K \cap 1..0 = {}
      OBVIOUS
    <3>2. Picks(at, <<>>, s, K, 0)
      BY <3>1 DEF Picks
    <3> HIDE DEF at
    <3>3. good(0)
      BY <1>0, <1>4, <3>2
    <3> QED
      BY <3>3
  <2>3. n - 1 \in 0..N /\ n \in 1..N
    BY <1>0, <2>2
  <2>4. good(n - 1)
    <3> HIDE DEF good
    <3> QED
      BY <2>1, <2>3
  <2>5. PICK at : Picks(at, upTo[n - 1], s, K, n - 1)
    BY <2>4
  <2>6. good(n)
    <3> DEFINE r == upTo[n - 1]
    <3>1. r \in Seq(E) /\ Picks(at, r, s, K, n - 1)
      BY <2>4, <2>5
    <3>2. upTo[n] = IF n \in K THEN Append(r, s[n]) ELSE r
      BY <1>4, <2>3
    <3> HIDE DEF r
    <3> QED
      BY <2>3, <3>1, <3>2, PickRound DEF N
  <2> QED
    BY <2>6
<1>6. good(N)
  <2> HIDE DEF good
  <2> QED
    BY <1>0, <1>5
<1> QED
  BY <1>1, <1>6 DEF N

-----------------------------------------------------------------------------
(* Trees and walks.                                                        *)

\* Every subtask is deeper in the tree than its parent.
LEMMA TreeDepth ==
    \E depth \in [Items -> Nat] :
      /\ \A i \in Items : depth[i] <= NumItems
      /\ \A i \in Items : Parent[i] \in Items => depth[Parent[i]] < depth[i]
<1>1. PICK depth \in [Items -> 0..NumItems] : \A i \in Items : Parent[i] # 0 => depth[Parent[i]] < depth[i]
  BY ParentAssumption
<1>2. 0 \notin Items /\ NumItems \in Nat
  BY ItemsAssumption DEF Items
<1>3. depth \in [Items -> Nat] /\ \A i \in Items : depth[i] <= NumItems
  <2> \A i \in Items : depth[i] \in Nat /\ depth[i] <= NumItems
    BY <1>2
  <2> QED
    OBVIOUS
<1> QED
  BY <1>1, <1>2, <1>3

\* One more round of looking at the parents.
Deeper(S, g) == [i \in S |-> IF Parent[i] \in S THEN Append(g[Parent[i]], i) ELSE <<i>>]

\* As deep as the tree is, another round of looking at the parents changes nothing.
LEMMA PathsSettle ==
    ASSUME NEW S \in SUBSET Items
    PROVE  \E g \in [S -> Seq(Items)] : g = Deeper(S, g)
<1> DEFINE N == NumItems + 1
           T == [S -> Seq(Items)]
           base == [i \in S |-> <<i>>]
           round == [k \in 1..N |-> [g \in T |-> Deeper(S, g)]]
<1>0. N \in Nat /\ N - 1 \in 0..N /\ N - 1 = NumItems /\ N \in 1..N /\ base \in T
  BY ItemsAssumption
<1>1. ASSUME NEW g \in T PROVE Deeper(S, g) \in T
  <2>1. ASSUME NEW i \in S PROVE (IF Parent[i] \in S THEN Append(g[Parent[i]], i) ELSE <<i>>) \in Seq(Items)
    BY AppendProperties
  <2> QED
    BY <2>1 DEF Deeper
<1>2. round \in [1..N -> [T -> T]] /\ \A k \in 1..N, g \in T : round[k][g] = Deeper(S, g)
  <2> HIDE DEF T, N
  <2> QED
    BY <1>1
<1>3. Runs(N, T, base, round)
  <2> HIDE DEF T, N, base, round
  <2> QED
    BY <1>0, <1>2, LoopExists
<1>4. PICK f \in [0..N -> T] : f[0] = base /\ \A k \in 1..N : f[k] = round[k][f[k - 1]]
  <2> HIDE DEF T, N, base, round
  <2> QED
    BY <1>3 DEF Runs
<1>5. \A k \in 1..N : f[k - 1] \in T /\ f[k] \in T /\ f[k] = Deeper(S, f[k - 1])
  <2> HIDE DEF T, round, base, N
  <2> TAKE k \in 1..N
  <2>1. k - 1 \in 0..N /\ k \in 0..N
    BY <1>0
  <2>2. f[k - 1] \in T /\ f[k] \in T
    BY <1>4, <2>1
  <2>3. f[k] = round[k][f[k - 1]]
    BY <1>4
  <2> QED
    BY <1>2, <2>2, <2>3, Zenon
<1>6. PICK depth \in [Items -> Nat] : /\ \A i \in Items : depth[i] <= NumItems
                                    /\ \A i \in Items : Parent[i] \in Items => depth[Parent[i]] < depth[i]
  BY TreeDepth
<1>7. ASSUME NEW i \in S, Parent[i] \in S
      PROVE  depth[i] \in Nat /\ depth[Parent[i]] \in Nat /\ depth[Parent[i]] < depth[i]
  BY <1>6, <1>7
<1> DEFINE settled(k) == \A i \in S : depth[i] < k => f[k][i] = f[k - 1][i]
           Bad == {k \in 1..N : ~settled(k)}
<1>8. Bad = {}
  <2> SUFFICES ASSUME Bad # {} PROVE FALSE
    OBVIOUS
  <2>1. PICK k \in Bad : \A m \in Bad : k <= m
    <3> HIDE DEF settled
    <3>1. Bad \in SUBSET Nat
      BY <1>0
    <3> HIDE DEF Bad
    <3> QED
      BY <3>1, LeastElement
  <2>2. PICK i \in S : depth[i] < k /\ f[k][i] # f[k - 1][i]
    BY <2>1
  <2>3. k \in 1..N /\ f[k] = Deeper(S, f[k - 1])
    BY <1>5
  <2>4. CASE Parent[i] \notin S
    <3>1. f[k][i] = <<i>>
      BY <2>3, <2>4 DEF Deeper
    <3>2. CASE k = 1
      <4>1. f[k - 1] = base
        BY <1>4, <3>2
      <4> QED
        BY <2>2, <3>1, <4>1
    <3>3. CASE k # 1
      <4>1. k - 1 \in 1..N
        BY <1>0, <3>3
      <4>2. f[k - 1] = Deeper(S, f[k - 1 - 1])
        BY <1>5, <4>1
      <4>3. f[k - 1][i] = <<i>>
        BY <2>4, <4>2 DEF Deeper
      <4> QED
        BY <2>2, <3>1, <4>3
    <3> QED
      BY <3>2, <3>3
  <2>5. CASE Parent[i] \in S
    <3>1. k - 1 \in 1..N /\ depth[Parent[i]] < k - 1
      <4>1. depth[i] \in Nat /\ depth[Parent[i]] \in Nat /\ depth[Parent[i]] < depth[i] /\ depth[i] < k
        BY <1>7, <2>2, <2>5
      <4>2. \A n \in Nat : \A m \in 1..n : \A c, d \in Nat : c < d /\ d < m => m - 1 \in 1..n /\ c < m - 1
        OBVIOUS
      <4> HIDE DEF N, Bad
      <4>3. N \in Nat /\ k \in 1..N
        BY <1>0, <2>3
      <4> QED
        BY <4>1, <4>2, <4>3
    <3>2. settled(k - 1)
      <4> HIDE DEF settled
      <4>1. ~(k <= k - 1)
        BY <1>0
      <4> QED
        BY <2>1, <3>1, <4>1
    <3>3. f[k - 1][Parent[i]] = f[k - 1 - 1][Parent[i]]
      BY <2>5, <3>1, <3>2
    <3>4. f[k - 1] = Deeper(S, f[k - 1 - 1])
      BY <1>5, <3>1
    <3>5. f[k][i] = Append(f[k - 1][Parent[i]], i) /\ f[k - 1][i] = Append(f[k - 1 - 1][Parent[i]], i)
      BY <2>3, <2>5, <3>4 DEF Deeper
    <3> QED
      BY <2>2, <3>3, <3>5
  <2> QED
    BY <2>4, <2>5
<1>9. settled(N)
  <2> HIDE DEF settled
  <2> QED
    BY <1>0, <1>8
<1>10. \A i \in S : f[N][i] = f[N - 1][i]
  <2>1. \A i \in S : depth[i] < N
    BY <1>0, <1>6, ItemsAssumption
  <2> QED
    BY <1>9, <2>1
<1>11. f[N] \in T /\ f[N - 1] \in T /\ f[N] = Deeper(S, f[N - 1])
  BY <1>0, <1>5
<1> DEFINE a == f[N]
           b == f[N - 1]
<1>12. a = b
  <2>1. a \in [S -> Seq(Items)] /\ b \in [S -> Seq(Items)] /\ \A i \in S : a[i] = b[i]
    BY <1>10, <1>11
  <2> HIDE DEF a, b
  <2> QED
    BY <2>1
<1> QED
  BY <1>11, <1>12

\* Where an item stands is where its parent stands, and itself.
LEMMA PathFacts ==
    ASSUME NEW S \in SUBSET Items
    PROVE  /\ Path(S) \in [S -> Seq(Items)]
           /\ \A i \in S : Parent[i] \in S => Path(S)[i] = Append(Path(S)[Parent[i]], i)
<1> DEFINE path == CHOOSE g : g = [i \in S |-> IF Parent[i] \in S THEN Append(g[Parent[i]], i) ELSE <<i>>]
<1>1. PICK g \in [S -> Seq(Items)] : g = [i \in S |-> IF Parent[i] \in S THEN Append(g[Parent[i]], i) ELSE <<i>>]
  BY PathsSettle DEF Deeper
<1>2. path = [i \in S |-> IF Parent[i] \in S THEN Append(path[Parent[i]], i) ELSE <<i>>]
  BY <1>1, Zenon
<1>3. Path(S) = path
  BY Zenon DEF Path
<1> HIDE DEF path
<1>4. \A i \in S : path[i] = IF Parent[i] \in S THEN Append(path[Parent[i]], i) ELSE <<i>>
  BY <1>2, Zenon
<1>5. path = [i \in S |-> path[i]]
  BY <1>2, Zenon
<1>6. PICK depth \in [Items -> Nat] : /\ \A i \in Items : depth[i] <= NumItems
                                    /\ \A i \in Items : Parent[i] \in Items => depth[Parent[i]] < depth[i]
  BY TreeDepth
<1> DEFINE Bad == {i \in S : path[i] \notin Seq(Items)}
           Depths == {depth[i] : i \in Bad}
<1>7. Bad = {}
  <2> SUFFICES ASSUME Bad # {} PROVE FALSE
    OBVIOUS
  <2>1. Depths \in SUBSET Nat /\ Depths # {}
    BY <1>6
  <2>2. PICK i \in Bad : \A j \in Bad : depth[i] <= depth[j]
    <3>1. PICK d \in Depths : \A e \in Depths : d <= e
      <4> HIDE DEF Depths
      <4> QED
        BY <2>1, LeastElement
    <3> QED
      BY <3>1
  <2>3. CASE Parent[i] \in S
    <3>1. depth[Parent[i]] < depth[i] /\ depth[i] \in Nat /\ depth[Parent[i]] \in Nat
      BY <1>6, <2>3
    <3>2. path[Parent[i]] \in Seq(Items)
      BY <2>2, <2>3, <3>1
    <3>3. path[i] \in Seq(Items)
      <4>1. path[i] = Append(path[Parent[i]], i) /\ i \in Items
        BY <1>4, <2>3
      <4> QED
        BY <3>2, <4>1, AppendProperties
    <3> QED
      BY <3>3
  <2>4. CASE Parent[i] \notin S
    <3>1. path[i] = <<i>> /\ i \in Items
      BY <1>4, <2>4
    <3>2. path[i] \in Seq(Items)
      BY <3>1
    <3> QED
      BY <3>2
  <2> QED
    BY <2>3, <2>4
<1> QED
  BY <1>3, <1>4, <1>5, <1>7

-----------------------------------------------------------------------------
(* Lists.                                                                  *)

\* No item is in a list twice.
Distinct(s) == \A j, k \in DOMAIN s : s[j].id = s[k].id => j = k

\* An open subtask comes after its open parent.
TreeOrder(s) ==
  \A j, k \in DOMAIN s :
    s[j].st = "open" /\ s[k].st = "open" /\ Parent[s[k].id] = s[j].id => j < k

\* What is in r is in s.
Within(r, s) == \A j \in DOMAIN r : \E k \in DOMAIN s : r[j] = s[k]

\* What was gathered from a list is in its order.
LEMMA PickKeeps ==
    ASSUME NEW E, NEW s \in Seq(E), NEW K
    PROVE  LET r == Pick(s, K) IN
           /\ r \in Seq(E) /\ Within(r, s)
           /\ \A j \in DOMAIN r : \E k \in DOMAIN s : k \in K /\ r[j] = s[k]
           /\ \A k \in DOMAIN s : k \in K => \E j \in DOMAIN r : r[j] = s[k]
           /\ Distinct(s) => Distinct(r)
           /\ TreeOrder(s) => TreeOrder(r)
<1> DEFINE r == Pick(s, K)
<1>1. r \in Seq(E) /\ \E at : Picks(at, r, s, K, Len(s))
  BY Picked
<1> HIDE DEF r
<1>2. PICK at : Picks(at, r, s, K, Len(s))
  BY <1>1
<1>3. /\ Len(r) \in Nat /\ DOMAIN r = 1..Len(r)
      /\ Len(s) \in Nat /\ DOMAIN s = 1..Len(s)
  BY <1>1, LenProperties
<1>4. /\ \A j \in DOMAIN r : at[j] \in DOMAIN s /\ at[j] \in K /\ r[j] = s[at[j]]
      /\ \A j, k \in DOMAIN r : j < k => at[j] < at[k]
  BY <1>2, <1>3 DEF Picks
<1>5. \A k \in DOMAIN s : k \in K => \E j \in DOMAIN r : r[j] = s[k]
  BY <1>2, <1>3 DEF Picks
<1>6. ASSUME NEW j \in DOMAIN r, NEW k \in DOMAIN r, ~(j < k) PROVE at[k] < at[j] \/ j = k
  <2>1. k < j \/ j = k
    BY <1>3, <1>6
  <2> QED
    BY <1>4, <2>1
<1>7. Distinct(s) => Distinct(r)
  <2> SUFFICES ASSUME Distinct(s), NEW j \in DOMAIN r, NEW k \in DOMAIN r, r[j].id = r[k].id
               PROVE  j = k
    BY DEF Distinct
  <2>1. at[j] = at[k]
    BY <1>4 DEF Distinct
  <2>2. at[j] \in Int /\ at[k] \in Int /\ ~(at[j] < at[k]) /\ ~(at[k] < at[j])
    BY <1>3, <1>4, <2>1
  <2> QED
    BY <1>3, <1>4, <2>2
<1>8. TreeOrder(s) => TreeOrder(r)
  <2> SUFFICES ASSUME TreeOrder(s), NEW j \in DOMAIN r, NEW k \in DOMAIN r,
                      r[j].st = "open", r[k].st = "open", Parent[r[k].id] = r[j].id
               PROVE  j < k
    BY DEF TreeOrder
  <2>1. at[j] < at[k] /\ at[j] \in 1..Len(s) /\ at[k] \in 1..Len(s)
    BY <1>3, <1>4 DEF TreeOrder
  <2> QED
    BY <1>3, <1>6, <2>1
<1> QED
  BY <1>1, <1>4, <1>5, <1>7, <1>8 DEF r, Within

\* A walk comes to an item before it comes to its subtasks.
LEMMA ParentBefore ==
    ASSUME NEW p \in Seq(Items), NEW i \in Items, NEW q, q = Append(p, i)
    PROVE  Before(p, q)
<1>1. q \in Seq(Items) /\ Len(q) = Len(p) + 1 /\ Len(p) \in Nat /\ \A n \in 1..Len(p) : q[n] = p[n]
  BY AppendProperties
<1>2. p # q
  BY <1>1
<1>3. SubSeq(p, 1, Len(p)) = SubSeq(q, 1, Len(p))
  <2>1. SubSeq(p, 1, Len(p)) = [n \in 1..Len(p) |-> p[n]]
    BY <1>1
  <2>2. SubSeq(q, 1, Len(p)) = [n \in 1..Len(p) |-> q[n]]
    BY <1>1
  <2>3. [n \in 1..Len(p) |-> p[n]] = [n \in 1..Len(p) |-> q[n]]
    BY <1>1
  <2> QED
    BY <2>1, <2>2, <2>3
<1>4. IsStrictPrefix(p, q)
  BY <1>1, <1>2, <1>3 DEF IsStrictPrefix, IsPrefix
<1> QED
  BY <1>4 DEF Before

\* No item is a subtask of its own.
LEMMA NotOwnParent == \A i \in Items : Parent[i] # i
<1>1. PICK depth \in [Items -> Nat] : \A i \in Items : Parent[i] \in Items => depth[Parent[i]] < depth[i]
  BY TreeDepth
<1> SUFFICES ASSUME NEW i \in Items, Parent[i] = i PROVE FALSE
  OBVIOUS
<1>2. depth[i] < depth[i] /\ depth[i] \in Nat
  BY <1>1
<1> QED
  BY <1>2

\* The ids of a list of entries are those of its places.
LEMMA IdsFacts ==
    ASSUME NEW s \in Seq(Entry)
    PROVE  /\ IdsOf(s) \in SUBSET Items /\ \A k \in DOMAIN s : s[k].id \in IdsOf(s) /\ s[k] \in Entry
           /\ \A i \in IdsOf(s) : \E k \in DOMAIN s : s[k].id = i
<1>1. \A k \in DOMAIN s : s[k] \in Entry
  BY LenProperties, ElementOfSeq
<1>2. \A e \in Entry : e.id \in Items
  BY DEF Entry
<1> QED
  BY <1>1, <1>2 DEF IdsOf, ToSet

\* The order of the adapters: every item once, parents first, and nothing that was not read.
LEMMA OrderFacts ==
    ASSUME NEW s \in Seq(Entry), NEW t \in OrderTasks(s)
    PROVE  t \in Seq(Entry) /\ Within(t, s) /\ Distinct(t) /\ TreeOrder(t)
<1>1. Len(s) \in Nat /\ DOMAIN s = 1..Len(s) /\ \A k \in DOMAIN s : s[k] \in Entry
  BY LenProperties, IdsFacts
<1>2. CASE Len(s) <= 1
  <2>1. t = s
    BY <1>2 DEF OrderTasks
  <2>2. \A j, k \in DOMAIN s : j = k
    BY <1>1, <1>2
  <2>3. Distinct(t) /\ Within(t, s)
    BY <2>1, <2>2 DEF Distinct, Within
  <2>4. TreeOrder(t)
    <3> SUFFICES ASSUME NEW j \in DOMAIN s, NEW k \in DOMAIN s, Parent[s[k].id] = s[j].id PROVE FALSE
      BY <2>1 DEF TreeOrder
    <3>1. s[k].id \in Items
      BY <1>1 DEF Entry
    <3> QED
      BY <2>2, <3>1, NotOwnParent
  <2> QED
    BY <2>1, <2>3, <2>4
<1>3. CASE ~(Len(s) <= 1)
  <2> DEFINE path == Path(IdsOf(s))
             places == FirstVisits(s)
             n == Cardinality(places)
  <2>1. PICK walk \in Walks(s) : t = [m \in DOMAIN walk |-> s[walk[m]]]
    BY <1>3 DEF OrderTasks
  <2>2. /\ walk \in [1..n -> places] /\ \A a, b \in 1..n : walk[a] = walk[b] => a = b
        /\ \A a, b \in 1..n : a < b => ~Before(path[s[walk[b]].id], path[s[walk[a]].id])
    BY DEF Walks, Bijection, Injection, IsInjective
  <2>3. places \subseteq DOMAIN s /\ \A j, k \in places : s[j].id = s[k].id => j = k
    BY <1>1 DEF FirstVisits
  <2>4. n \in Nat
    <3>1. IsFiniteSet(DOMAIN s)
      BY <1>1, FS_Interval
    <3> HIDE DEF places
    <3> QED
      BY <2>3, <3>1, FS_Subset, FS_CardinalityType
  <2> HIDE DEF places, n
  <2>5. t \in [1..n -> Entry] /\ \A m \in 1..n : walk[m] \in DOMAIN s /\ t[m] = s[walk[m]]
    BY <1>1, <2>1, <2>2, <2>3
  <2>6. t \in Seq(Entry) /\ Len(t) = n /\ DOMAIN t = 1..n
    BY <2>4, <2>5, SeqDef, LenProperties
  <2>7. Within(t, s)
    BY <2>5, <2>6 DEF Within
  <2>8. Distinct(t)
    BY <2>2, <2>3, <2>5, <2>6 DEF Distinct
  <2>9. TreeOrder(t)
    <3> SUFFICES ASSUME NEW j \in 1..n, NEW k \in 1..n, Parent[t[k].id] = t[j].id PROVE j < k
      BY <2>6 DEF TreeOrder
    <3> DEFINE c == t[k].id
               p == t[j].id
    <3>1. c \in Items /\ p \in Items /\ c \in IdsOf(s) /\ p \in IdsOf(s) /\ IdsOf(s) \in SUBSET Items
      BY <2>5, IdsFacts DEF Entry
    <3>2. path[p] \in Seq(Items) /\ path[c] = Append(path[p], c)
      <4> DEFINE S == IdsOf(s)
      <4> HIDE DEF S, c, p
      <4>1. S \in SUBSET Items /\ c \in S /\ p \in S /\ Parent[c] = p
        BY <3>1 DEF S, c, p
      <4>2. Path(S)[p] \in Seq(Items) /\ Path(S)[c] = Append(Path(S)[p], c)
        BY <4>1, PathFacts
      <4> QED
        BY <4>2 DEF S
    <3>3. Before(path[p], path[c])
      <4> HIDE DEF c, p, path
      <4> QED
        BY <3>1, <3>2, ParentBefore
    <3>4. ~(k < j)
      BY <2>2, <2>5, <3>3
    <3>5. k # j
      BY <3>1, NotOwnParent
    <3> QED
      BY <2>4, <3>4, <3>5
  <2> QED
    BY <2>6, <2>7, <2>8, <2>9
<1> QED
  BY <1>2, <1>3

\* What is so of the list c that has a first and then b.
Joins(c, a, b) ==
  /\ c \in Seq(Entry)
  /\ \A k \in DOMAIN c : (\E j \in DOMAIN a : c[k] = a[j]) \/ (\E j \in DOMAIN b : c[k] = b[j])
  /\ Distinct(a) /\ Distinct(b) /\ (\A j \in DOMAIN a, k \in DOMAIN b : a[j].id # b[k].id) => Distinct(c)
  /\ TreeOrder(a) /\ (\A k \in DOMAIN b : b[k].st = "done") => TreeOrder(c)

\* A list after another: the places of both, in order.
LEMMA Joined ==
    ASSUME NEW a \in Seq(Entry), NEW b \in Seq(Entry)
    PROVE  Joins(a \o b, a, b)
<1> DEFINE c == a \o b
           shift(k) == k - Len(a)
<1>1. /\ c \in Seq(Entry) /\ Len(c) = Len(a) + Len(b)
      /\ \A i \in 1..(Len(a) + Len(b)) : c[i] = IF i <= Len(a) THEN a[i] ELSE b[i - Len(a)]
  BY ConcatProperties
<1> HIDE DEF c
<1>2. /\ Len(a) \in Nat /\ DOMAIN a = 1..Len(a) /\ Len(b) \in Nat /\ DOMAIN b = 1..Len(b)
      /\ DOMAIN c = 1..(Len(a) + Len(b))
  BY <1>1, LenProperties
<1>3. \A k \in DOMAIN c : \/ k \in DOMAIN a /\ c[k] = a[k]
                          \/ k > Len(a) /\ shift(k) \in DOMAIN b /\ c[k] = b[shift(k)]
  BY <1>1, <1>2
<1>4. \A j, k \in DOMAIN c : shift(j) = shift(k) => j = k
  BY <1>2
<1> HIDE DEF shift
<1>5. ASSUME Distinct(a), Distinct(b), \A j \in DOMAIN a, k \in DOMAIN b : a[j].id # b[k].id
      PROVE  Distinct(c)
  <2> SUFFICES ASSUME NEW j \in DOMAIN c, NEW k \in DOMAIN c, c[j].id = c[k].id PROVE j = k
    BY DEF Distinct
  <2>1. CASE j \in DOMAIN a /\ c[j] = a[j] /\ k \in DOMAIN a /\ c[k] = a[k]
    BY <1>5, <2>1 DEF Distinct
  <2>2. CASE shift(j) \in DOMAIN b /\ c[j] = b[shift(j)] /\ shift(k) \in DOMAIN b /\ c[k] = b[shift(k)]
    BY <1>4, <1>5, <2>2 DEF Distinct
  <2> QED
    BY <1>3, <1>5, <2>1, <2>2
<1>6. ASSUME TreeOrder(a), \A k \in DOMAIN b : b[k].st = "done"
      PROVE  TreeOrder(c)
  <2> SUFFICES ASSUME NEW j \in DOMAIN c, NEW k \in DOMAIN c, c[j].st = "open", c[k].st = "open",
                      Parent[c[k].id] = c[j].id
               PROVE  j < k
    BY DEF TreeOrder
  <2>1. j \in DOMAIN a /\ c[j] = a[j] /\ k \in DOMAIN a /\ c[k] = a[k]
    BY <1>3, <1>6
  <2> QED
    BY <1>6, <2>1 DEF TreeOrder
<1> QED
  BY <1>1, <1>3, <1>5, <1>6 DEF c, Joins

\* What Only gathers has the status asked for and is in the list.
LEMMA OnlyFacts ==
    ASSUME NEW s \in Seq(Entry), NEW st
    PROVE  LET r == Only(s, st) IN
           /\ r \in Seq(Entry) /\ Within(r, s) /\ \A j \in DOMAIN r : r[j].st = st
           /\ \A j \in DOMAIN r : \E k \in DOMAIN s : s[k].st = st /\ r[j] = s[k]
           /\ Distinct(s) => Distinct(r)
           /\ TreeOrder(s) => TreeOrder(r)
<1> DEFINE K == {k \in DOMAIN s : s[k].st = st}
           r == Pick(s, K)
<1>1. Only(s, st) = r
  BY DEF Only
<1> HIDE DEF r, K
<1>2. /\ r \in Seq(Entry) /\ Within(r, s)
      /\ \A j \in DOMAIN r : \E k \in DOMAIN s : k \in K /\ r[j] = s[k]
      /\ Distinct(s) => Distinct(r)
      /\ TreeOrder(s) => TreeOrder(r)
  BY PickKeeps DEF r
<1>3. \A k \in K : s[k].st = st
  BY DEF K
<1> QED
  BY <1>1, <1>2, <1>3

\* BuildSnapshot adds nothing, doubles nothing and keeps the order of what is open.
LEMMA SnapshotFacts ==
    ASSUME NEW s \in Seq(Entry), NEW t \in BuildSnapshot(s)
    PROVE  /\ t \in Seq(Entry) /\ Within(t, s)
           /\ Distinct(s) => Distinct(t)
           /\ TreeOrder(s) => TreeOrder(t)
<1>1. PICK S : S \subseteq {e \in ToSet(s) : e.st = "done"} /\ t = Only(s, "open") \o Pick(s, {k \in DOMAIN s : s[k] \in S})
  BY DEF BuildSnapshot
<1> DEFINE K == {k \in DOMAIN s : s[k] \in S}
           a == Only(s, "open")
           b == Pick(s, K)
<1>2. /\ a \in Seq(Entry) /\ Within(a, s) /\ \A j \in DOMAIN a : a[j].st = "open"
      /\ Distinct(s) => Distinct(a)
      /\ TreeOrder(s) => TreeOrder(a)
  BY OnlyFacts
<1>3. \A k \in K : s[k].st = "done"
  BY <1>1
<1> HIDE DEF K
<1>4. /\ b \in Seq(Entry) /\ Within(b, s)
      /\ \A j \in DOMAIN b : \E k \in DOMAIN s : k \in K /\ b[j] = s[k]
      /\ Distinct(s) => Distinct(b)
  BY PickKeeps
<1>5. \A k \in DOMAIN b : b[k].st = "done"
  BY <1>3, <1>4
<1>6. t = a \o b
  BY <1>1 DEF K
<1> HIDE DEF a, b
<1>7. ASSUME Distinct(s) PROVE \A j \in DOMAIN a, k \in DOMAIN b : a[j].id # b[k].id
  <2> SUFFICES ASSUME NEW j \in DOMAIN a, NEW k \in DOMAIN b, a[j].id = b[k].id PROVE FALSE
    OBVIOUS
  <2>1. PICK m \in DOMAIN s : a[j] = s[m]
    BY <1>2 DEF Within
  <2>2. PICK n \in DOMAIN s : b[k] = s[n]
    BY <1>4 DEF Within
  <2>3. m = n
    BY <1>7, <2>1, <2>2 DEF Distinct
  <2> QED
    BY <1>2, <1>5, <2>1, <2>2, <2>3
<1>8. Joins(t, a, b)
  BY <1>2, <1>4, <1>6, Joined
<1>9. Within(t, s)
  <2>1. \A k \in DOMAIN t : (\E j \in DOMAIN a : t[k] = a[j]) \/ (\E j \in DOMAIN b : t[k] = b[j])
    BY <1>8 DEF Joins
  <2>2. \A j \in DOMAIN a : \E k \in DOMAIN s : a[j] = s[k]
    BY <1>2 DEF Within
  <2>3. \A j \in DOMAIN b : \E k \in DOMAIN s : b[j] = s[k]
    BY <1>4 DEF Within
  <2> QED
    BY <2>1, <2>2, <2>3 DEF Within
<1> QED
  BY <1>2, <1>4, <1>5, <1>7, <1>8, <1>9 DEF Joins

\* The completed entries of a list, each the only one of its item.
DoneOnce(s) == \A j, k \in DOMAIN s : s[j].st = "done" /\ s[j].id = s[k].id => j = k

\* Merge appends what is done to what is open: nothing is done twice, although an item that
\* was completed between two pages may be in both (FetchList of todoist.go).
LEMMA MergeFacts ==
    ASSUME NEW s \in Seq(Entry), NEW c \in Seq(Entry), \A k \in DOMAIN s : s[k].st = "open", Distinct(c)
    PROVE  LET r == Merge(s, c) IN
           /\ r \in Seq(Entry) /\ DoneOnce(r)
           /\ \A k \in DOMAIN r : (\E j \in DOMAIN s : r[k] = s[j]) \/ (\E j \in DOMAIN c : r[k] = c[j])
<1> DEFINE K == {k \in DOMAIN c : c[k].id \notin IdsOf(s)}
           b == Pick(c, K)
           r == s \o b
<1>0. Merge(s, c) = r
  BY DEF Merge
<1>1. \A k \in K, j \in DOMAIN s : c[k].id # s[j].id
  BY IdsFacts
<1> HIDE DEF K
<1>2. /\ b \in Seq(Entry) /\ Distinct(b)
      /\ \A j \in DOMAIN b : \E k \in DOMAIN c : k \in K /\ b[j] = c[k]
  BY PickKeeps
<1> HIDE DEF b
<1>3. /\ r \in Seq(Entry) /\ Len(r) = Len(s) + Len(b)
      /\ \A i \in 1..(Len(s) + Len(b)) : r[i] = IF i <= Len(s) THEN s[i] ELSE b[i - Len(s)]
  BY <1>2, ConcatProperties
<1> HIDE DEF r
<1>4. /\ Len(s) \in Nat /\ DOMAIN s = 1..Len(s) /\ Len(b) \in Nat /\ DOMAIN b = 1..Len(b)
      /\ DOMAIN r = 1..(Len(s) + Len(b))
  BY <1>2, <1>3, LenProperties
<1>5. \A k \in DOMAIN r : \/ k \in DOMAIN s /\ r[k] = s[k]
                          \/ k - Len(s) \in DOMAIN b /\ r[k] = b[k - Len(s)]
  BY <1>3, <1>4
<1>6. DoneOnce(r)
  <2> SUFFICES ASSUME NEW j \in DOMAIN r, NEW k \in DOMAIN r, r[j].st = "done", r[j].id = r[k].id PROVE j = k
    BY DEF DoneOnce
  <2>1. j - Len(s) \in DOMAIN b /\ r[j] = b[j - Len(s)]
    BY <1>5
  <2>2. PICK m \in K : b[j - Len(s)] = c[m]
    BY <1>2, <2>1
  <2>3. k - Len(s) \in DOMAIN b /\ r[k] = b[k - Len(s)]
    BY <1>1, <1>5, <2>1, <2>2
  <2>4. j - Len(s) = k - Len(s)
    BY <1>2, <2>1, <2>3 DEF Distinct
  <2> QED
    BY <1>4, <2>4
<1> QED
  BY <1>0, <1>2, <1>3, <1>5, <1>6

\* The list that is recorded, of whichever adapter of tasks: no item twice, parents before
\* subtasks, although the pages were read at different times.
LEMMA OrderedFacts ==
    ASSUME NEW kind \in {"gtasks", "oauth", "todoist"}, NEW s \in Seq(Entry), kind = "todoist" => DoneOnce(s),
           NEW t \in Ordered(kind, s)
    PROVE  t \in Seq(Entry) /\ Within(t, s) /\ Distinct(t) /\ TreeOrder(t)
<1>1. CASE kind # "todoist"
  <2>1. t \in OrderTasks(s)
    BY <1>1 DEF Ordered
  <2> QED
    BY <2>1, OrderFacts
<1>2. CASE kind = "todoist"
  <2> DEFINE o == Only(s, "open")
             b == Only(s, "done")
  <2>1. PICK a \in OrderTasks(o) : t = a \o b
    BY <1>2 DEF Ordered
  <2>2. o \in Seq(Entry) /\ Within(o, s) /\ \A j \in DOMAIN o : o[j].st = "open"
    BY OnlyFacts
  <2>3. /\ b \in Seq(Entry) /\ Within(b, s) /\ \A j \in DOMAIN b : b[j].st = "done"
    BY OnlyFacts
  <2>4. Distinct(b)
    <3> DEFINE K == {k \in DOMAIN s : s[k].st = "done"}
    <3>1. \E at : Picks(at, b, s, K, Len(s))
      BY Picked DEF Only
    <3> HIDE DEF b
    <3>2. PICK at : Picks(at, b, s, K, Len(s))
      BY <3>1
    <3>3. Len(b) \in Nat /\ DOMAIN b = 1..Len(b) /\ Len(s) \in Nat /\ DOMAIN s = 1..Len(s)
      BY <2>3, LenProperties
    <3> SUFFICES ASSUME NEW j \in DOMAIN b, NEW k \in DOMAIN b, b[j].id = b[k].id PROVE j = k
      BY DEF Distinct
    <3>4. at[j] \in K /\ at[k] \in K /\ b[j] = s[at[j]] /\ b[k] = s[at[k]]
      BY <3>2, <3>3 DEF Picks
    <3>5. at[j] = at[k] /\ at[j] \in 1..Len(s)
      BY <1>2, <3>3, <3>4 DEF DoneOnce
    <3>6. ~(j < k) /\ ~(k < j)
      BY <3>2, <3>3, <3>5 DEF Picks
    <3> QED
      BY <3>3, <3>6
  <2> HIDE DEF o, b
  <2>5. a \in Seq(Entry) /\ Within(a, o) /\ Distinct(a) /\ TreeOrder(a)
    BY <2>2, OrderFacts
  <2>6. Within(a, s) /\ \A j \in DOMAIN a : a[j].st = "open"
    BY <2>2, <2>5 DEF Within
  <2>7. \A j \in DOMAIN a, k \in DOMAIN b : a[j].id # b[k].id
    <3> SUFFICES ASSUME NEW j \in DOMAIN a, NEW k \in DOMAIN b, a[j].id = b[k].id PROVE FALSE
      OBVIOUS
    <3>1. PICK m \in DOMAIN s : a[j] = s[m]
      BY <2>6 DEF Within
    <3>2. PICK n \in DOMAIN s : b[k] = s[n]
      BY <2>3 DEF Within
    <3>3. s[n].st = "done" /\ s[n].id = s[m].id
      BY <2>3, <3>1, <3>2
    <3>4. n = m
      BY <1>2, <3>3 DEF DoneOnce
    <3> QED
      BY <2>6, <3>1, <3>3, <3>4
  <2>8. Joins(t, a, b)
    BY <2>1, <2>3, <2>5, Joined
  <2>9. Within(t, s)
    BY <2>3, <2>6, <2>8 DEF Within, Joins
  <2> QED
    BY <2>3, <2>4, <2>5, <2>7, <2>8, <2>9 DEF Joins
<1> QED
  BY <1>1, <1>2

-----------------------------------------------------------------------------
(* The worker.                                                             *)

AllSteps == {"meta", "project", "sections", "pages", "completed", "lovelace", "default", "states"}

\* What an adapter asks upstream for.
StepsOf(kind) ==
  CASE kind \in {"gtasks", "oauth"} -> {"meta", "pages"}
    [] kind = "todoist" -> {"project", "sections", "pages", "completed"}
    [] kind = "hass" -> {"lovelace", "default", "states"}

Kinds == {"gtasks", "oauth", "todoist", "hass"}

WorkerRecs ==
  [pc : {"none", "fetch", "record", "wait"}, step : AllSteps, page : 1..MaxPages, got : Seq(Entry),
   cards : {"none", "own", "default"}, delay : [lo : Nat, hi : Nat]]

\* What is configured, what upstream has and what the worker keeps.
WorkerShape ==
  /\ conf \in Confs
  /\ up \in [Items -> Statuses \cup {"absent"}]
  /\ author \in [Items -> Users \cup {"other"}]
  /\ wk \in WorkerRecs
  /\ rq[Worker] \in RequestRecs
  /\ failures \in Nat
  /\ shown \in Seq(Entry)

\* There is a worker exactly when there is a provider, the one that is configured, and
\* it asks this one while it fetches.
Running ==
  /\ wk.pc = "none" <=> current = 0
  /\ rq[Worker].pc # "none" <=> wk.pc = "fetch"
  /\ wk.pc = "fetch" => rq[Worker].inst = current /\ wk.step \in StepsOf(InitProvider(conf))
  /\ rq[Worker].pc \in {"token", "force"} => KindOf(Worker) = "oauth"
  /\ current # 0 => insts[current].kind = InitProvider(conf)

\* No dashboard has two cards of an entity.
OwnCards == \A d \in DOMAIN Dashboards : IsInjective(Dashboards[d])

\* What a fetch has read so far, and what it hands over.
Got(kind, w) ==
  /\ kind = "todoist" /\ w.pc = "fetch" => \A k \in DOMAIN w.got : w.got[k].st = "open"
  /\ kind = "todoist" /\ w.pc = "record" => DoneOnce(w.got)
  /\ kind = "hass" /\ w.pc = "fetch" => w.got = <<>>
  /\ kind = "hass" /\ w.pc = "record" /\ OwnCards => Distinct(w.got)

\* What is shown was ordered by an adapter.
ShownInOrder ==
  /\ conf.source # "hass" => Distinct(shown) /\ TreeOrder(shown)
  /\ OwnCards => Distinct(shown)

WInv == WorkerShape /\ Running /\ Got(InitProvider(conf), wk) /\ ShownInOrder /\ RetryBounded

\* Item i is going to be read, or it is not shown otherwise than in state st.
Right(i, st) ==
  \/ current = 0 \/ refreshCh \/ ReadsRight(i, st)
  \/ wk.pc = "wait" /\ (status = "failing" \/ ~ShownOtherwise(i, st))

\* What a display was told is done is so on display or is read again, unless somebody
\* has changed it since.
Rereads(u) ==
  LET i == user[u].item
      st == user[u].want
  IN  user[u].code = 200 /\ author[i] = u /\ up[i] = st => Right(i, st)

\* An action that was begun is about an item.
About(u) == user[u].pc \in {"calling", "refresh"} \/ user[u].code = 200 => user[u].item \in Items

RInv == \A u \in Users : About(u) /\ Rereads(u)

-----------------------------------------------------------------------------
(* How long the worker waits.                                              *)

\* The interval that doubles with every failure is one, whatever their number.
LEMMA GrownFacts ==
    ASSUME NEW n \in Nat \ {0}
    PROVE  Grown(n) \in Nat \ {0, 1}
<1> DEFINE T == Nat \ {0, 1}
           round == [k \in 1..n |-> [d \in T |-> IF k = 1 THEN InitialInterval ELSE 2 * d]]
           after == CHOOSE g : g = [k \in 1..n |-> IF k = 1 THEN InitialInterval ELSE 2 * g[k - 1]]
<1>1. InitialInterval \in T /\ n \in Nat /\ n \in 1..n
  BY IntervalAssumption
<1>2. ASSUME NEW k \in 1..n, NEW d \in T PROVE (IF k = 1 THEN InitialInterval ELSE 2 * d) \in T
  BY <1>1
<1>3. /\ round \in [1..n -> [T -> T]]
      /\ \A k \in 1..n, d \in T : round[k][d] = IF k = 1 THEN InitialInterval ELSE 2 * d
  <2> HIDE DEF T
  <2> QED
    BY <1>2
<1>4. Runs(n, T, InitialInterval, round)
  <2> HIDE DEF T, round
  <2> QED
    BY <1>1, <1>3, LoopExists
<1>5. PICK f \in [0..n -> T] : \A k \in 1..n : f[k] = round[k][f[k - 1]]
  <2> HIDE DEF T, round
  <2> QED
    BY <1>4 DEF Runs
<1>6. \A k \in 1..n : f[k] \in T /\ f[k] = IF k = 1 THEN InitialInterval ELSE 2 * f[k - 1]
  <2> HIDE DEF T, round
  <2> TAKE k \in 1..n
  <2>1. k - 1 \in 0..n /\ k \in 0..n
    BY <1>1
  <2>2. f[k] = round[k][f[k - 1]] /\ f[k - 1] \in T /\ f[k] \in T
    BY <1>5, <2>1
  <2> QED
    BY <1>3, <2>2
<1> DEFINE g == [k \in 1..n |-> f[k]]
<1>7. g = [k \in 1..n |-> IF k = 1 THEN InitialInterval ELSE 2 * g[k - 1]]
  <2>1. ASSUME NEW k \in 1..n PROVE f[k] = IF k = 1 THEN InitialInterval ELSE 2 * g[k - 1]
    <3>1. CASE k = 1
      BY <1>6, <3>1
    <3>2. CASE k # 1
      <4>1. k - 1 \in 1..n
        BY <1>1, <3>2
      <4> QED
        BY <1>6, <3>2, <4>1
    <3> QED
      BY <3>1, <3>2
  <2> QED
    BY <2>1
<1>8. after = [k \in 1..n |-> IF k = 1 THEN InitialInterval ELSE 2 * after[k - 1]]
  <2> HIDE DEF g
  <2> QED
    BY <1>7, Zenon
<1>9. Grown(n) = after[n]
  BY Zenon DEF Grown
<1> HIDE DEF after
<1>10. \A k \in 1..n : after[k] = IF k = 1 THEN InitialInterval ELSE 2 * after[k - 1]
  BY <1>8, Zenon
<1> DEFINE Bad == {k \in 1..n : after[k] \notin T}
<1>11. Bad = {}
  <2> SUFFICES ASSUME Bad # {} PROVE FALSE
    OBVIOUS
  <2>1. PICK k \in Bad : \A m \in Bad : k <= m
    <3>1. Bad \in SUBSET Nat
      OBVIOUS
    <3> HIDE DEF Bad
    <3> QED
      BY <3>1, LeastElement
  <2>2. k # 1
    BY <1>1, <1>10
  <2>3. k - 1 \in 1..n /\ k - 1 \notin Bad
    BY <1>1, <2>1, <2>2
  <2>4. after[k] = 2 * after[k - 1] /\ after[k - 1] \in T
    BY <1>10, <2>2, <2>3
  <2> QED
    BY <1>2, <2>2, <2>4
<1> QED
  BY <1>1, <1>9, <1>11

\* A widget that failed is tried again no later than it is polled otherwise.
DelayInOrder(d) == d \in [lo : Nat, hi : Nat] /\ 0 < d.lo /\ d.lo <= d.hi /\ d.hi <= Interval

\* ComputeRetryDelay, after any failure and after none: not at once, and no later than the
\* widget is polled otherwise.
LEMMA DelayFacts ==
    ASSUME NEW ans, NEW n \in Nat, ans = "ok" \/ n # 0
    PROVE  DelayInOrder(ComputeRetryDelay(ans, n))
<1>1. Interval \in Nat \ {0, 1} /\ InitialInterval \in Nat \ {0, 1} /\ MaxInterval \in Nat \ {0, 1}
  BY IntervalAssumption
<1>2. CASE ~(ans # "ok" /\ Transient(ans))
  <2>1. ComputeRetryDelay(ans, n) = [lo |-> Interval, hi |-> Interval]
    BY <1>2 DEF ComputeRetryDelay
  <2> QED
    BY <1>1, <2>1 DEF DelayInOrder
<1>3. CASE ans # "ok" /\ Transient(ans)
  <2> DEFINE ceiling == IF Interval < MaxInterval THEN Interval ELSE MaxInterval
             d == IF Grown(n) > ceiling THEN ceiling ELSE Grown(n)
             lo == (4 * d) \div 5
             over == (6 * d) \div 5
             hi == IF over > Interval THEN Interval ELSE over
  <2>1. ComputeRetryDelay(ans, n) = [lo |-> lo, hi |-> hi]
    BY <1>3 DEF ComputeRetryDelay, NextDelay
  <2>2. d \in Nat /\ d >= 2 /\ d <= Interval
    BY <1>1, <1>3, GrownFacts
  <2> HIDE DEF d
  <2>3. lo \in Nat /\ over \in Nat /\ 0 < lo /\ lo <= over /\ lo <= Interval
    BY <1>1, <2>2
  <2> HIDE DEF lo, over
  <2> QED
    BY <1>1, <2>1, <2>3 DEF DelayInOrder
<1> QED
  BY <1>2, <1>3

-----------------------------------------------------------------------------
(* What a fetch reads.                                                     *)

\* The entries of a list are what upstream has now.
Now(r) == \A k \in DOMAIN r : r[k] \in Entry /\ up[r[k].id] = r[k].st

\* What is so of the entries of the items of ids at the places in K.
AreRows(r, ids, K) ==
  /\ r \in Seq(Entry) /\ Now(r)
  /\ \A j \in DOMAIN r : \E k \in DOMAIN ids : k \in K /\ r[j].id = ids[k]
  /\ IsInjective(ids) => Distinct(r)

\* A list of items becomes one of entries with the states they have now.
LEMMA RowsFacts ==
    ASSUME WorkerShape, NEW ids \in Seq(Items), NEW K,
           \A k \in DOMAIN ids : k \in K => up[ids[k]] \in Statuses
    PROVE  AreRows(Pick([k \in DOMAIN ids |-> [id |-> ids[k], st |-> up[ids[k]]]], K), ids, K)
<1> DEFINE F == [id : Items, st : Statuses \cup {"absent"}]
           row(k) == [id |-> ids[k], st |-> up[ids[k]]]
           s == [k \in DOMAIN ids |-> row(k)]
           r == Pick(s, K)
<1>1. Len(ids) \in Nat /\ DOMAIN ids = 1..Len(ids) /\ \A k \in DOMAIN ids : ids[k] \in Items
  BY LenProperties, ElementOfSeq
<1>2. \A k \in DOMAIN ids : row(k) \in F
  BY <1>1 DEF WorkerShape
<1>3. s \in [1..Len(ids) -> F] /\ \A k \in DOMAIN ids : s[k] = row(k)
  <2> HIDE DEF row, F
  <2> QED
    BY <1>1, <1>2
<1>4. s \in Seq(F) /\ DOMAIN s = DOMAIN ids
  <2> HIDE DEF s, F
  <2> QED
    BY <1>1, <1>3, SeqDef
<1> HIDE DEF s
<1>5. /\ r \in Seq(F)
      /\ \A j \in DOMAIN r : \E k \in DOMAIN s : k \in K /\ r[j] = s[k]
      /\ Distinct(s) => Distinct(r)
  <2> HIDE DEF F
  <2> QED
    BY <1>4, PickKeeps
<1> HIDE DEF r
<1>6. \A j \in DOMAIN r : \E k \in DOMAIN ids : k \in K /\ r[j] = row(k)
  BY <1>3, <1>4, <1>5
<1>7. \A j \in DOMAIN r : r[j] \in Entry /\ up[r[j].id] = r[j].st
  <2> TAKE j \in DOMAIN r
  <2>1. PICK k \in DOMAIN ids : k \in K /\ r[j] = row(k)
    BY <1>6
  <2> QED
    BY <1>1, <2>1 DEF Entry
<1>8. r \in Seq(Entry)
  <2>1. Len(r) \in Nat /\ DOMAIN r = 1..Len(r) /\ r = [j \in 1..Len(r) |-> r[j]]
    BY <1>5, LenProperties
  <2>2. r \in [1..Len(r) -> Entry]
    BY <1>7, <2>1
  <2> QED
    BY <2>1, <2>2, SeqDef
<1>9. IsInjective(ids) => Distinct(r)
  <2>1. ASSUME NEW k \in DOMAIN s PROVE s[k].id = ids[k]
    <3>1. s[k] = row(k)
      BY <1>3, <1>4
    <3> QED
      BY <3>1
  <2>2. IsInjective(ids) => Distinct(s)
    BY <1>4, <2>1 DEF IsInjective, Distinct
  <2> QED
    BY <1>5, <2>2
<1>10. \A j \in DOMAIN r : \E k \in DOMAIN ids : k \in K /\ r[j].id = ids[k]
  BY <1>6
<1> QED
  BY <1>7, <1>8, <1>9, <1>10 DEF r, s, Now, AreRows

\* Entries lists each item of S once, with the state it has now.
LEMMA EntriesFacts ==
    ASSUME WorkerShape, NEW S \in SUBSET Items, \A i \in S : up[i] \in Statuses
    PROVE  /\ Entries(S) \in Seq(Entry) /\ Now(Entries(S)) /\ Distinct(Entries(S))
           /\ \A j \in DOMAIN Entries(S) : Entries(S)[j].id \in S
<1> DEFINE ids == [i \in Items |-> i]
<1>1. ids \in Seq(Items) /\ DOMAIN ids = Items /\ IsInjective(ids)
  <2>1. ids \in [1..NumItems -> Items] /\ NumItems \in Nat
    BY ItemsAssumption DEF Items
  <2>2. DOMAIN ids = Items /\ IsInjective(ids)
    BY DEF IsInjective
  <2> QED
    BY <2>1, <2>2, SeqDef
<1>2. \A i \in Items : ids[i] = i
  OBVIOUS
<1> HIDE DEF ids
<1> DEFINE r == Pick([k \in DOMAIN ids |-> [id |-> ids[k], st |-> up[ids[k]]]], S)
<1>3. Entries(S) = r
  <2>1. [i \in Items |-> [id |-> i, st |-> up[i]]] = [k \in DOMAIN ids |-> [id |-> ids[k], st |-> up[ids[k]]]]
    BY <1>1, <1>2
  <2> QED
    BY <2>1, Zenon DEF Entries
<1>4. \A k \in DOMAIN ids : k \in S => up[ids[k]] \in Statuses
  BY <1>1, <1>2
<1>5. AreRows(r, ids, S)
  BY <1>1, <1>4, RowsFacts
<1> HIDE DEF r
<1>6. \A j \in DOMAIN r : r[j].id \in S
  BY <1>1, <1>2, <1>5 DEF AreRows
<1> QED
  BY <1>1, <1>3, <1>5, <1>6, Zenon DEF AreRows

\* The cards show the states of now, each entity once if the dashboard says so.
LEMMA CardsFacts ==
    ASSUME WorkerShape, NEW dash \in {"none", "own", "default"}
    PROVE  /\ Cards(dash) \in Seq(Entry) /\ Now(Cards(dash))
           /\ OwnCards => Distinct(Cards(dash))
<1> DEFINE ids == IF ViewCards(dash) = <<>> THEN FallbackCards ELSE ViewCards(dash)
           K == {k \in DOMAIN ids : up[ids[k]] \in Statuses}
           r == Pick([k \in DOMAIN ids |-> [id |-> ids[k], st |-> up[ids[k]]]], K)
<1>1. FallbackCards \in Seq(Items) /\ IsInjective(FallbackCards)
  <2>1. FallbackCards \in [1..NumItems -> Items] /\ NumItems \in Nat
    BY ItemsAssumption DEF FallbackCards, Items
  <2>2. IsInjective(FallbackCards)
    BY DEF FallbackCards, IsInjective
  <2> QED
    BY <2>1, <2>2, SeqDef
<1>2. ViewCards(dash) # <<>> => ViewCards(dash) \in Seq(Items) /\ (OwnCards => IsInjective(ViewCards(dash)))
  BY DashboardsAssumption DEF ViewCards, OwnCards
<1>3. ids \in Seq(Items) /\ (OwnCards => IsInjective(ids))
  BY <1>1, <1>2
<1>4. Cards(dash) = r
  BY Zenon DEF Cards
<1> HIDE DEF ids
<1>5. \A k \in DOMAIN ids : k \in K => up[ids[k]] \in Statuses
  OBVIOUS
<1> HIDE DEF K
<1>6. AreRows(r, ids, K)
  BY <1>3, <1>5, RowsFacts
<1> QED
  BY <1>3, <1>4, <1>6 DEF AreRows

\* What upstream lists is so now, and open if it is Todoist that lists it.
LEMMA ListedFacts ==
    ASSUME WorkerShape, NEW kind
    PROVE  /\ Listed(kind) \in Seq(Entry) /\ Now(Listed(kind))
           /\ kind = "todoist" => \A k \in DOMAIN Listed(kind) : Listed(kind)[k].st = "open"
<1> DEFINE S == {i \in Items : IF kind = "todoist" THEN up[i] = "open" ELSE up[i] \in Statuses}
<1>1. S \in SUBSET Items /\ (\A i \in S : up[i] \in Statuses) /\ (kind = "todoist" => \A i \in S : up[i] = "open")
  BY DEF Statuses
<1>2. Listed(kind) = Entries(S)
  BY DEF Listed
<1> HIDE DEF S
<1>3. /\ Entries(S) \in Seq(Entry) /\ Now(Entries(S))
      /\ \A j \in DOMAIN Entries(S) : Entries(S)[j].id \in S
  BY <1>1, EntriesFacts
<1> QED
  BY <1>1, <1>2, <1>3 DEF Now

\* So is every page of it.
LEMMA PageFacts ==
    ASSUME WorkerShape, NEW kind, NEW n \in 1..MaxPages
    PROVE  /\ Page(kind, n) \in Seq(Entry) /\ Now(Page(kind, n))
           /\ kind = "todoist" => \A k \in DOMAIN Page(kind, n) : Page(kind, n)[k].st = "open"
<1> DEFINE all == Listed(kind)
           first == (n - 1) * PageSize + 1
           last == IF n * PageSize > Len(all) THEN Len(all) ELSE n * PageSize
           r == SubSeq(all, first, last)
<1>1. /\ all \in Seq(Entry) /\ Now(all)
      /\ kind = "todoist" => \A k \in DOMAIN all : all[k].st = "open"
  BY ListedFacts
<1> HIDE DEF all
<1>2. Len(all) \in Nat /\ DOMAIN all = 1..Len(all) /\ \A k \in DOMAIN all : all[k] \in Entry
  BY <1>1, LenProperties, ElementOfSeq
<1>3. first \in Nat /\ first >= 1 /\ last \in Nat /\ last <= Len(all)
  <2>1. (n - 1) * PageSize \in Nat /\ n * PageSize \in Nat
    BY PagesAssumption
  <2> QED
    BY <1>2, <2>1
<1>4. Page(kind, n) = r
  BY DEF Page, all
<1> HIDE DEF first, last
<1>5. \A i \in first..last : i \in DOMAIN all /\ all[i] \in Entry
  BY <1>2, <1>3
<1>6. /\ r \in Seq(Entry) /\ Len(r) = IF first <= last THEN last - first + 1 ELSE 0
      /\ \A i \in 1..(last - first + 1) : r[i] = all[first + i - 1]
  BY <1>3, <1>5, SubSeqProperties
<1> HIDE DEF r
<1>7. \A k \in DOMAIN r : \E i \in DOMAIN all : r[k] = all[i]
  <2> TAKE k \in DOMAIN r
  <2>1. k \in 1..Len(r)
    BY <1>6, LenProperties
  <2>2. k \in 1..(last - first + 1) /\ first + k - 1 \in first..last
    BY <1>3, <1>6, <2>1
  <2> QED
    BY <1>5, <1>6, <2>2
<1> QED
  BY <1>1, <1>4, <1>6, <1>7 DEF Now

-----------------------------------------------------------------------------
(* Steps of a fetch.                                                       *)

\* Where a fetch of an adapter is after an answer: what it has read more is so now.
Moved(kind, w) ==
  /\ w \in WorkerRecs /\ w.pc \in {"fetch", "record"}
  /\ w.pc = "fetch" => w.step \in StepsOf(kind)
  /\ Got(kind, w)
  /\ \A k \in DOMAIN w.got : (\E j \in DOMAIN wk.got : w.got[k] = wk.got[j]) \/ up[w.got[k].id] = w.got[k].st

\* A fetch that goes on to its next request has read nothing more.
LEMMA GoToFacts ==
    ASSUME WorkerShape, wk.pc = "fetch", NEW kind \in Kinds, Got(kind, wk), NEW step \in StepsOf(kind) \cap AllSteps,
           NEW cards \in {"none", "own", "default"}, NEW w,
           w = GoTo(step) \/ w = [wk EXCEPT !.step = step, !.cards = cards]
    PROVE  Moved(kind, w)
<1>1. w \in WorkerRecs /\ w.pc = "fetch" /\ w.step = step /\ w.got = wk.got
  BY DEF GoTo, WorkerShape, WorkerRecs
<1>2. Got(kind, w)
  BY <1>1 DEF Got
<1> QED
  BY <1>1, <1>2 DEF Moved

\* A page of tasks was read.
LEMMA AfterPageFacts ==
    ASSUME WorkerShape, wk.pc = "fetch", wk.step = "pages", NEW kind \in {"gtasks", "oauth", "todoist"}, Got(kind, wk), NEW ans,
           NEW w, w = AfterPage(kind, ans), w.pc # "failed"
    PROVE  Moved(kind, w)
<1> DEFINE page == Page(kind, wk.page)
           read == wk.got \o page
<1>0. wk \in WorkerRecs /\ wk.page \in 1..MaxPages /\ wk.got \in Seq(Entry)
  BY DEF WorkerShape, WorkerRecs
<1>1. /\ page \in Seq(Entry) /\ Now(page)
      /\ kind = "todoist" => \A k \in DOMAIN page : page[k].st = "open"
  BY <1>0, PageFacts
<1> HIDE DEF page
<1>2. Joins(read, wk.got, page)
  BY <1>0, <1>1, Joined
<1> HIDE DEF read
<1>3. /\ read \in Seq(Entry)
      /\ \A k \in DOMAIN read : (\E j \in DOMAIN wk.got : read[k] = wk.got[j]) \/ up[read[k].id] = read[k].st
  <2>1. \A k \in DOMAIN read : (\E j \in DOMAIN wk.got : read[k] = wk.got[j]) \/ (\E j \in DOMAIN page : read[k] = page[j])
    BY <1>2 DEF Joins
  <2>2. \A j \in DOMAIN page : up[page[j].id] = page[j].st
    BY <1>1 DEF Now
  <2> QED
    BY <1>2, <2>1, <2>2 DEF Joins
<1>4. kind = "todoist" => \A k \in DOMAIN read : read[k].st = "open"
  <2>1. \A k \in DOMAIN read : (\E j \in DOMAIN wk.got : read[k] = wk.got[j]) \/ (\E j \in DOMAIN page : read[k] = page[j])
    BY <1>2 DEF Joins
  <2>2. kind = "todoist" => \A j \in DOMAIN wk.got : wk.got[j].st = "open"
    BY DEF Got
  <2> QED
    BY <1>1, <2>1, <2>2
<1>5. ans = "ok"
  BY <1>0 DEF AfterPage, FailedFetch, WorkerRecs
<1>6. CASE ~LastPage(kind, wk.page)
  <2>1. w = [wk EXCEPT !.page = wk.page + 1, !.got = read]
    BY <1>5, <1>6 DEF AfterPage, read, page
  <2>2. wk.page + 1 \in 1..MaxPages
    BY <1>0, <1>6, PagesAssumption DEF LastPage
  <2>3. w \in WorkerRecs /\ w.pc = "fetch" /\ w.got = read /\ w.step = "pages"
    BY <1>0, <1>3, <2>1, <2>2 DEF WorkerRecs
  <2> QED
    BY <1>3, <1>4, <2>3 DEF Moved, Got, StepsOf
<1>7. CASE LastPage(kind, wk.page) /\ kind = "todoist"
  <2>1. w = [wk EXCEPT !.step = "completed", !.got = read]
    BY <1>5, <1>7 DEF AfterPage, read, page
  <2>2. w \in WorkerRecs /\ w.pc = "fetch" /\ w.got = read /\ w.step = "completed"
    BY <1>0, <1>3, <2>1 DEF WorkerRecs, AllSteps
  <2> QED
    BY <1>3, <1>4, <1>7, <2>2 DEF Moved, Got, StepsOf
<1>8. CASE LastPage(kind, wk.page) /\ kind # "todoist"
  <2>1. w = [wk EXCEPT !.pc = "record", !.got = read]
    BY <1>5, <1>8 DEF AfterPage, Recorded, read, page
  <2>2. w \in WorkerRecs /\ w.pc = "record" /\ w.got = read
    BY <1>0, <1>3, <2>1 DEF WorkerRecs
  <2> QED
    BY <1>3, <1>8, <2>2 DEF Moved, Got
<1> QED
  BY <1>6, <1>7, <1>8

\* The completed tasks of Todoist were read, or could not be.
LEMMA AfterCompletedFacts ==
    ASSUME WorkerShape, wk.pc = "fetch", Got("todoist", wk), NEW ans, NEW w, w = AfterCompleted(ans)
    PROVE  Moved("todoist", w)
<1> DEFINE S == {i \in Items : up[i] = "done"}
           c == Entries(S)
           read == IF ans = "ok" THEN Merge(wk.got, c) ELSE wk.got
<1>0. wk \in WorkerRecs /\ wk.got \in Seq(Entry) /\ \A k \in DOMAIN wk.got : wk.got[k].st = "open"
  BY DEF WorkerShape, WorkerRecs, Got
<1>1. c \in Seq(Entry) /\ Now(c) /\ Distinct(c)
  <2>1. S \in SUBSET Items /\ \A i \in S : up[i] \in Statuses
    BY DEF Statuses
  <2> HIDE DEF S
  <2> QED
    BY <2>1, EntriesFacts
<1>2. w = [wk EXCEPT !.pc = "record", !.got = read]
  BY DEF AfterCompleted, Recorded
<1> HIDE DEF c
<1>3. /\ read \in Seq(Entry) /\ DoneOnce(read)
      /\ \A k \in DOMAIN read : (\E j \in DOMAIN wk.got : read[k] = wk.got[j]) \/ (\E j \in DOMAIN c : read[k] = c[j])
  <2>1. CASE ans = "ok"
    <3> DEFINE r == Merge(wk.got, c)
    <3>1. /\ r \in Seq(Entry) /\ DoneOnce(r)
          /\ \A k \in DOMAIN r : (\E j \in DOMAIN wk.got : r[k] = wk.got[j]) \/ (\E j \in DOMAIN c : r[k] = c[j])
      BY <1>0, <1>1, MergeFacts
    <3> QED
      BY <2>1, <3>1
  <2>2. CASE ans # "ok"
    BY <1>0, <2>2 DEF DoneOnce
  <2> QED
    BY <2>1, <2>2
<1> HIDE DEF read
<1>4. \A k \in DOMAIN read : (\E j \in DOMAIN wk.got : read[k] = wk.got[j]) \/ up[read[k].id] = read[k].st
  BY <1>1, <1>3 DEF Now
<1>5. w \in WorkerRecs /\ w.pc = "record" /\ w.got = read
  BY <1>0, <1>2, <1>3 DEF WorkerRecs
<1> QED
  BY <1>3, <1>4, <1>5 DEF Moved, Got

\* The states of the entities of Home Assistant were read.
LEMMA AfterStatesFacts ==
    ASSUME WorkerShape, wk.pc = "fetch", NEW ans, NEW w, w = AfterStates(ans), w.pc # "failed"
    PROVE  Moved("hass", w)
<1>0. wk \in WorkerRecs /\ wk.cards \in {"none", "own", "default"}
  BY DEF WorkerShape, WorkerRecs
<1> DEFINE r == Cards(wk.cards)
<1>1. r \in Seq(Entry) /\ Now(r) /\ (OwnCards => Distinct(r))
  BY <1>0, CardsFacts
<1>2. w = [wk EXCEPT !.pc = "record", !.got = r]
  BY <1>0 DEF AfterStates, Recorded, FailedFetch, WorkerRecs
<1> HIDE DEF r
<1>3. w \in WorkerRecs /\ w.pc = "record" /\ w.got = r
  BY <1>0, <1>1, <1>2 DEF WorkerRecs
<1>4. Got("hass", w)
  BY <1>1, <1>3 DEF Got
<1> QED
  BY <1>1, <1>3, <1>4 DEF Moved, Now

\* Whatever a fetch was answered, unless it has failed: what it has read more is so now.
LEMMA NextStepFacts ==
    ASSUME WorkerShape, wk.pc = "fetch", NEW kind \in Kinds, wk.step \in StepsOf(kind), Got(kind, wk), NEW ans,
           NEW w, w = NextStep(kind, ans), w.pc # "failed"
    PROVE  Moved(kind, w)
<1>0. wk \in WorkerRecs
  BY DEF WorkerShape
<1>1. FailedFetch.pc = "failed"
  BY <1>0 DEF FailedFetch, WorkerRecs
<1>2. CASE kind \in {"gtasks", "oauth"}
  <2>1. CASE wk.step = "meta"
    <3>1. w = GoTo("pages") /\ "pages" \in StepsOf(kind) \cap AllSteps
      BY <1>1, <1>2, <2>1 DEF NextStep, AfterMeta, StepsOf, AllSteps
    <3> QED
      BY <3>1, GoToFacts
  <2>2. CASE wk.step = "pages"
    <3>1. w = AfterPage(kind, ans)
      BY <2>2 DEF NextStep
    <3> QED
      BY <1>2, <2>2, <3>1, AfterPageFacts
  <2> QED
    BY <1>2, <2>1, <2>2 DEF StepsOf
<1>3. CASE kind = "todoist"
  <2>1. CASE wk.step \in {"project", "sections"}
    <3>1. w = GoTo("sections") \/ w = GoTo("pages")
      BY <1>1, <2>1 DEF NextStep, AfterProject, AfterSections
    <3>2. {"sections", "pages"} \subseteq StepsOf(kind) \cap AllSteps
      BY <1>3 DEF StepsOf, AllSteps
    <3> QED
      BY <3>1, <3>2, GoToFacts
  <2>2. CASE wk.step = "pages"
    <3>1. w = AfterPage(kind, ans)
      BY <2>2 DEF NextStep
    <3> QED
      BY <1>3, <2>2, <3>1, AfterPageFacts
  <2>3. CASE wk.step = "completed"
    <3>1. w = AfterCompleted(ans)
      BY <2>3 DEF NextStep
    <3> QED
      BY <1>3, <3>1, AfterCompletedFacts
  <2> QED
    BY <1>3, <2>1, <2>2, <2>3 DEF StepsOf
<1>4. CASE kind = "hass"
  <2>1. CASE wk.step \in {"lovelace", "default"}
    <3>1. w = AfterLovelace(ans)
      BY <2>1 DEF NextStep
    <3>2. PICK cards \in {"none", "own", "default"} : w = GoTo("default") \/ w = [wk EXCEPT !.step = "states", !.cards = cards]
      BY <3>1 DEF AfterLovelace
    <3>3. {"default", "states"} \subseteq StepsOf(kind) \cap AllSteps
      BY <1>4 DEF StepsOf, AllSteps
    <3> QED
      BY <3>2, <3>3, GoToFacts
  <2>2. CASE wk.step = "states"
    <3>1. w = AfterStates(ans)
      BY <2>2 DEF NextStep
    <3> QED
      BY <1>4, <3>1, AfterStatesFacts
  <2> QED
    BY <1>4, <2>1, <2>2 DEF StepsOf
<1> QED
  BY <1>2, <1>3, <1>4 DEF Kinds

-----------------------------------------------------------------------------
(* Requests of the displays beside the worker.                             *)

\* What may become of the request.
Follows(b) ==
  /\ b.code = 200 => refreshCh' \/ current = 0
  /\ b.pc \in {"calling", "refresh"} \/ b.code = 200 => b.item \in Items

\* It is all that changes, but for the item it is about and for a refresh.
Beside(u) ==
  /\ UNCHANGED <<conf, current, wk, showVars>> /\ KindsKept
  /\ rq' = rq \/ \E q : rq' = [rq EXCEPT ![u] = q]
  /\ \E b : user' = [user EXCEPT ![u] = b] /\ Follows(b)
  /\ refreshCh => refreshCh'
  /\ UNCHANGED upVars \/ Execute(u)

\* An answer comes to u, whose request is now r.
LEMMA AnswerBeside ==
    ASSUME Inv, NEW u \in Users, NEW ans \in Errors \cup {"ok"}, NEW r \in ActionRecs, r.code = 0, r.item \in Items,
           AfterAnswer(u, ans, r), UNCHANGED <<conf, insts, current, refreshCh>>,
           UNCHANGED upVars \/ Execute(u)
    PROVE  Beside(u)
<1>0. u # Worker /\ KindsKept
  BY UsersAssumption, SameKinds DEF Worker, Inv
<1>1. UNCHANGED <<wk, showVars>> /\ \E q : rq' = [rq EXCEPT ![u] = q]
  <2>1. CASE Retries(u, ans)
    <3>1. rq' = [rq EXCEPT ![u] = RetryRequest(rq[u])] /\ UNCHANGED <<wk, showVars>>
      BY <2>1 DEF AfterAnswer
    <3> QED
      BY <3>1
  <2>2. CASE ~Retries(u, ans)
    <3> DEFINE q == IF ans = "ok" THEN [rq[u] EXCEPT !.pc = "none"] ELSE NoRequest
    <3>1. rq' = [rq EXCEPT ![u] = q] /\ UNCHANGED <<wk, showVars>>
      BY <1>0, <2>2 DEF AfterAnswer
    <3> HIDE DEF q
    <3> QED
      BY <3>1
  <2> QED
    BY <2>1, <2>2
<1>2. \E b : user' = [user EXCEPT ![u] = b] /\ Follows(b)
  <2>1. CASE Retries(u, ans)
    <3>1. user' = [user EXCEPT ![u] = r]
      BY <1>0, <2>1 DEF AfterAnswer
    <3>2. Follows(r)
      BY DEF Follows
    <3> QED
      BY <3>1, <3>2
  <2>2. CASE ~Retries(u, ans) /\ ans = "ok"
    <3> DEFINE b == [r EXCEPT !.pc = "refresh"]
    <3>1. user' = [user EXCEPT ![u] = b]
      BY <1>0, <2>2 DEF AfterAnswer
    <3>2. b.code = 0 /\ b.item \in Items
      BY DEF ActionRecs
    <3> HIDE DEF b
    <3>3. Follows(b)
      BY <3>2 DEF Follows
    <3> QED
      BY <3>1, <3>3
  <2>3. CASE ~Retries(u, ans) /\ ans # "ok"
    <3> DEFINE code == StatusCode(KindOf(u), ans)
               b == Replied(r, code)
    <3>1. user' = [user EXCEPT ![u] = b]
      BY <1>0, <2>3 DEF AfterAnswer
    <3>2. code \in {401, 404, 500, 502}
      BY <2>3, StatusFacts
    <3> HIDE DEF code
    <3>3. code \in Nat /\ code # 200
      BY <3>2
    <3>4. b.pc = "replied" /\ b.code = code
      BY <3>3, RepliedType
    <3> HIDE DEF b
    <3>5. Follows(b)
      BY <3>3, <3>4 DEF Follows
    <3> QED
      BY <3>1, <3>5
  <2> QED
    BY <2>1, <2>2, <2>3
<1> QED
  BY <1>0, <1>1, <1>2 DEF Beside

\* A reply without an answer.
LEMMA ReplyBeside ==
    ASSUME Inv, NEW u \in Users, NEW r \in ActionRecs, NEW code \in Nat,
           code = 200 => (refreshCh' \/ current = 0) /\ r.item \in Items,
           user' = [user EXCEPT ![u] = Replied(r, code)],
           rq' = rq \/ rq' = [rq EXCEPT ![u] = NoRequest],
           UNCHANGED <<conf, insts, current, wk, showVars, upVars>>, refreshCh => refreshCh'
    PROVE  Beside(u)
<1> DEFINE b == Replied(r, code)
<1>1. b.pc = "replied" /\ b.code = code
  BY RepliedType
<1>2. code = 200 => b.item = r.item
  BY DEF Replied, ActionRecs
<1> HIDE DEF b
<1>3. Follows(b)
  BY <1>1, <1>2 DEF Follows
<1>4. user' = [user EXCEPT ![u] = b]
  BY DEF b
<1> QED
  BY <1>3, <1>4, SameKinds DEF Beside, Inv

\* The handlers up to the call of upstream.
LEMMA BeginBeside ==
    ASSUME Inv, NEW u \in Users, NEW i \in Items \cup {Invalid}, NEW want \in Statuses, BeginAction(u, i, want)
    PROVE  Beside(u)
<1>0. user[u] \in ActionRecs /\ Stage(u) /\ user[u].pc = "idle"
  BY DEF Inv, Shape, BeginAction
<1>1. UNCHANGED <<conf, insts, current, wk, showVars, upVars, refreshCh>>
  BY DEF BeginAction
<1>2. CASE ~ValidAsk(i) \/ current = 0
  <2> DEFINE n == IF ~ValidAsk(i) THEN 400 ELSE 404
  <2>1. user' = [user EXCEPT ![u] = Replied(user[u], n)] /\ rq' = rq
    BY <1>2 DEF BeginAction
  <2>2. n \in Nat /\ n # 200
    OBVIOUS
  <2> HIDE DEF n
  <2> QED
    BY <1>0, <1>1, <2>1, <2>2, ReplyBeside
<1>3. CASE ValidAsk(i) /\ current # 0
  <2>1. PICK w \in Statuses :
          /\ user' = [user EXCEPT ![u] = [user[u] EXCEPT !.pc = "calling", !.item = i, !.want = w,
                                                        !.trouble = ~HasToken(insts[current])]]
          /\ rq' = [rq EXCEPT ![u] = NewRequest(current, insts)]
    BY <1>3 DEF BeginAction, CompleteListItem, CallWidgetAction, Calls
  <2> DEFINE b == [user[u] EXCEPT !.pc = "calling", !.item = i, !.want = w,
                                    !.trouble = ~HasToken(insts[current])]
  <2>2. b.code = 0 /\ b.item = i
    BY <1>0 DEF Stage, ActionRecs
  <2>3. i \in Items
    BY <1>3 DEF ValidAsk
  <2>4. user' = [user EXCEPT ![u] = b]
    BY <2>1
  <2> HIDE DEF b
  <2>5. Follows(b)
    BY <2>2, <2>3 DEF Follows
  <2>6. \E q : rq' = [rq EXCEPT ![u] = q]
    BY <2>1
  <2> QED
    BY <1>1, <2>4, <2>5, <2>6, SameKinds DEF Beside, Inv
<1> QED
  BY <1>2, <1>3

\* Whatever a display's request does.
LEMMA DisplayBeside ==
    ASSUME Inv, NEW u \in Users, About(u), DisplayStep(u)
    PROVE  Beside(u)
<1>0. user[u] \in ActionRecs /\ user \in [Users -> ActionRecs]
  BY DEF Inv, Shape
<1>1. ASSUME rq[u].pc # "none"
      PROVE  /\ user[u].code = 0 /\ user[u].item \in Items /\ u # Worker /\ RequestOf(u) = user[u]
             /\ Troubled(u) \in ActionRecs /\ Troubled(u).code = 0 /\ Troubled(u).item \in Items
  <2>1. user[u].pc = "calling" /\ user[u].code = 0 /\ u # Worker /\ RequestOf(u) = user[u]
    BY <1>1, UnderWay
  <2>2. user[u].item \in Items
    BY <2>1 DEF About
  <2>3. Troubled(u) = [user[u] EXCEPT !.trouble = TRUE]
    BY <2>1 DEF Troubled
  <2>4. Troubled(u) \in ActionRecs /\ Troubled(u).code = 0 /\ Troubled(u).item \in Items
    BY <1>0, <2>1, <2>2, <2>3 DEF ActionRecs
  <2> QED
    BY <2>1, <2>2, <2>4
<1>2. ASSUME NEW ans \in Errors, Fails(u, ans) PROVE Beside(u)
  <2>1. /\ rq[u].pc # "none" /\ AfterAnswer(u, ans, Troubled(u))
        /\ UNCHANGED <<conf, insts, current, refreshCh, upVars>>
    BY <1>2 DEF Fails
  <2> QED
    BY <1>1, <2>1, AnswerBeside
<1>3. CASE TokenFails(u)
  <2> DEFINE n == IF rq[u].pc = "force" THEN 401 ELSE 500
  <2>1. rq[u].pc # "none" /\ UNCHANGED <<conf, insts, current, refreshCh, upVars>>
    BY <1>3 DEF TokenFails, NeedsToken
  <2>2. /\ user' = [user EXCEPT ![u] = Replied(Troubled(u), n)] /\ rq' = [rq EXCEPT ![u] = NoRequest]
        /\ UNCHANGED <<wk, showVars>>
    BY <1>1, <1>3, <2>1 DEF TokenFails
  <2>3. n \in Nat /\ n # 200
    OBVIOUS
  <2> HIDE DEF n
  <2> QED
    BY <1>1, <2>1, <2>2, <2>3, ReplyBeside
<1>4. ASSUME NEW ask \in Asks[u], BeginAction(u, ask[1], ask[2]) PROVE Beside(u)
  <2>1. ask[1] \in Items \cup {Invalid} /\ ask[2] \in Statuses
    BY AsksAssumption
  <2> QED
    BY <1>4, <2>1, BeginBeside
<1>5. CASE UseCachedToken(u) \/ RefreshToken(u)
  <2>1. /\ rq[u].pc # "none" /\ user' = user
        /\ UNCHANGED <<conf, current, wk, showVars, upVars, refreshCh>>
    BY <1>5 DEF UseCachedToken, RefreshToken, NeedsToken
  <2>2. \E q : rq' = [rq EXCEPT ![u] = q]
    BY <1>5 DEF UseCachedToken, RefreshToken
  <2>3. KindsKept
    <3>1. CASE UseCachedToken(u)
      BY <3>1, SameKinds DEF UseCachedToken, Inv
    <3>2. CASE RefreshToken(u)
      <4> DEFINE n == rq[u].inst
      <4>1. insts' = [insts EXCEPT ![n].cached = "good"]
        BY <3>2 DEF RefreshToken
      <4> HIDE DEF n
      <4> QED
        BY <4>1, CachedKinds DEF Inv
    <3> QED
      BY <1>5, <3>1, <3>2
  <2>4. user' = [user EXCEPT ![u] = user[u]]
    BY <1>0, <2>1
  <2>5. Follows(user[u])
    BY <1>1, <2>1 DEF Follows
  <2> QED
    BY <2>1, <2>2, <2>3, <2>4, <2>5 DEF Beside
<1>6. CASE Refused(u)
  <2>1. /\ rq[u].pc # "none" /\ AfterAnswer(u, "401", RequestOf(u))
        /\ UNCHANGED <<conf, insts, current, refreshCh, upVars>>
    BY <1>6 DEF Refused
  <2>2. "401" \in Errors \cup {"ok"}
    BY DEF Errors
  <2> QED
    BY <1>0, <1>1, <2>1, <2>2, AnswerBeside
<1>7. CASE Executed(u)
  <2> DEFINE b == [user[u] EXCEPT !.ran = @ + 1]
  <2>1. /\ rq[u].pc # "none" /\ UNCHANGED <<conf, insts, current, refreshCh>>
        /\ \/ AfterAnswer(u, "404", user[u]) /\ UNCHANGED upVars
           \/ AfterAnswer(u, "ok", b) /\ Execute(u)
    BY <1>7 DEF Executed, CompleteItem, CallService
  <2>2. b \in ActionRecs /\ b.code = 0 /\ b.item \in Items
    BY <1>0, <1>1, <2>1 DEF ActionRecs
  <2>3. "404" \in Errors \cup {"ok"} /\ "ok" \in Errors \cup {"ok"}
    BY DEF Errors
  <2> HIDE DEF b
  <2> QED
    BY <1>0, <1>1, <2>1, <2>2, <2>3, AnswerBeside
<1>8. CASE RefreshWidget(u)
  <2> DEFINE n == IF current = 0 /\ IsTasks(KindOf(u)) THEN 500 ELSE 200
  <2>1. /\ user[u].pc = "refresh" /\ refreshCh' = (refreshCh \/ current # 0)
        /\ user' = [user EXCEPT ![u] = Replied(user[u], n)] /\ rq' = [rq EXCEPT ![u] = NoRequest]
        /\ UNCHANGED <<conf, insts, current, wk, showVars, upVars>>
    BY <1>8 DEF RefreshWidget
  <2>2. user[u].item \in Items
    BY <2>1 DEF About
  <2>3. n \in Nat
    OBVIOUS
  <2> HIDE DEF n
  <2>4. (refreshCh' \/ current = 0) /\ (refreshCh => refreshCh')
    BY <2>1
  <2> QED
    BY <1>0, <2>1, <2>2, <2>3, <2>4, ReplyBeside
<1>9. ASSUME NEW ans \in {"5xx", "net"}, LosesAnswer(u, ans) PROVE Beside(u)
  <2> DEFINE b == [Troubled(u) EXCEPT !.ran = @ + 1]
  <2>1. /\ rq[u].pc # "none" /\ AfterAnswer(u, ans, b) /\ Execute(u)
        /\ UNCHANGED <<conf, insts, current, refreshCh>>
    BY <1>9 DEF LosesAnswer
  <2>2. b \in ActionRecs /\ b.code = 0 /\ b.item \in Items
    BY <1>1, <2>1 DEF ActionRecs
  <2>3. ans \in Errors \cup {"ok"}
    BY DEF Errors
  <2> HIDE DEF b
  <2> QED
    BY <2>1, <2>2, <2>3, AnswerBeside
<1> QED
  BY <1>2, <1>3, <1>4, <1>5, <1>6, <1>7, <1>8, <1>9 DEF DisplayStep, Requests

-----------------------------------------------------------------------------
(* Steps of the worker's loop.                                             *)

\* What a step may do to the worker: it ends it, fails, starts over, leaves it alone,
\* reads more of what is so now, or shows what it has read.
Passes ==
  \/ current' = 0
  \/ wk'.pc = "wait" /\ status' = "failing"
  \/ wk'.pc = "fetch" /\ wk'.got = <<>>
  \/ UNCHANGED <<wk, current, shown, status>>
  \/ /\ wk.pc = "fetch" /\ wk'.pc \in {"fetch", "record"} /\ current' = current
     /\ \A k \in DOMAIN wk'.got :
          (\E j \in DOMAIN wk.got : wk'.got[k] = wk.got[j]) \/ up[wk'.got[k].id] = wk'.got[k].st
  \/ /\ wk.pc = "record" /\ wk'.pc = "wait" /\ current' = current
     /\ Within(shown', wk.got)

\* The kind of a provider goes with the source its configuration names.
LEMMA ProviderKinds ==
    ASSUME NEW c \in Confs
    PROVE  /\ InitProvider(c) \in Kinds \cup {"error"}
           /\ InitProvider(c) = "hass" => c.source = "hass"
           /\ InitProvider(c) \in {"gtasks", "oauth", "todoist"} => c.source # "hass"
  BY ConfsAssumption DEF InitProvider, InitGTasks, InitTodoist, InitHass, Kinds

\* The worker calls the provider that is configured.
LEMMA WorkerKind ==
    ASSUME Inv, WInv, current # 0
    PROVE  /\ current \in 1..Len(insts) /\ insts \in Seq(Instances)
           /\ insts[current].kind = InitProvider(conf) /\ InitProvider(conf) \in Kinds
<1>1. current \in 1..Len(insts) /\ insts \in Seq(Instances) /\ insts[current].kind = InitProvider(conf)
  BY DEF Inv, Shape, WInv, Running
<1>2. insts[current] \in Instances
  BY <1>1, ElementOfSeq
<1> QED
  BY <1>1, <1>2 DEF Instances, Kinds

\* A fetch begins with nothing read.
LEMMA FetchingFacts ==
    ASSUME NEW kind \in Kinds
    PROVE  LET w == Fetching(kind) IN
           w \in WorkerRecs /\ w.pc = "fetch" /\ w.got = <<>> /\ w.step \in StepsOf(kind) /\ Got(kind, w)
<1> DEFINE w == Fetching(kind)
<1>1. FirstStep(kind) \in AllSteps /\ FirstStep(kind) \in StepsOf(kind)
  BY DEF FirstStep, AllSteps, StepsOf, Kinds
<1>2. 1 \in 1..MaxPages /\ <<>> \in Seq(Entry) /\ NoDelay \in [lo : Nat, hi : Nat]
  BY PagesAssumption DEF NoDelay
<1>3. w \in WorkerRecs /\ w.pc = "fetch" /\ w.got = <<>> /\ w.step = FirstStep(kind)
  BY <1>1, <1>2 DEF Fetching, WorkerRecs
<1> HIDE DEF w
<1>4. Got(kind, w)
  BY <1>3 DEF Got
<1> QED
  BY <1>1, <1>3, <1>4 DEF w

\* NoWorker is a worker record.
LEMMA NoWorkerFacts == NoWorker \in WorkerRecs /\ NoWorker.pc = "none"
<1> DEFINE w == Fetching("hass")
<1>1. w \in WorkerRecs
  BY FetchingFacts DEF Kinds
<1>2. NoWorker = [w EXCEPT !.pc = "none"]
  BY DEF NoWorker
<1> HIDE DEF w
<1> QED
  BY <1>1, <1>2 DEF WorkerRecs

\* Steps beside the worker, and those in which it gets a token, leave the loop as it is.
LEMMA WorkerStays ==
    ASSUME Inv, WInv, KindsKept, UNCHANGED <<conf, current, wk, showVars>>,
           up' \in [Items -> Statuses \cup {"absent"}], author' \in [Items -> Users \cup {"other"}],
           rq'[Worker] \in RequestRecs, rq'[Worker].pc = "none" <=> rq[Worker].pc = "none",
           rq[Worker].pc # "none" => rq'[Worker].inst = rq[Worker].inst,
           rq'[Worker].pc \in {"token", "force"} => KindOf(Worker) = "oauth"
    PROVE  WInv' /\ Passes
<1>1. WorkerShape /\ Running /\ Got(InitProvider(conf), wk) /\ ShownInOrder /\ RetryBounded
  BY DEF WInv
<1>2. WorkerShape'
  BY <1>1 DEF WorkerShape, showVars
<1>3. current # 0 => current \in 1..Len(insts) /\ insts'[current].kind = insts[current].kind
  BY DEF Inv, Shape, KindsKept
<1>4. rq'[Worker].pc \in {"token", "force"} => KindOf(Worker)' = "oauth"
  <2> SUFFICES ASSUME rq'[Worker].pc \in {"token", "force"} PROVE KindOf(Worker)' = "oauth"
    OBVIOUS
  <2>1. rq[Worker].pc # "none" /\ rq'[Worker].inst = rq[Worker].inst /\ KindOf(Worker) = "oauth"
    OBVIOUS
  <2>2. rq[Worker].inst = current /\ current # 0
    BY <1>1, <2>1 DEF Running
  <2> QED
    BY <1>3, <2>1, <2>2 DEF KindOf
<1>5. Running'
  BY <1>1, <1>3, <1>4 DEF Running
<1>6. Got(InitProvider(conf), wk)' /\ ShownInOrder' /\ RetryBounded'
  BY <1>1 DEF Got, ShownInOrder, RetryBounded, showVars
<1> QED
  BY <1>2, <1>5, <1>6 DEF WInv, Passes, showVars

\* So do the steps of a display's request.
LEMMA BesideW ==
    ASSUME Inv, WInv, NEW u \in Users, Beside(u)
    PROVE  WInv' /\ Passes
<1>1. u # Worker /\ rq = [x \in Procs |-> rq[x]] /\ Worker \in Procs /\ user[u] \in ActionRecs
  BY UsersAssumption DEF Inv, Shape, Procs, Worker
<1>2. rq'[Worker] = rq[Worker]
  BY <1>1 DEF Beside
<1>3. WorkerShape /\ Running
  BY DEF WInv
<1>4. up' \in [Items -> Statuses \cup {"absent"}] /\ author' \in [Items -> Users \cup {"other"}]
  <2>1. CASE UNCHANGED upVars
    BY <1>3, <2>1 DEF WorkerShape, upVars
  <2>2. CASE Execute(u)
    <3>1. user[u].want \in Statuses
      BY <1>1 DEF ActionRecs
    <3> QED
      BY <1>3, <2>2, <3>1 DEF Execute, WorkerShape
  <2> QED
    BY <2>1, <2>2 DEF Beside
<1>5. /\ rq'[Worker] \in RequestRecs
      /\ rq'[Worker].pc \in {"token", "force"} => KindOf(Worker) = "oauth"
  BY <1>2, <1>3 DEF WorkerShape, Running
<1> QED
  BY <1>2, <1>4, <1>5, WorkerStays DEF Beside

\* The worker gets its token, or is to get a new one.
LEMMA WorkerAsks ==
    ASSUME Inv, WInv, KindsKept, UNCHANGED <<conf, current, wk, showVars, upVars>>,
           rq[Worker].pc # "none", NEW r, rq' = [rq EXCEPT ![Worker] = r], r \in RequestRecs, r.pc # "none",
           r.inst = rq[Worker].inst, r.pc = "force" => KindOf(Worker) = "oauth", r.pc # "token"
    PROVE  WInv' /\ Passes
<1>1. rq = [x \in Procs |-> rq[x]] /\ Worker \in Procs
  BY DEF Inv, Shape, Procs
<1>2. rq'[Worker] = r
  BY <1>1
<1>3. up' \in [Items -> Statuses \cup {"absent"}] /\ author' \in [Items -> Users \cup {"other"}]
  BY DEF WInv, WorkerShape, upVars
<1>4. rq'[Worker].pc \in {"token", "force"} => KindOf(Worker) = "oauth"
  BY <1>2
<1> QED
  BY <1>2, <1>3, <1>4, WorkerStays

\* The fetch has its answer: it goes on with what is so now, or fails and waits.
LEMMA FetchAnsweredW ==
    ASSUME Inv, WInv, rq[Worker].pc # "none", NEW ans, FetchAnswered(ans),
           UNCHANGED <<conf, upVars, insts, current>>
    PROVE  WInv' /\ Passes
<1> DEFINE kind == InitProvider(conf)
<1>0. WorkerShape /\ Running /\ Got(kind, wk) /\ ShownInOrder /\ wk \in WorkerRecs
  BY DEF WInv, WorkerShape
<1>1. wk.pc = "fetch" /\ rq[Worker].inst = current /\ current # 0 /\ wk.step \in StepsOf(kind)
  BY <1>0 DEF Running
<1>2. /\ current \in 1..Len(insts) /\ insts \in Seq(Instances) /\ insts[current].kind = kind /\ kind \in Kinds
      /\ KindOf(Worker) = kind
  BY <1>1, WorkerKind DEF KindOf
<1>3. rq = [x \in Procs |-> rq[x]] /\ Worker \in Procs
  BY DEF Inv, Shape, Procs
<1>4. NoRequest \in RequestRecs /\ NoRequest.pc = "none"
  BY DEF NoRequest, RequestRecs
<1> HIDE DEF kind
<1> DEFINE w == NextStep(kind, ans)
<1>5. CASE w.pc = "failed"
  <2> DEFINE d == ComputeRetryDelay(ans, failures + 1)
  <2>1. /\ failures' \in {failures, failures + 1} /\ status' = "failing"
        /\ wk' = [wk EXCEPT !.pc = "wait", !.delay = d]
        /\ rq' = [rq EXCEPT ![Worker] = NoRequest] /\ shown' = shown
    BY <1>2, <1>5 DEF FetchAnswered, FetchFailed
  <2>2. failures + 1 \in Nat /\ failures + 1 # 0
    BY <1>0 DEF WorkerShape
  <2>3. DelayInOrder(d)
    BY <2>2, DelayFacts
  <2> HIDE DEF d
  <2>4. wk' \in WorkerRecs /\ wk'.pc = "wait" /\ wk'.delay = d
    BY <1>0, <2>1, <2>3 DEF WorkerRecs, DelayInOrder
  <2>5. rq'[Worker] = NoRequest
    BY <1>3, <2>1
  <2>6. WorkerShape'
    BY <1>0, <1>4, <2>1, <2>2, <2>4, <2>5 DEF WorkerShape, upVars
  <2>7. Running'
    BY <1>0, <1>1, <1>4, <2>4, <2>5 DEF Running
  <2>8. Got(InitProvider(conf), wk)' /\ RetryBounded' /\ ShownInOrder'
    BY <1>0, <2>1, <2>3, <2>4 DEF Got, RetryBounded, DelayInOrder, ShownInOrder
  <2> QED
    BY <2>1, <2>4, <2>6, <2>7, <2>8 DEF WInv, Passes
<1>6. CASE w.pc # "failed"
  <2>1. /\ wk' = w /\ UNCHANGED showVars
        /\ rq' = [rq EXCEPT ![Worker] = IF w.pc = "fetch" THEN NewRequest(rq[Worker].inst, insts) ELSE NoRequest]
    BY <1>2, <1>6 DEF FetchAnswered
  <2>2. Moved(kind, w)
    BY <1>0, <1>1, <1>2, <1>6, NextStepFacts
  <2> HIDE DEF w
  <2>3. /\ w \in WorkerRecs /\ w.pc \in {"fetch", "record"} /\ Got(kind, w)
        /\ w.pc = "fetch" => w.step \in StepsOf(kind)
        /\ \A k \in DOMAIN w.got : (\E j \in DOMAIN wk.got : w.got[k] = wk.got[j]) \/ up[w.got[k].id] = w.got[k].st
    BY <2>2 DEF Moved
  <2> DEFINE r == NewRequest(current, insts)
  <2>4. /\ r \in RequestRecs /\ r.inst = current /\ r.pc \in {"token", "send"}
        /\ r.pc = "token" => insts[current].kind = "oauth"
    BY <1>2, NewRequestFacts
  <2>5. rq'[Worker] = IF w.pc = "fetch" THEN r ELSE NoRequest
    BY <1>1, <1>3, <2>1
  <2> HIDE DEF r
  <2>6. WorkerShape'
    BY <1>0, <1>4, <2>1, <2>3, <2>4, <2>5 DEF WorkerShape, upVars, showVars
  <2>7. Running'
    <3>1. KindOf(Worker)' = insts[rq'[Worker].inst].kind
      BY DEF KindOf
    <3> QED
      BY <1>0, <1>1, <1>2, <1>4, <2>1, <2>3, <2>4, <2>5, <3>1 DEF Running, kind
  <2>8. Got(InitProvider(conf), wk)' /\ RetryBounded' /\ ShownInOrder'
    BY <1>0, <2>1, <2>3 DEF Got, RetryBounded, ShownInOrder, kind, showVars
  <2> QED
    BY <1>1, <2>1, <2>3, <2>6, <2>7, <2>8 DEF WInv, Passes
<1> QED
  BY <1>5, <1>6

\* An answer to the worker, which may have to make the request again.
LEMMA WorkerAnsweredW ==
    ASSUME Inv, WInv, rq[Worker].pc # "none", NEW ans, NEW a, AfterAnswer(Worker, ans, a),
           UNCHANGED <<conf, upVars, insts, current>>
    PROVE  WInv' /\ Passes
<1>1. CASE Retries(Worker, ans)
  <2> DEFINE r == RetryRequest(rq[Worker])
  <2>1. rq' = [rq EXCEPT ![Worker] = r] /\ UNCHANGED <<wk, showVars>>
    BY <1>1 DEF AfterAnswer
  <2>2. rq[Worker] \in RequestRecs /\ KindOf(Worker) = "oauth"
    BY <1>1 DEF WInv, WorkerShape, Retries
  <2>3. r \in RequestRecs /\ r.pc = "force" /\ r.inst = rq[Worker].inst
    BY <2>2 DEF RetryRequest, RequestRecs
  <2> HIDE DEF r
  <2> QED
    BY <2>1, <2>2, <2>3, SameKinds, WorkerAsks DEF Inv
<1>2. CASE ~Retries(Worker, ans)
  <2>1. FetchAnswered(ans)
    BY <1>2 DEF AfterAnswer
  <2> QED
    BY <2>1, FetchAnsweredW
<1> QED
  BY <1>1, <1>2

\* A fetch of the configured provider begins.
LEMMA StartsW ==
    ASSUME Inv, WInv, conf' \in Confs, conf'.source = conf.source, UNCHANGED upVars, insts' \in Seq(Instances),
           current' \in 1..Len(insts'), insts'[current'].kind = InitProvider(conf)',
           wk' = Fetching(InitProvider(conf)'), rq' = [rq EXCEPT ![Worker] = NewRequest(current', insts')],
           failures' \in Nat, shown' = shown \/ shown' = <<>>
    PROVE  WInv' /\ Passes
<1> DEFINE kind == InitProvider(conf)'
           r == NewRequest(current', insts')
           w == Fetching(kind)
<1>1. insts'[current'] \in Instances /\ insts'[current'].kind = kind
  BY ElementOfSeq
<1>2. kind \in Kinds
  BY <1>1 DEF Instances, Kinds
<1>3. w \in WorkerRecs /\ w.pc = "fetch" /\ w.got = <<>> /\ w.step \in StepsOf(kind) /\ Got(kind, w)
  BY <1>2, FetchingFacts
<1>4. /\ r \in RequestRecs /\ r.inst = current' /\ r.pc \in {"token", "send"}
      /\ r.pc = "token" => insts'[current'].kind = "oauth"
  BY NewRequestFacts
<1>5. rq'[Worker] = r
  BY DEF Inv, Shape, Procs
<1>6. wk' = w
  OBVIOUS
<1> HIDE DEF r, w
<1>7. WorkerShape'
  <2>1. WorkerShape
    BY DEF WInv
  <2>2. shown' \in Seq(Entry)
    <3>1. shown \in Seq(Entry) /\ <<>> \in Seq(Entry)
      BY <2>1 DEF WorkerShape
    <3> QED
      BY <3>1, Zenon
  <2>3. up' = up /\ author' = author
    BY DEF upVars
  <2> QED
    BY <1>3, <1>4, <1>5, <1>6, <2>1, <2>2, <2>3 DEF WorkerShape
<1>8. Running'
  <2>1. KindOf(Worker)' = insts'[current'].kind
    BY <1>4, <1>5 DEF KindOf
  <2> QED
    BY <1>1, <1>3, <1>4, <1>5, <1>6, <2>1 DEF Running
<1>9. Got(InitProvider(conf), wk)' /\ RetryBounded'
  BY <1>3, <1>6 DEF Got, RetryBounded
<1>10. ShownInOrder'
  BY DEF WInv, ShownInOrder, Distinct, TreeOrder
<1> QED
  BY <1>3, <1>6, <1>7, <1>8, <1>9, <1>10 DEF WInv, Passes

\* The worker's timer fires, or it takes a refresh.
LEMMA StartFetchW ==
    ASSUME Inv, WInv, wk.pc = "wait", StartFetch, UNCHANGED <<conf, upVars, insts, current, showVars>>
    PROVE  WInv' /\ Passes
<1>1. current # 0
  BY DEF WInv, Running
<1>2. current \in 1..Len(insts) /\ insts \in Seq(Instances) /\ insts[current].kind = InitProvider(conf)
  BY <1>1, WorkerKind
<1>3. conf \in Confs /\ failures \in Nat
  BY DEF WInv, WorkerShape
<1>4. InitProvider(conf)' = InitProvider(conf)
  OBVIOUS
<1>5. wk' = Fetching(InitProvider(conf)') /\ rq' = [rq EXCEPT ![Worker] = NewRequest(current', insts')]
  BY <1>2, <1>4 DEF StartFetch
<1>6. current' \in 1..Len(insts') /\ insts' \in Seq(Instances) /\ insts'[current'].kind = InitProvider(conf)'
  BY <1>2, <1>4
<1> QED
  BY <1>3, <1>5, <1>6, StartsW DEF showVars

\* What was read is recorded, and shown in order.
LEMMA RecordW ==
    ASSUME Inv, WInv, Record
    PROVE  WInv' /\ Passes
<1> DEFINE kind == InitProvider(conf)
           d == ComputeRetryDelay("ok", 0)
<1>0. /\ WorkerShape /\ Running /\ Got(kind, wk) /\ wk \in WorkerRecs /\ wk.pc = "record" /\ current # 0
      /\ wk.got \in Seq(Entry) /\ conf \in Confs
  BY DEF WInv, WorkerShape, Record, Running, WorkerRecs
<1>1. insts[current].kind = kind /\ kind \in Kinds
  BY <1>0, WorkerKind
<1>2. /\ wk' = [wk EXCEPT !.pc = "wait", !.got = <<>>, !.delay = d] /\ failures' = 0
      /\ UNCHANGED <<conf, up, author, rq, insts, current>>
  BY DEF Record, upVars, netVars
<1>3. PICK list \in Ordered(kind, wk.got) : shown' \in IF IsTasks(kind) THEN BuildSnapshot(list) ELSE {list}
  BY <1>1 DEF Record
<1>4. DelayInOrder(d)
  BY DelayFacts
<1> HIDE DEF d
<1>5. /\ shown' \in Seq(Entry) /\ Within(shown', wk.got)
      /\ kind # "hass" => Distinct(shown') /\ TreeOrder(shown')
      /\ kind = "hass" /\ OwnCards => Distinct(shown')
  <2>1. CASE kind = "hass"
    <3>1. shown' = wk.got
      BY <1>3, <2>1 DEF IsTasks, Ordered
    <3>2. OwnCards => Distinct(wk.got)
      BY <1>0, <2>1 DEF Got
    <3> QED
      BY <1>0, <2>1, <3>1, <3>2 DEF Within
  <2>2. CASE kind # "hass"
    <3>1. kind \in {"gtasks", "oauth", "todoist"} /\ (kind = "todoist" => DoneOnce(wk.got))
      BY <1>0, <1>1, <2>2 DEF Kinds, Got
    <3>2. list \in Seq(Entry) /\ Within(list, wk.got) /\ Distinct(list) /\ TreeOrder(list)
      BY <1>0, <3>1, OrderedFacts
    <3>3. shown' \in BuildSnapshot(list)
      BY <1>3, <2>2 DEF IsTasks
    <3>4. shown' \in Seq(Entry) /\ Within(shown', list) /\ Distinct(shown') /\ TreeOrder(shown')
      BY <3>2, <3>3, SnapshotFacts
    <3>5. Within(shown', wk.got)
      BY <3>2, <3>4 DEF Within
    <3> QED
      BY <2>2, <3>4, <3>5
  <2> QED
    BY <2>1, <2>2
<1>6. wk' \in WorkerRecs /\ wk'.pc = "wait" /\ wk'.delay = d /\ wk'.got = <<>>
  <2>1. d \in [lo : Nat, hi : Nat]
    BY <1>4 DEF DelayInOrder
  <2>2. <<>> \in Seq(Entry)
    OBVIOUS
  <2>3. wk \in WorkerRecs /\ wk' = [wk EXCEPT !.pc = "wait", !.got = <<>>, !.delay = d]
    BY <1>0, <1>2
  <2> QED
    BY <2>1, <2>2, <2>3 DEF WorkerRecs
<1>7. WorkerShape'
  BY <1>0, <1>2, <1>5, <1>6 DEF WorkerShape
<1>8. Running'
  <2>1. rq[Worker].pc = "none"
    BY <1>0 DEF Running
  <2>2. rq' = rq /\ current' = current /\ insts' = insts /\ InitProvider(conf)' = InitProvider(conf)
    BY <1>2
  <2> QED
    BY <1>0, <1>6, <2>1, <2>2 DEF Running
<1>9. Got(InitProvider(conf), wk)' /\ RetryBounded'
  BY <1>4, <1>6 DEF Got, RetryBounded, DelayInOrder
<1>10. conf.source # "hass" => kind # "hass"
  BY <1>0, ProviderKinds
<1>11. ShownInOrder'
  BY <1>2, <1>5, <1>10 DEF ShownInOrder
<1> QED
  BY <1>0, <1>2, <1>5, <1>6, <1>7, <1>8, <1>9, <1>11 DEF WInv, Passes

\* A reload ends the worker or starts another one, with the data or without.
LEMMA ReloadW ==
    ASSUME Inv, WInv, NEW c \in Confs, Reload(c)
    PROVE  WInv' /\ Passes
<1>1. /\ conf' = c /\ c.source = conf.source /\ UNCHANGED upVars
      /\ shown' = shown \/ shown' = <<>>
  BY DEF Reload
<1>2. failures' \in Nat
  <2>1. failures \in Nat
    BY DEF WInv, WorkerShape
  <2> QED
    BY <2>1 DEF Reload
<1>3. InitProvider(c) \in Kinds \cup {"error"}
  BY ProviderKinds
<1>4. insts \in Seq(Instances) /\ rq = [x \in Procs |-> rq[x]] /\ Worker \in Procs /\ WorkerShape
  BY DEF Inv, Shape, WInv, Procs
<1>5. CASE InitProvider(c) = "error"
  <2>1. insts' = insts /\ current' = 0 /\ wk' = NoWorker /\ rq' = [rq EXCEPT ![Worker] = NoRequest]
    BY <1>5 DEF Reload
  <2>2. rq'[Worker] = NoRequest
    BY <1>4, <2>1
  <2>3. NoRequest \in RequestRecs /\ NoRequest.pc = "none"
    BY DEF NoRequest, RequestRecs
  <2>4. NoWorker \in WorkerRecs /\ NoWorker.pc = "none"
    BY NoWorkerFacts
  <2>5. shown' \in Seq(Entry)
    <3>1. shown \in Seq(Entry) /\ <<>> \in Seq(Entry)
      BY <1>4 DEF WorkerShape
    <3> QED
      BY <1>1, <3>1, Zenon
  <2>6. WorkerShape'
    BY <1>1, <1>2, <1>4, <2>1, <2>2, <2>3, <2>4, <2>5 DEF WorkerShape, upVars
  <2>7. Running'
    BY <2>1, <2>2, <2>3, <2>4 DEF Running
  <2>8. Got(InitProvider(conf), wk)' /\ RetryBounded'
    BY <2>1, <2>4 DEF Got, RetryBounded
  <2>9. ShownInOrder'
    BY <1>1 DEF WInv, ShownInOrder, Distinct, TreeOrder
  <2> QED
    BY <2>1, <2>6, <2>7, <2>8, <2>9 DEF WInv, Passes
<1>6. CASE InitProvider(c) # "error"
  <2> DEFINE e == NewInstance(c)
  <2>1. /\ insts' = Append(insts, e) /\ current' = Len(insts') /\ wk' = Fetching(InitProvider(c))
        /\ rq' = [rq EXCEPT ![Worker] = NewRequest(current', insts')]
    BY <1>6 DEF Reload
  <2>2. e \in Instances /\ e.kind = InitProvider(c)
    BY <1>3, <1>6 DEF NewInstance, Instances, Kinds
  <2> HIDE DEF e
  <2>3. insts' \in Seq(Instances) /\ Len(insts') = Len(insts) + 1 /\ insts'[Len(insts) + 1] = e
    BY <1>4, <2>1, <2>2, AppendProperties
  <2>4. current' \in 1..Len(insts') /\ insts'[current'].kind = InitProvider(c)
    BY <1>4, <2>1, <2>2, <2>3, LenProperties
  <2>5. InitProvider(conf)' = InitProvider(c)
    BY <1>1 DEF InitProvider, InitGTasks, InitTodoist, InitHass
  <2> QED
    BY <1>1, <1>2, <2>1, <2>3, <2>4, <2>5, StartsW
<1> QED
  BY <1>5, <1>6

\* Google revokes the tokens: the worker finds out when it is answered.
LEMMA RevokeTokensW ==
    ASSUME Inv, WInv, RevokeTokens
    PROVE  WInv' /\ Passes
<1>1. /\ UNCHANGED <<conf, current, wk, showVars>> /\ up' = up /\ author' = author
  BY DEF RevokeTokens, upVars
<1>2. KindsKept
  <2>1. /\ insts' = [n \in DOMAIN insts |-> [insts[n] EXCEPT !.cached = IF @ = "none" THEN @ ELSE "bad"]]
        /\ insts \in [1..Len(insts) -> Instances] /\ Len(insts) \in Nat /\ DOMAIN insts = 1..Len(insts)
    BY DEF RevokeTokens, Inv, Shape
  <2>2. \A n \in 1..Len(insts) : insts'[n] \in Instances /\ insts'[n].kind = insts[n].kind
    BY <2>1 DEF Instances
  <2>3. insts' \in [1..Len(insts) -> Instances]
    BY <2>1, <2>2
  <2>4. insts' \in Seq(Instances) /\ Len(insts') = Len(insts)
    BY <2>1, <2>3, SeqDef, LenProperties
  <2> QED
    BY <2>1, <2>2, <2>4 DEF KindsKept
<1>3. rq[Worker] \in RequestRecs /\ WorkerShape /\ Running /\ Worker \in Procs
  BY DEF WInv, WorkerShape, Procs
<1>4. rq'[Worker] = rq[Worker] \/ rq'[Worker] = [rq[Worker] EXCEPT !.tok = "bad"]
  BY <1>3 DEF RevokeTokens
<1>5. rq'[Worker] \in RequestRecs /\ rq'[Worker].pc = rq[Worker].pc /\ rq'[Worker].inst = rq[Worker].inst
  BY <1>3, <1>4 DEF RequestRecs
<1>6. rq'[Worker].pc \in {"token", "force"} => KindOf(Worker) = "oauth"
  BY <1>3, <1>5 DEF Running
<1>7. up' \in [Items -> Statuses \cup {"absent"}] /\ author' \in [Items -> Users \cup {"other"}]
  BY <1>1, <1>3 DEF WorkerShape
<1> QED
  BY <1>1, <1>2, <1>5, <1>6, <1>7, WorkerStays

\* A token expires, or somebody changes an item.
LEMMA AroundW ==
    ASSUME Inv, WInv,
           \/ \E n \in DOMAIN insts : ExpireToken(n)
           \/ \E i \in Items, st \in Statuses \cup {"absent"} : EditUpstream(i, st)
           \/ UNCHANGED vars
    PROVE  WInv' /\ Passes
<1>0. WorkerShape /\ Running
  BY DEF WInv
<1>1. UNCHANGED <<conf, current, wk, showVars, rq>>
  BY DEF ExpireToken, EditUpstream, vars, netVars
<1>2. KindsKept
  <2>1. ASSUME NEW n \in DOMAIN insts, ExpireToken(n) PROVE KindsKept
    <3>1. insts' = [insts EXCEPT ![n].cached = "none"]
      BY <2>1 DEF ExpireToken
    <3> QED
      BY <3>1, CachedKinds DEF Inv
  <2>2. CASE insts' = insts
    BY <2>2, SameKinds DEF Inv
  <2> QED
    BY <2>1, <2>2 DEF EditUpstream, vars, netVars
<1>3. up' \in [Items -> Statuses \cup {"absent"}] /\ author' \in [Items -> Users \cup {"other"}]
  BY <1>0 DEF ExpireToken, EditUpstream, vars, upVars, WorkerShape
<1>4. /\ rq'[Worker] \in RequestRecs
      /\ rq'[Worker].pc \in {"token", "force"} => KindOf(Worker) = "oauth"
  BY <1>0, <1>1 DEF WorkerShape, Running
<1> QED
  BY <1>1, <1>2, <1>3, <1>4, WorkerStays

\* The worker uses the cached token or gets a new one.
LEMMA WorkerTokenW ==
    ASSUME Inv, WInv, UseCachedToken(Worker) \/ RefreshToken(Worker)
    PROVE  WInv' /\ Passes
<1>0. rq[Worker] \in RequestRecs /\ rq[Worker].pc # "none" /\ WorkerShape /\ Running
  BY DEF WInv, WorkerShape, UseCachedToken, RefreshToken, NeedsToken
<1>1. UNCHANGED <<conf, current, wk, showVars, upVars>>
  BY DEF UseCachedToken, RefreshToken
<1>2. CASE UseCachedToken(Worker)
  <2> DEFINE r == [rq[Worker] EXCEPT !.pc = "send", !.tok = insts[rq[Worker].inst].cached]
  <2>1. rq' = [rq EXCEPT ![Worker] = r] /\ insts' = insts
    BY <1>2 DEF UseCachedToken
  <2>2. rq[Worker].inst = current /\ current \in 1..Len(insts) /\ insts \in Seq(Instances)
    BY <1>0 DEF Running, Inv, Shape
  <2>3. insts[rq[Worker].inst] \in Instances
    BY <2>2, ElementOfSeq
  <2>4. r \in RequestRecs /\ r.pc = "send" /\ r.inst = rq[Worker].inst
    BY <1>0, <2>3 DEF RequestRecs, Instances
  <2> HIDE DEF r
  <2> QED
    BY <1>0, <1>1, <2>1, <2>4, SameKinds, WorkerAsks DEF Inv
<1>3. CASE RefreshToken(Worker)
  <2> DEFINE r == [rq[Worker] EXCEPT !.pc = "send", !.tok = "good", !.retry = @ \/ rq[Worker].pc = "force"]
             n == rq[Worker].inst
  <2>1. rq' = [rq EXCEPT ![Worker] = r] /\ insts' = [insts EXCEPT ![n].cached = "good"]
    BY <1>3 DEF RefreshToken
  <2>2. r \in RequestRecs /\ r.pc = "send" /\ r.inst = rq[Worker].inst
    BY <1>0 DEF RequestRecs
  <2> HIDE DEF r, n
  <2>3. KindsKept
    BY <2>1, CachedKinds DEF Inv
  <2> QED
    BY <1>0, <1>1, <2>1, <2>2, <2>3, WorkerAsks
<1> QED
  BY <1>2, <1>3

\* Every step of the worker's.
LEMMA WorkerStepW ==
    ASSUME Inv, WInv, WorkerSteps \/ TokenFails(Worker) \/ \E ans \in Errors : Fails(Worker, ans)
    PROVE  WInv' /\ Passes
<1>1. CASE Served
  BY <1>1, WorkerAnsweredW DEF Served
<1>2. CASE Poll \/ TakeRefresh
  BY <1>2, StartFetchW DEF Poll, TakeRefresh
<1>3. CASE Record
  BY <1>3, RecordW
<1>4. CASE UseCachedToken(Worker) \/ RefreshToken(Worker)
  BY <1>4, WorkerTokenW
<1>5. CASE Refused(Worker)
  <2>1. rq[Worker].pc # "none" /\ AfterAnswer(Worker, "401", RequestOf(Worker)) /\ UNCHANGED <<conf, upVars, insts, current>>
    BY <1>5 DEF Refused
  <2> QED
    BY <2>1, WorkerAnsweredW
<1>6. CASE TokenFails(Worker)
  <2>1. rq[Worker].pc # "none" /\ UNCHANGED <<conf, upVars, insts, current>>
    BY <1>6 DEF TokenFails, NeedsToken
  <2>2. FetchAnswered("401") \/ FetchAnswered("net")
    BY <1>6 DEF TokenFails
  <2> QED
    BY <2>1, <2>2, FetchAnsweredW
<1>7. ASSUME NEW ans \in Errors, Fails(Worker, ans) PROVE WInv' /\ Passes
  <2>1. rq[Worker].pc # "none" /\ AfterAnswer(Worker, ans, Troubled(Worker)) /\ UNCHANGED <<conf, upVars, insts, current>>
    BY <1>7 DEF Fails
  <2> QED
    BY <2>1, WorkerAnsweredW
<1> QED
  BY <1>1, <1>2, <1>3, <1>4, <1>5, <1>6, <1>7 DEF WorkerSteps, Requests

-----------------------------------------------------------------------------
(* No refresh is lost.                                                     *)

\* A refresh stays queued until a fetch begins or the worker is gone.
QueueKept == refreshCh => refreshCh' \/ current' = 0 \/ (wk'.pc = "fetch" /\ wk'.got = <<>>)

\* What is so upstream is read right by every step of the worker.
LEMMA RightKept ==
    ASSUME WInv, WInv', Passes, QueueKept, NEW i, NEW st, up[i] = st, Right(i, st)
    PROVE  Right(i, st)'
<1>0. wk.got \in Seq(Entry) /\ wk'.got \in Seq(Entry) /\ (wk.pc = "none" <=> current = 0)
  BY DEF WInv, WorkerShape, WorkerRecs, Running
<1>1. CASE refreshCh
  <2>1. CASE wk'.pc = "fetch" /\ wk'.got = <<>>
    <3>1. ToSet(wk'.got) = {}
      BY <2>1 DEF ToSet
    <3> QED
      BY <2>1, <3>1 DEF Right, ReadsRight
  <2> QED
    BY <1>1, <2>1 DEF QueueKept, Right
<1>2. CASE ~refreshCh /\ current' # 0
  <2>1. CASE wk'.pc = "wait" /\ status' = "failing"
    BY <2>1 DEF Right
  <2>2. CASE wk'.pc = "fetch" /\ wk'.got = <<>>
    <3>1. ToSet(wk'.got) = {}
      BY <2>2 DEF ToSet
    <3> QED
      BY <2>2, <3>1 DEF Right, ReadsRight
  <2>3. CASE UNCHANGED <<wk, current, shown, status>>
    <3>1. ReadsRight(i, st)' = ReadsRight(i, st) /\ ShownOtherwise(i, st)' = ShownOtherwise(i, st)
      BY <2>3 DEF ReadsRight, ShownOtherwise
    <3> QED
      BY <1>2, <2>3, <3>1 DEF Right
  <2>4. CASE /\ wk.pc = "fetch" /\ wk'.pc \in {"fetch", "record"} /\ current' = current
             /\ \A k \in DOMAIN wk'.got :
                  (\E j \in DOMAIN wk.got : wk'.got[k] = wk.got[j]) \/ up[wk'.got[k].id] = wk'.got[k].st
    <3>1. \A e \in ToSet(wk.got) : e.id = i => e.st = st
      BY <1>0, <1>2, <2>4 DEF Right, ReadsRight
    <3>2. ASSUME NEW e \in ToSet(wk'.got), e.id = i PROVE e.st = st
      <4>1. PICK k \in DOMAIN wk'.got : e = wk'.got[k]
        BY DEF ToSet
      <4>2. CASE \E j \in DOMAIN wk.got : wk'.got[k] = wk.got[j]
        BY <3>1, <3>2, <4>1, <4>2 DEF ToSet
      <4>3. CASE up[wk'.got[k].id] = wk'.got[k].st
        BY <3>2, <4>1, <4>3
      <4> QED
        BY <2>4, <4>2, <4>3
    <3> QED
      BY <2>4, <3>2 DEF Right, ReadsRight
  <2>5. CASE /\ wk.pc = "record" /\ wk'.pc = "wait" /\ current' = current
             /\ Within(shown', wk.got)
    <3>1. \A e \in ToSet(wk.got) : e.id = i => e.st = st
      BY <1>0, <1>2, <2>5 DEF Right, ReadsRight
    <3>2. ASSUME NEW e \in ToSet(shown'), e.id = i PROVE e.st = st
      <4>1. PICK k \in DOMAIN shown' : e = shown'[k]
        BY DEF ToSet
      <4>2. PICK j \in DOMAIN wk.got : shown'[k] = wk.got[j]
        BY <2>5 DEF Within
      <4> QED
        BY <3>1, <3>2, <4>1, <4>2 DEF ToSet
    <3> QED
      BY <2>5, <3>2 DEF Right, ShownOtherwise
  <2> QED
    BY <1>2, <2>1, <2>2, <2>3, <2>4, <2>5 DEF Passes
<1>3. CASE current' = 0
  BY <1>3 DEF Right
<1> QED
  BY <1>1, <1>2, <1>3

\* A display that was told so before the step, about an item that nobody else has changed.
LEMMA RereadsKept ==
    ASSUME WInv, WInv', Passes, QueueKept, NEW u \in Users, About(u), Rereads(u),
           /\ user'[u].pc = user[u].pc /\ user'[u].code = user[u].code
           /\ user'[u].item = user[u].item /\ user'[u].want = user[u].want,
           \A i \in Items : author'[i] = u => author[i] = u /\ up'[i] = up[i]
    PROVE  About(u)' /\ Rereads(u)'
<1>1. About(u)'
  BY DEF About
<1>2. Rereads(u)'
  <2> DEFINE i == user[u].item
             st == user[u].want
  <2> SUFFICES ASSUME user'[u].code = 200, author'[i] = u, up'[i] = st PROVE Right(i, st)'
    BY DEF Rereads
  <2>1. i \in Items
    BY DEF About
  <2>2. author[i] = u /\ up[i] = st
    BY <2>1
  <2>3. Right(i, st)
    BY <2>2 DEF Rereads
  <2>4. i = i' /\ st = st'
    OBVIOUS
  <2> HIDE DEF i, st
  <2> QED
    BY <2>2, <2>3, <2>4, RightKept
<1> QED
  BY <1>1, <1>2

\* Steps that leave the displays' requests alone, all of them.
LEMMA AllReread ==
    ASSUME WInv, WInv', Passes, QueueKept, RInv,
           \A u \in Users : /\ user'[u].pc = user[u].pc /\ user'[u].code = user[u].code
                            /\ user'[u].item = user[u].item /\ user'[u].want = user[u].want,
           \A u \in Users, i \in Items : author'[i] = u => author[i] = u /\ up'[i] = up[i]
    PROVE  RInv'
<1> SUFFICES ASSUME NEW u \in Users PROVE About(u)' /\ Rereads(u)'
  BY DEF RInv
<1>1. About(u) /\ Rereads(u)
  BY DEF RInv
<1> QED
  BY <1>1, RereadsKept

\* The step of a display's request: it has queued a refresh, and the items it has
\* changed are not the other displays' any more.
LEMMA BesideR ==
    ASSUME Inv, WInv, WInv', Passes, RInv, NEW u \in Users, Beside(u)
    PROVE  RInv'
<1> SUFFICES ASSUME NEW v \in Users PROVE About(v)' /\ Rereads(v)'
  BY DEF RInv
<1>1. PICK b : user' = [user EXCEPT ![u] = b] /\ Follows(b)
  BY DEF Beside
<1>2. user \in [Users -> ActionRecs] /\ About(u) /\ About(v) /\ Rereads(v) /\ author \in [Items -> Users \cup {"other"}]
  BY DEF Inv, Shape, RInv, WInv, WorkerShape
<1>3. CASE v = u
  <2>1. user'[u] = b /\ current' = current
    BY <1>1, <1>2 DEF Beside
  <2>2. About(u)'
    BY <1>1, <2>1 DEF About, Follows
  <2>3. b.code = 200 => refreshCh' \/ current' = 0
    BY <1>1, <2>1 DEF Follows
  <2>4. Rereads(u)'
    BY <2>1, <2>3 DEF Rereads, Right
  <2> QED
    BY <1>3, <2>2, <2>4
<1>4. CASE v # u
  <2>1. user'[v] = user[v]
    BY <1>1, <1>2, <1>4
  <2>2. ASSUME NEW i \in Items, author'[i] = v PROVE author[i] = v /\ up'[i] = up[i]
    <3>1. CASE UNCHANGED upVars
      BY <2>2, <3>1 DEF upVars
    <3>2. CASE Execute(u)
      <4>1. author' = [author EXCEPT ![user[u].item] = u]
        BY <3>2 DEF Execute
      <4>2. i # user[u].item
        BY <1>2, <1>4, <2>2, <4>1
      <4>3. author'[i] = author[i] /\ up'[i] = up[i]
        BY <1>2, <3>2, <4>2 DEF Execute, WInv, WorkerShape
      <4> QED
        BY <2>2, <4>3
    <3> QED
      BY <3>1, <3>2 DEF Beside
  <2>3. QueueKept
    BY DEF Beside, QueueKept
  <2> QED
    BY <1>2, <2>1, <2>2, <2>3, RereadsKept
<1> QED
  BY <1>3, <1>4

\* A step of the worker's: only a fetch that begins takes a refresh from the queue.
LEMMA WorkerStepR ==
    ASSUME WInv, WInv', Passes, RInv, WorkerSteps \/ TokenFails(Worker) \/ \E ans \in Errors : Fails(Worker, ans)
    PROVE  RInv'
<1>1. CASE TakeRefresh
  <2>1. UNCHANGED <<upVars, user>>
    BY <1>1 DEF TakeRefresh
  <2>2. wk'.pc = "fetch" /\ wk'.got = <<>>
    BY <1>1 DEF TakeRefresh, StartFetch, Fetching
  <2> QED
    BY <2>1, <2>2, AllReread DEF QueueKept, upVars
<1>2. CASE ~TakeRefresh
  <2>1. UNCHANGED <<upVars, refreshCh>>
    BY <1>2 DEF WorkerSteps, Served, Poll, Record, Requests, UseCachedToken, RefreshToken, Refused, TokenFails, Fails
  <2>2. user' = user
    <3>1. ASSUME NEW ans, NEW r, AfterAnswer(Worker, ans, r) PROVE user' = user
      BY <3>1 DEF AfterAnswer
    <3> QED
      BY <1>2, <3>1 DEF WorkerSteps, Served, Poll, Record, Requests, UseCachedToken, RefreshToken, Refused, TokenFails, Fails
  <2> QED
    BY <2>1, <2>2, AllReread DEF QueueKept, upVars
<1> QED
  BY <1>1, <1>2

\* A token that expires is no matter; what others have changed is not promised any more.
LEMMA AroundR ==
    ASSUME Inv, WInv, WInv', Passes, RInv,
           \/ \E n \in DOMAIN insts : ExpireToken(n)
           \/ \E i \in Items, st \in Statuses \cup {"absent"} : EditUpstream(i, st)
           \/ UNCHANGED vars
    PROVE  RInv'
<1>1. user' = user /\ refreshCh' = refreshCh
  BY DEF ExpireToken, EditUpstream, vars
<1>2. ASSUME NEW v \in Users, NEW j \in Items, author'[j] = v PROVE author[j] = v /\ up'[j] = up[j]
  <2>1. CASE UNCHANGED upVars
    BY <1>2, <2>1 DEF upVars
  <2>2. ASSUME NEW i \in Items, NEW st \in Statuses \cup {"absent"}, EditUpstream(i, st)
        PROVE  author[j] = v /\ up'[j] = up[j]
    <3>1. v # "other"
      BY UsersAssumption
    <3>2. author' = [author EXCEPT ![i] = "other"] /\ up' = [up EXCEPT ![i] = st]
      BY <2>2 DEF EditUpstream
    <3>3. author \in [Items -> Users \cup {"other"}] /\ up \in [Items -> Statuses \cup {"absent"}]
      BY DEF WInv, WorkerShape
    <3>4. j # i
      BY <1>2, <3>1, <3>2, <3>3
    <3> QED
      BY <1>2, <3>2, <3>3, <3>4
  <2> QED
    BY <2>1, <2>2 DEF ExpireToken, vars
<1> QED
  BY <1>1, <1>2, AllReread DEF QueueKept

\* Google revokes tokens: the replies that were given stay.
LEMMA RevokeTokensR ==
    ASSUME Inv, WInv, WInv', Passes, RInv, RevokeTokens
    PROVE  RInv'
<1>1. UNCHANGED <<upVars, refreshCh>>
  BY DEF RevokeTokens
<1>2. ASSUME NEW u \in Users
      PROVE  /\ user'[u].pc = user[u].pc /\ user'[u].code = user[u].code
             /\ user'[u].item = user[u].item /\ user'[u].want = user[u].want
  <2>1. user[u] \in ActionRecs
    BY DEF Inv, Shape
  <2>2. user'[u] = user[u] \/ user'[u] = [user[u] EXCEPT !.trouble = TRUE]
    BY DEF RevokeTokens
  <2> QED
    BY <2>1, <2>2 DEF ActionRecs
<1> QED
  BY <1>1, <1>2, AllReread DEF QueueKept, upVars

\* A reload: the new worker reads everything.
LEMMA ReloadR ==
    ASSUME WInv, WInv', Passes, RInv, NEW c \in Confs, Reload(c)
    PROVE  RInv'
<1>1. UNCHANGED <<upVars, user>>
  BY DEF Reload
<1>2. current' = 0 \/ (wk'.pc = "fetch" /\ wk'.got = <<>>)
  BY DEF Reload, Fetching
<1> QED
  BY <1>1, <1>2, AllReread DEF QueueKept, upVars

-----------------------------------------------------------------------------
(* The theorems.                                                           *)

\* At boot nothing was read and nobody was told anything.
LEMMA InitW ==
    ASSUME Init
    PROVE  WInv /\ RInv
<1>0. /\ conf \in Confs /\ up \in [Items -> Statuses \cup {"absent"}] /\ author \in [Items -> Users \cup {"other"}]
      /\ shown = <<>> /\ <<>> \in Seq(Entry)
  BY InitiallyAssumption DEF Init
<1>1. InitProvider(conf) \in Kinds \cup {"error"}
  BY <1>0, ProviderKinds
<1>2. ShownInOrder
  BY <1>0 DEF ShownInOrder, Distinct, TreeOrder
<1>3. Worker \in Procs
  BY DEF Procs
<1>4. RInv
  <2>1. \A u \in Users : user[u].pc = "idle" /\ user[u].code = 0
    BY DEF Init, NoAction
  <2> QED
    BY <2>1 DEF RInv, About, Rereads
<1>5. CASE InitProvider(conf) = "error"
  <2>1. current = 0 /\ wk = NoWorker /\ failures = 1 /\ rq[Worker] = NoRequest
    BY <1>3, <1>5 DEF Init
  <2>2. wk \in WorkerRecs /\ wk.pc = "none"
    BY <2>1, NoWorkerFacts
  <2>3. rq[Worker] \in RequestRecs /\ rq[Worker].pc = "none"
    BY <2>1 DEF NoRequest, RequestRecs
  <2>4. WorkerShape
    BY <1>0, <2>1, <2>2, <2>3 DEF WorkerShape
  <2>5. Running
    BY <2>1, <2>2, <2>3 DEF Running
  <2>6. Got(InitProvider(conf), wk) /\ RetryBounded
    BY <2>2 DEF Got, RetryBounded
  <2> QED
    BY <1>2, <1>4, <2>4, <2>5, <2>6 DEF WInv
<1>6. CASE InitProvider(conf) # "error"
  <2> DEFINE kind == InitProvider(conf)
             e == NewInstance(conf)
  <2>1. kind \in Kinds
    BY <1>1, <1>6
  <2>2. insts = <<e>> /\ current = 1 /\ wk = Fetching(kind) /\ failures = 0 /\ rq[Worker] = NewRequest(1, insts)
    BY <1>3, <1>6 DEF Init
  <2>3. e \in Instances /\ e.kind = kind
    BY <2>1 DEF NewInstance, Instances, Kinds
  <2> HIDE DEF e
  <2>4. insts \in Seq(Instances) /\ 1 \in 1..Len(insts) /\ insts[1].kind = kind
    BY <2>2, <2>3
  <2>5. LET r == NewRequest(1, insts) IN
        r \in RequestRecs /\ r.inst = 1 /\ r.pc \in {"token", "send"} /\ (r.pc = "token" => insts[1].kind = "oauth")
    BY <2>4, NewRequestFacts
  <2>6. /\ rq[Worker] \in RequestRecs /\ rq[Worker].inst = 1 /\ rq[Worker].pc \in {"token", "send"}
        /\ rq[Worker].pc = "token" => insts[1].kind = "oauth"
    BY <2>2, <2>5
  <2>7. wk \in WorkerRecs /\ wk.pc = "fetch" /\ wk.got = <<>> /\ wk.step \in StepsOf(kind) /\ Got(kind, wk)
    BY <2>1, <2>2, FetchingFacts
  <2> HIDE DEF kind
  <2>8. WorkerShape
    BY <1>0, <2>2, <2>6, <2>7 DEF WorkerShape
  <2>9. Running
    BY <2>2, <2>4, <2>6, <2>7 DEF Running, KindOf, kind
  <2>10. RetryBounded
    BY <2>7 DEF RetryBounded
  <2>11. Got(InitProvider(conf), wk)
    BY <2>7 DEF kind
  <2> QED
    BY <1>2, <1>4, <2>8, <2>9, <2>10, <2>11 DEF WInv
<1> QED
  BY <1>5, <1>6

\* Every step keeps what is known of the worker and of the displays.
LEMMA NextW ==
    ASSUME Inv, WInv, RInv, [Next]_vars
    PROVE  WInv' /\ RInv'
<1>1. ASSUME NEW u \in Users, DisplayStep(u) PROVE WInv' /\ RInv'
  <2>1. Beside(u)
    BY <1>1, DisplayBeside DEF RInv
  <2>2. WInv' /\ Passes
    BY <2>1, BesideW
  <2> QED
    BY <2>1, <2>2, BesideR
<1>2. CASE WorkerSteps \/ TokenFails(Worker) \/ \E ans \in Errors : Fails(Worker, ans)
  <2>1. WInv' /\ Passes
    BY <1>2, WorkerStepW
  <2> QED
    BY <1>2, <2>1, WorkerStepR
<1>3. CASE \/ \E n \in DOMAIN insts : ExpireToken(n)
           \/ \E i \in Items, st \in Statuses \cup {"absent"} : EditUpstream(i, st)
           \/ UNCHANGED vars
  <2>1. WInv' /\ Passes
    BY <1>3, AroundW
  <2> QED
    BY <1>3, <2>1, AroundR
<1>4. CASE RevokeTokens
  <2>1. WInv' /\ Passes
    BY <1>4, RevokeTokensW
  <2> QED
    BY <1>4, <2>1, RevokeTokensR
<1>5. ASSUME NEW c \in Confs, Reload(c) PROVE WInv' /\ RInv'
  <2>1. WInv' /\ Passes
    BY <1>5, ReloadW
  <2> QED
    BY <1>5, <2>1, ReloadR
<1>6. ASSUME NEW x \in Procs, TokenFails(x) \/ (\E ans \in Errors : Fails(x, ans)) PROVE WInv' /\ RInv'
  BY <1>1, <1>2, <1>6 DEF Procs, DisplayStep
<1>7. ASSUME NEW u \in Users,
             \/ \E ask \in Asks[u] : BeginAction(u, ask[1], ask[2])
             \/ Requests(u) \/ Executed(u) \/ RefreshWidget(u)
             \/ \E ans \in {"5xx", "net"} : LosesAnswer(u, ans)
      PROVE  WInv' /\ RInv'
  BY <1>1, <1>7 DEF DisplayStep
<1> QED
  BY <1>2, <1>3, <1>4, <1>5, <1>6, <1>7 DEF Next

\* What is known of the worker, of what is on display and of what is read again holds
\* whatever displays, upstream, faults and reloads do (the loop of provider/coordinator.go).
THEOREM WorkerInvariance == Spec => [](WInv /\ RInv)
<1>1. Init => WInv /\ RInv
  BY InitW
<1>2. Inv /\ WInv /\ RInv /\ [Next]_vars => WInv' /\ RInv'
  BY NextW
<1> QED
  BY <1>1, <1>2, Invariance, PTL DEF Spec

\* The types of WidgetActions; only the OAuth client asks for tokens, and a widget has a
\* worker exactly when it has a provider.
THEOREM Typing == Spec => []TypeOK
<1>1. Inv /\ WInv => TypeOK
  <2> SUFFICES ASSUME Inv, WInv PROVE TypeOK
    OBVIOUS
  <2>1. /\ insts \in Seq(Instances) /\ current \in 0..Len(insts) /\ user \in [Users -> ActionRecs]
        /\ WorkerShape /\ Running /\ DOMAIN insts = 1..Len(insts)
    BY DEF Inv, Shape, WInv
  <2>2. ASSUME NEW u \in Users
        PROVE  /\ rq[u].pc \in {"none", "token", "force", "send"}
               /\ rq[u].pc # "none" => rq[u].inst \in DOMAIN insts
               /\ rq[u].pc \in {"token", "force"} => KindOf(u) = "oauth"
               /\ user[u].pc \in {"idle", "calling", "refresh", "replied"}
    <3>1. rq[u] \in RequestRecs /\ Token(u) /\ user[u] \in ActionRecs
      BY DEF Inv, Shape
    <3> QED
      BY <2>1, <3>1 DEF RequestRecs, Token, ActionRecs
  <2>3. /\ rq[Worker].pc \in {"none", "token", "force", "send"}
        /\ rq[Worker].pc # "none" => rq[Worker].inst \in DOMAIN insts
        /\ rq[Worker].pc \in {"token", "force"} => KindOf(Worker) = "oauth"
    BY <2>1 DEF WorkerShape, Running, RequestRecs
  <2>4. \A x \in Procs : /\ rq[x].pc \in {"none", "token", "force", "send"}
                         /\ rq[x].pc # "none" => rq[x].inst \in DOMAIN insts
                         /\ rq[x].pc \in {"token", "force"} => KindOf(x) = "oauth"
    BY <2>2, <2>3 DEF Procs
  <2>5. /\ conf \in Confs /\ up \in [Items -> Statuses \cup {"absent"}] /\ author \in [Items -> Users \cup {"other"}]
        /\ shown \in Seq(Entry)
        /\ wk.pc \in {"none", "fetch", "record", "wait"} /\ (wk.pc = "none" <=> current = 0)
        /\ wk.page \in 1..MaxPages
    BY <2>1 DEF WorkerShape, Running, WorkerRecs
  <2> QED
    BY <2>1, <2>2, <2>4, <2>5 DEF TypeOK, Instances
<1> QED
  BY <1>1, Invariance, WorkerInvariance, PTL

\* No refresh is lost: an item whose action was answered with 200, and that is still shown
\* as before, is about to be read or the widget is marked as failing, whatever the worker
\* was doing, however many refreshes share the queue and whenever a reload replaces the
\* worker (RefreshWidget and the worker of provider/coordinator.go).
THEOREM RefreshesNotLost == Spec => []RefreshNotLost
<1>1. RInv => RefreshNotLost
  BY DEF RInv, Rereads, Right, RefreshNotLost
<1> QED
  BY <1>1, WorkerInvariance, PTL

\* However many failures there were, a widget is tried again no later than a healthy one is
\* polled, and not at once (NextDelay and ComputeRetryDelay of provider/backoff.go).
THEOREM RetriesBounded == Spec => []RetryBounded
<1>1. WInv => RetryBounded
  BY DEF WInv
<1> QED
  BY <1>1, WorkerInvariance, PTL

\* No two of the entries are of one item, so there are as many items as entries.
LEMMA DistinctCounted ==
    ASSUME NEW s \in Seq(Entry), Distinct(s)
    PROVE  Cardinality(IdsOf(s)) = Len(s)
<1> DEFINE f == [k \in 1..Len(s) |-> s[k].id]
<1>1. Len(s) \in Nat /\ DOMAIN s = 1..Len(s)
  OBVIOUS
<1>2. IdsOf(s) = {s[k].id : k \in 1..Len(s)}
  BY <1>1 DEF IdsOf, ToSet
<1>3. f \in [1..Len(s) -> IdsOf(s)]
  BY <1>2
<1>4. IsInjective(f)
  BY <1>1 DEF IsInjective, Distinct
<1>5. \A t \in IdsOf(s) : \E k \in 1..Len(s) : f[k] = t
  BY <1>2
<1> HIDE DEF f
<1>6. f \in Bijection(1..Len(s), IdsOf(s))
  BY <1>3, <1>4, <1>5 DEF Bijection, Injection, Surjection
<1> QED
  BY <1>1, <1>6, FS_CountingElements DEF ExistsBijection

\* A list of tasks of Google or Todoist has no item twice and no subtask before its parent,
\* although its pages were read at different times (gtasks.go, todoist.go, model.go).
THEOREM TaskListsSound == Spec => [](conf.source # "hass" => ListSound)
<1>1. WInv => (conf.source # "hass" => ListSound)
  <2> SUFFICES ASSUME WInv, conf.source # "hass" PROVE ListSound
    OBVIOUS
  <2>1. shown \in Seq(Entry) /\ Distinct(shown) /\ TreeOrder(shown)
    BY DEF WInv, WorkerShape, ShownInOrder
  <2>2. Cardinality(IdsOf(shown)) = Len(shown)
    BY <2>1, DistinctCounted
  <2> QED
    BY <2>1, <2>2 DEF ListSound, TreeOrder
<1> QED
  BY <1>1, WorkerInvariance, PTL

\* So has, with what is shown of Home Assistant, every list: it repeats an entity only where
\* the dashboard does, as home_assistant.go keeps the cards of a view.
THEOREM ListsSound ==
    ASSUME OwnCards
    PROVE  Spec => []ListSound
<1>1. WInv => ListSound
  <2> SUFFICES ASSUME WInv PROVE ListSound
    OBVIOUS
  <2>1. shown \in Seq(Entry) /\ Distinct(shown) /\ (conf.source # "hass" => TreeOrder(shown))
    BY DEF WInv, WorkerShape, ShownInOrder
  <2>2. Cardinality(IdsOf(shown)) = Len(shown)
    BY <2>1, DistinctCounted
  <2> QED
    BY <2>1, <2>2 DEF ListSound, TreeOrder
<1> QED
  BY <1>1, WorkerInvariance, PTL
=============================================================================
