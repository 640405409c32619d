---------------------------- MODULE ServerProofs ----------------------------
(***************************************************************************)
(* Proofs about Tokens and Server, for any configurations, tokens, clocks, *)
(* calls and number of requests: the safety properties, and at the end     *)
(* the liveness ones, which follow from NobodyIsStuck and the fairness.    *)
(***************************************************************************)
EXTENDS Server, FiniteSetTheorems, TLAPS

-----------------------------------------------------------------------------
(* Tokens.                                                                 *)

\* Cutting to the second moves an instant back, by less than a second.
LEMMA TruncateBounds ==
    ASSUME NEW t \in Int
    PROVE  Truncate(t) \in Int /\ t - Precision < Truncate(t) /\ Truncate(t) <= t
  BY TokensAssumption DEF Truncate

\* The dates an issued token is meant to have.
LEMMA LifeIsInt ==
    ASSUME NEW m \in Manager, NEW p \in Principal, NEW t \in Int
    PROVE  ValidFrom(p, t) \in Int /\ ValidUntil(m, p, t) \in Int
  BY DEF ValidFrom, ValidUntil, Manager, Principal, Instant

\* What was issued to whom, and when: the claims of the token against the life
\* it was meant to have.
CutToSeconds(i) ==
    /\ i.token.iat = Truncate(i.from) /\ i.token.exp = Truncate(i.until)
    /\ i.token.uid > 0 /\ i.token.subject # Blank

LEMMA IssuedIsCut ==
    ASSUME NEW m \in Manager, NEW p \in Principal, NEW t \in Int, CanIssue(p)
    PROVE  LET i == [token |-> IssueAccessToken(m, p, t),
                     from |-> ValidFrom(p, t), until |-> ValidUntil(m, p, t)]
           IN  i \in Issue /\ CutToSeconds(i)
  <1> DEFINE i == [token |-> IssueAccessToken(m, p, t),
                   from |-> ValidFrom(p, t), until |-> ValidUntil(m, p, t)]
  <1>1. /\ ValidFrom(p, t) \in Int /\ ValidUntil(m, p, t) \in Int
        /\ Truncate(ValidFrom(p, t)) \in Int /\ Truncate(ValidUntil(m, p, t)) \in Int
    BY LifeIsInt, TruncateBounds
  <1>2. IssueAccessToken(m, p, t) \in Token
    BY <1>1 DEF IssueAccessToken, Token, Instant, Manager, Principal
  <1>3. i \in Issue
    BY <1>1, <1>2 DEF Issue
  <1>4. CutToSeconds(i)
    BY DEF CutToSeconds, IssueAccessToken, CanIssue
  <1> QED BY <1>3, <1>4

\* Whoever holds an issued token is accepted only within the life it was meant
\* to have, give or take the second it is cut to.
THEOREM AcceptedWithinLife ==
    ASSUME NEW m, NEW i \in Issue, CutToSeconds(i), NEW t \in Int, Accepts(m, i.token, t)
    PROVE  i.from - Precision < t /\ t < i.until
  <1>1. i.token.iat <= t /\ t < i.token.exp
    BY DEF Accepts, InForce
  <1>2. i.from \in Int /\ i.until \in Int
    BY DEF Issue
  <1> QED BY <1>1, <1>2, TruncateBounds, TokensAssumption DEF CutToSeconds

\* A verifier with the issuer's configuration refuses an issued token only
\* outside of its life, or in the second it ends in.
THEOREM RefusedOutsideLife ==
    ASSUME NEW m, NEW i \in Issue, CutToSeconds(i), NEW t \in Int,
           IsOurs(m, i.token), ~Accepts(m, i.token, t)
    PROVE  t < i.from \/ t + Precision > i.until
  <1>1. i.from \in Int /\ i.until \in Int
    BY DEF Issue
  <1>2. Truncate(i.from) \in Int /\ Truncate(i.until) \in Int
    BY <1>1, TruncateBounds
  <1>3. IsComplete(i.token)
    BY <1>2, TokensAssumption DEF CutToSeconds, IsComplete
  <1>4. ~(i.token.iat <= t /\ t < i.token.exp)
    BY <1>3 DEF Accepts, InForce
  <1> QED BY <1>1, <1>2, <1>4, TruncateBounds, TokensAssumption DEF CutToSeconds

-----------------------------------------------------------------------------
(* The inductive invariant.                                                *)

\* The middlewares a request has yet to pass, after each of them.
Chain0 == <<"recovery", "requestid", "authn", "validate">>
Chain1 == <<"requestid", "authn", "validate">>
Chain2 == <<"authn", "validate">>
Chain3 == <<"validate">>
Chain4 == <<>>
Chains == {Chain0, Chain1, Chain2, Chain3, Chain4}

\* Each middleware takes itself off, and what is left tells how many did.
LEMMA ChainSteps ==
    /\ serverMiddlewares = Chain0
    /\ Head(Chain0) = "recovery" /\ Tail(Chain0) = Chain1
    /\ Head(Chain1) = "requestid" /\ Tail(Chain1) = Chain2
    /\ Head(Chain2) = "authn" /\ Tail(Chain2) = Chain3
    /\ Head(Chain3) = "validate" /\ Tail(Chain3) = Chain4
    /\ Chain4 = <<>> /\ \A c \in Chains : c \in Seq(Middlewares)
    /\ Chain0 \notin {Chain1, Chain2, Chain3, Chain4}
    /\ Chain1 \notin {Chain2, Chain3, Chain4}
    /\ Chain2 \notin {Chain3, Chain4}
    /\ Chain3 # Chain4
  BY DEF serverMiddlewares, Middlewares, Chain0, Chain1, Chain2, Chain3, Chain4, Chains

\* The reply carries the client's request id, or a new one.
Named(q) == q.ident = IF q.given THEN "given" ELSE "fresh"

\* The token the principal was taken from was accepted by the running manager.
Vouched(q) ==
    /\ q.header # NoBearer
    /\ q.principal = PrincipalOf(q.header)
    /\ Accepts(manager, q.header, q.at)

\* What a request has got on its way through the chain ...
OnItsWay(q) ==
    /\ q.todo \in Chains
    /\ q.reply = "none"
    /\ q.todo # Chain0 => q.guarded
    /\ q.todo \in {Chain2, Chain3, Chain4} => Named(q)
    /\ q.todo \in {Chain0, Chain1, Chain2} => q.principal = NoPrincipal
    /\ q.todo \in {Chain3, Chain4} /\ q.op \notin Public => q.principal # NoPrincipal

\* ... and what it has to show when it has an answer.
HasEnded(q) ==
    /\ q.op \notin Public /\ q.reply \in {"ok", "error", "invalid"} => q.principal # NoPrincipal
    /\ q.reply \in {"ok", "error", "invalid", "unauthorized", "internal"} => Named(q)
    /\ q.reply = "unauthorized" => q.header = NoBearer \/ ~Accepts(manager, q.header, q.at)
    /\ q.reply # "cutoff"

Good(q) ==
    /\ q.principal # NoPrincipal => Vouched(q)
    /\ q.stage = "reading" => /\ q.op \in Operations
                              /\ q.todo = <<>> /\ q.reply = "none" /\ q.principal = NoPrincipal
    /\ q.op \in Operations /\ q.stage = "running" => OnItsWay(q)
    /\ q.op \in Operations /\ q.stage = "done" => HasEnded(q)
    /\ q.op \in Probes => /\ q.todo = <<>>
                         /\ q.reply \in {"none", "ok", "unavailable"}
                         /\ q.principal = NoPrincipal
    /\ q.stage = "idle" => q = Idle

\* Requests are in flight only while the process serves or stops, and on a
\* server that has not stopped yet.
ProcessInv ==
    /\ phase # "down" => pool = "open" /\ manager \in Managers
    /\ phase \in {"wired", "serving"} => closing = {}
    /\ stopped \subseteq closing
    /\ \A r \in Requests : InFlight(r) =>
           phase \in {"serving", "stopping"} /\ req[r].via \notin stopped

ServerInv ==
    /\ TypeOK
    /\ ProcessInv
    /\ \A i \in issued : CutToSeconds(i)
    /\ \A r \in Requests : Good(req[r])

\* It implies what the runs check.
LEMMA Implied ==
    ASSUME ServerInv
    PROVE  /\ OnlyAdmittedGetFurther /\ AdmittedWithinLife /\ RefusedForCause
           /\ RepliesAreNamed /\ PoolOutlivesRequests /\ NobodyIsCutOff
  <1> USE DEF ServerInv
  <1>0. /\ Operations \cap Probes = {} /\ NoBearer \notin Token
        /\ \A r \in Requests : req[r] \in Request
    BY ServerAssumption DEF TypeOK
  <1>1. \A r \in Requests : req[r].stage \in {"idle", "reading", "running", "done"}
                          /\ req[r].op \in Operations \cup Probes /\ req[r].at \in Int
    BY <1>0, ServerAssumption DEF Request
  <1>2. OnlyAdmittedGetFurther
    <2> SUFFICES ASSUME NEW r \in Requests, req[r].op \in Operations \ Public,
                        InHandler(r) \/ req[r].reply \in {"ok", "error", "invalid"}
                 PROVE  /\ req[r].principal # NoPrincipal
                        /\ req[r].principal = PrincipalOf(req[r].header)
                        /\ req[r].principal.uid > 0
                        /\ IsOurs(manager, req[r].header)
      BY DEF OnlyAdmittedGetFurther
    <2>1. req[r].principal # NoPrincipal
      BY <1>1, ChainSteps DEF Good, OnItsWay, HasEnded, InHandler, Running, Idle
    <2> QED BY <2>1 DEF Good, Vouched, Accepts, IsComplete, PrincipalOf
  <1>3. AdmittedWithinLife
    <2> SUFFICES ASSUME NEW r \in Requests, NEW i \in issued,
                        req[r].principal # NoPrincipal, req[r].header = i.token
                 PROVE  i.from - Precision < req[r].at /\ req[r].at < i.until
      BY DEF AdmittedWithinLife
    <2>1. Accepts(manager, i.token, req[r].at) /\ i \in Issue /\ CutToSeconds(i)
      BY DEF Good, Vouched, TypeOK
    <2> QED BY <1>1, <2>1, AcceptedWithinLife
  <1>4. RefusedForCause
    <2> SUFFICES ASSUME NEW r \in Requests, NEW i \in issued,
                        req[r].reply = "unauthorized", req[r].header = i.token,
                        IsOurs(manager, i.token)
                 PROVE  req[r].at < i.from \/ req[r].at + Precision > i.until
      BY DEF RefusedForCause
    <2>1. i \in Issue /\ CutToSeconds(i) /\ i.token # NoBearer
      BY <1>0 DEF TypeOK, Issue
    <2>2. HasEnded(req[r])
      BY <1>1 DEF Good, OnItsWay, Idle
    <2>3. ~Accepts(manager, i.token, req[r].at)
      BY <2>1, <2>2 DEF HasEnded
    <2> QED BY <1>1, <2>1, <2>3, RefusedOutsideLife
  <1>5. RepliesAreNamed
    BY <1>1 DEF RepliesAreNamed, Good, OnItsWay, HasEnded, Named, Idle
  <1>6. PoolOutlivesRequests
    BY DEF PoolOutlivesRequests, ProcessInv
  <1>7. NobodyIsCutOff
    BY <1>1 DEF NobodyIsCutOff, Good, OnItsWay, HasEnded, Idle
  <1> QED BY <1>2, <1>3, <1>4, <1>5, <1>6, <1>7

-----------------------------------------------------------------------------
(* The steps of a request.                                                 *)

LEMMA RecordOf ==
    ASSUME ServerInv, NEW r \in Requests
    PROVE  /\ req \in [Requests -> Request] /\ req[r] \in Request
           /\ req[r].header \in {NoBearer} \cup Known
           /\ req[r].header # NoBearer => req[r].header \in Token
           /\ Operations \cap Probes = {} /\ now \in 0..LastTick
  BY ServerAssumption DEF ServerInv, TypeOK, Request, Known, Issue

\* A step that leaves the process, the world and the other requests alone
\* has to be looked at only for its own request.
LEMMA RequestStep ==
    ASSUME ServerInv, UNCHANGED <<process, world>>,
           NEW r \in Requests, NEW STATE q, q \in Request, Good(q), req' = [req EXCEPT ![r] = q],
           q.stage \in {"reading", "running"} =>
               \/ Accepting(q.via)
               \/ q.via = req[r].via /\ (Running(r) \/ req[r].stage = "reading")
    PROVE  ServerInv'
  <1>1. /\ req \in [Requests -> Request] /\ req' \in [Requests -> Request]
        /\ req'[r] = q /\ \A s \in Requests : s # r => req'[s] = req[s]
    BY RecordOf
  <1>2. TypeOK'
    BY <1>1 DEF ServerInv, TypeOK, process, world, Request, Known
  <1>3. ProcessInv'
    BY <1>1 DEF ServerInv, ProcessInv, Running, InFlight, Accepting, process, world
  <1>4. \A s \in Requests : s # r => Good(req[s])'
    BY <1>1 DEF ServerInv, Good, OnItsWay, HasEnded, Vouched, process
  <1>5. Good(req[r])'
    BY <1>1 DEF ServerInv, Good, OnItsWay, HasEnded, Vouched, process
  <1>6. (\A i \in issued : CutToSeconds(i))'
    BY DEF ServerInv, CutToSeconds, world
  <1> QED BY <1>2, <1>3, <1>4, <1>5, <1>6 DEF ServerInv

\* A request of a feature service that is at a middleware.
LEMMA WhereItIs ==
    ASSUME ServerInv, NEW r \in Requests, Running(r), req[r].todo # <<>>
    PROVE  /\ req[r].stage = "running" /\ req[r].op \in Operations /\ OnItsWay(req[r])
           /\ Head(req[r].todo) = "recovery" => req[r].todo = Chain0
           /\ Head(req[r].todo) = "requestid" => req[r].todo = Chain1
           /\ Head(req[r].todo) = "authn" => req[r].todo = Chain2
           /\ Head(req[r].todo) = "validate" => req[r].todo = Chain3
  <1>1. req[r].op \in Operations /\ OnItsWay(req[r])
    BY RecordOf DEF ServerInv, Good, Running, Request
  <1> QED BY <1>1, ChainSteps DEF OnItsWay, Chains, Running

LEMMA RecoveryKeeps == ASSUME ServerInv, NEW r \in Requests, Recovery(r) PROVE ServerInv'
  <1> DEFINE q == [req[r] EXCEPT !.todo = Chain1, !.guarded = TRUE]
  <1>1. req[r].todo = Chain0 /\ req[r].op \in Operations /\ OnItsWay(req[r])
    BY WhereItIs DEF Recovery, At
  <1>2. Good(req[r]) /\ req[r] \in Request /\ Running(r)
    BY RecordOf DEF ServerInv, Recovery, At
  <1>3. Chain1 \in Seq(Middlewares)
    BY ChainSteps DEF Chains
  <1>4. q \in Request /\ q.via = req[r].via
    BY <1>2, <1>3 DEF Request
  <1>5. Good(q)
    BY <1>1, <1>2, RecordOf, ChainSteps
       DEF Good, OnItsWay, Vouched, Named, Request, Chains, Running
  <1>6. req' = [req EXCEPT ![r] = q]
    BY <1>1, ChainSteps DEF Recovery
  <1>7. UNCHANGED <<process, world>>
    BY DEF Recovery
  <1> HIDE DEF q
  <1> QED BY <1>2, <1>4, <1>5, <1>6, <1>7, RequestStep

LEMMA RequestIDKeeps == ASSUME ServerInv, NEW r \in Requests, RequestID(r) PROVE ServerInv'
  <1> DEFINE n == IF req[r].given THEN "given" ELSE "fresh"
             q == [req[r] EXCEPT !.todo = Chain2, !.ident = n]
  <1>1. req[r].todo = Chain1 /\ req[r].op \in Operations /\ OnItsWay(req[r])
    BY WhereItIs DEF RequestID, At
  <1>2. Good(req[r]) /\ req[r] \in Request /\ Running(r)
    BY RecordOf DEF ServerInv, RequestID, At
  <1>3. Chain2 \in Seq(Middlewares)
    BY ChainSteps DEF Chains
  <1>4. q \in Request /\ q.via = req[r].via
    BY <1>2, <1>3 DEF Request
  <1>5. Good(q)
    BY <1>1, <1>2, RecordOf, ChainSteps
       DEF Good, OnItsWay, Vouched, Named, Request, Chains, Running
  <1>6. req' = [req EXCEPT ![r] = q]
    BY <1>1, ChainSteps DEF RequestID
  <1>7. UNCHANGED <<process, world>>
    BY DEF RequestID
  <1> HIDE DEF q
  <1> QED BY <1>2, <1>4, <1>5, <1>6, <1>7, RequestStep

\* A public operation needs no principal.
LEMMA SkipAuthenticationKeeps ==
    ASSUME ServerInv, NEW r \in Requests, SkipAuthentication(r) PROVE ServerInv'
  <1> DEFINE q == [req[r] EXCEPT !.todo = Chain3]
  <1>1. req[r].todo = Chain2 /\ req[r].op \in Operations /\ OnItsWay(req[r])
    BY WhereItIs DEF SkipAuthentication, At
  <1>2. Good(req[r]) /\ req[r] \in Request /\ Running(r)
    BY RecordOf DEF ServerInv, SkipAuthentication, At
  <1>3. Chain3 \in Seq(Middlewares)
    BY ChainSteps DEF Chains
  <1>4. q \in Request /\ q.via = req[r].via
    BY <1>2, <1>3 DEF Request
  <1>5. req[r].op \in Public
    BY <1>1, RecordOf DEF SkipAuthentication, isPublicOperation
  <1>6. Good(q)
    BY <1>1, <1>2, <1>5, RecordOf, ChainSteps
       DEF Good, OnItsWay, Vouched, Named, Request, Chains, Running
  <1>7. req' = [req EXCEPT ![r] = q]
    BY <1>1, ChainSteps DEF SkipAuthentication
  <1>8. UNCHANGED <<process, world>>
    BY DEF SkipAuthentication
  <1> HIDE DEF q
  <1> QED BY <1>2, <1>4, <1>6, <1>7, <1>8, RequestStep

\* A token that is accepted has all a principal needs.
LEMMA PrincipalIsWhole ==
    ASSUME NEW m, NEW c \in Token, NEW t \in Int, Accepts(m, c, t)
    PROVE  /\ PrincipalOf(c) \in {p \in Principal : p.iat # Absent /\ p.exp # Absent}
           /\ PrincipalOf(c) # NoPrincipal
  BY ServerAssumption DEF Accepts, IsComplete, PrincipalOf, Token, Principal

LEMMA AuthenticateKeeps ==
    ASSUME ServerInv, NEW r \in Requests, Authenticate(r) PROVE ServerInv'
  <1> DEFINE p == PrincipalOf(req[r].header)
             q == [req[r] EXCEPT !.todo = Chain3, !.at = now, !.principal = p]
  <1>1. req[r].todo = Chain2 /\ req[r].op \in Operations /\ OnItsWay(req[r])
    BY WhereItIs DEF Authenticate, At
  <1>2. Good(req[r]) /\ req[r] \in Request /\ Running(r)
    BY RecordOf DEF ServerInv, Authenticate, At
  <1>3. Chain3 \in Seq(Middlewares)
    BY ChainSteps DEF Chains
  <1>4. /\ req[r].header # NoBearer /\ req[r].header \in Token
        /\ Accepts(manager, req[r].header, now) /\ now \in 0..LastTick
    BY RecordOf DEF Authenticate, BearsToken
  <1>5. /\ p \in {x \in Principal : x.iat # Absent /\ x.exp # Absent}
        /\ p # NoPrincipal
    BY <1>4, PrincipalIsWhole, ServerAssumption
  <1> HIDE DEF p
  <1>6. q \in Request /\ q.via = req[r].via
    BY <1>2, <1>3, <1>4, <1>5 DEF Request
  <1>7. q.header = req[r].header /\ q.at = now /\ q.principal = p
    BY <1>2 DEF Request
  <1>8. Vouched(q)
    BY <1>4, <1>7 DEF Vouched, p
  <1>9. Good(q)
    BY <1>1, <1>2, <1>5, <1>7, <1>8, RecordOf, ChainSteps
       DEF Good, OnItsWay, Named, Request, Chains, Running
  <1>10. req' = [req EXCEPT ![r] = q]
    BY <1>1, ChainSteps DEF Authenticate, p
  <1>11. UNCHANGED <<process, world>>
    BY DEF Authenticate
  <1> HIDE DEF q
  <1> QED BY <1>2, <1>6, <1>9, <1>10, <1>11, RequestStep

\* Who is refused had no principal yet.
LEMMA RefuseKeeps == ASSUME ServerInv, NEW r \in Requests, Refuse(r) PROVE ServerInv'
  <1> DEFINE q == [req[r] EXCEPT !.stage = "done", !.at = now, !.reply = "unauthorized"]
  <1>1. req[r].todo = Chain2 /\ req[r].op \in Operations /\ OnItsWay(req[r])
    BY WhereItIs DEF Refuse, At
  <1>2. Good(req[r]) /\ req[r] \in Request /\ Running(r) /\ now \in 0..LastTick
    BY RecordOf DEF ServerInv, Refuse, At
  <1>3. q \in Request /\ q.stage = "done" /\ q.at = now /\ q.reply = "unauthorized"
    BY <1>2 DEF Request, Replies
  <1>4. q.header = NoBearer \/ ~Accepts(manager, q.header, q.at)
    BY <1>2 DEF Request, Refuse, BearsToken
  <1>5. Named(q) /\ q.principal = NoPrincipal /\ q.op \in Operations
    BY <1>1, <1>2 DEF OnItsWay, Named, Request, Chains
  <1>6. Good(q)
    BY <1>3, <1>4, <1>5, RecordOf DEF Good, HasEnded
  <1>7. req' = [req EXCEPT ![r] = q]
    BY DEF Refuse
  <1>8. UNCHANGED <<process, world>>
    BY DEF Refuse
  <1> HIDE DEF q
  <1> QED BY <1>3, <1>6, <1>7, <1>8, RequestStep

\* Any answer will do that an answered request may have.
LEMMA AnswerKeeps ==
    ASSUME ServerInv, NEW r \in Requests, NEW code \in Replies,
           Running(r), Answer(r, code), UNCHANGED <<process, world>>,
           req[r].op \in Operations =>
               HasEnded([req[r] EXCEPT !.stage = "done", !.reply = code]),
           req[r].op \in Probes => code \in {"ok", "unavailable"}
    PROVE  ServerInv'
  <1> DEFINE q == [req[r] EXCEPT !.stage = "done", !.reply = code]
  <1>1. Good(req[r]) /\ req[r] \in Request
    BY RecordOf DEF ServerInv
  <1>2. /\ q \in Request /\ q.stage = "done" /\ q.reply = code
        /\ q.op = req[r].op /\ q.todo = req[r].todo /\ q.principal = req[r].principal
        /\ q.header = req[r].header /\ q.at = req[r].at
    BY <1>1 DEF Request
  <1>3. Good(q)
    BY <1>1, <1>2 DEF Good, Vouched
  <1>4. req' = [req EXCEPT ![r] = q]
    BY DEF Answer
  <1> HIDE DEF q
  <1> QED BY <1>2, <1>3, <1>4, RequestStep

\* Validation comes after the request got its id and its principal.
LEMMA ProtoValidateKeeps ==
    ASSUME ServerInv, NEW r \in Requests, ProtoValidate(r) PROVE ServerInv'
  <1>1. /\ req[r].todo = Chain3 /\ req[r].op \in Operations /\ OnItsWay(req[r])
        /\ Good(req[r]) /\ req[r] \in Request /\ Running(r) /\ UNCHANGED <<process, world>>
    BY WhereItIs, RecordOf DEF ProtoValidate, At, ServerInv
  <1>2. CASE req' = [req EXCEPT ![r].todo = Tail(@)]
    <2> DEFINE q == [req[r] EXCEPT !.todo = Chain4]
    <2>1. Chain4 \in Seq(Middlewares)
      BY ChainSteps DEF Chains
    <2>2. q \in Request /\ q.via = req[r].via
      BY <1>1, <2>1 DEF Request
    <2>3. Good(q)
      BY <1>1, RecordOf, ChainSteps DEF Good, OnItsWay, Vouched, Named, Request, Chains, Running
    <2>4. req' = [req EXCEPT ![r] = q]
      BY <1>1, <1>2, ChainSteps
    <2> HIDE DEF q
    <2> QED BY <1>1, <2>2, <2>3, <2>4, RequestStep
  <1>3. CASE Answer(r, "invalid")
    <2>1. HasEnded([req[r] EXCEPT !.stage = "done", !.reply = "invalid"])
      BY <1>1, ChainSteps DEF HasEnded, OnItsWay, Named, Request
    <2>2. req[r].op \notin Probes /\ "invalid" \in Replies
      BY <1>1, RecordOf DEF Replies
    <2> QED BY <1>1, <1>3, <2>1, <2>2, AnswerKeeps
  <1> QED BY <1>2, <1>3 DEF ProtoValidate

\* Nobody gets to the handler unadmitted.
LEMMA HandleKeeps == ASSUME ServerInv, NEW r \in Requests, Handle(r) PROVE ServerInv'
  <1>1. /\ req[r].op \in Operations /\ Running(r) /\ req[r].todo = Chain4
        /\ Good(req[r]) /\ req[r] \in Request /\ UNCHANGED <<process, world>>
    BY RecordOf, ChainSteps DEF Handle, InHandler, ServerInv
  <1>2. OnItsWay(req[r])
    BY <1>1 DEF Good, Running
  <1>3. PICK code \in {"ok", "error"} : Answer(r, code)
    BY DEF Handle
  <1>4. HasEnded([req[r] EXCEPT !.stage = "done", !.reply = code])
    BY <1>1, <1>2, <1>3, ChainSteps DEF HasEnded, OnItsWay, Named, Request
  <1>5. req[r].op \notin Probes /\ code \in Replies
    BY <1>1, <1>3, RecordOf DEF Replies
  <1> QED BY <1>1, <1>3, <1>4, <1>5, AnswerKeeps

\* Whatever panics is above the recovery on the stack.
LEMMA PanicKeeps == ASSUME ServerInv, NEW r \in Requests, Panic(r) PROVE ServerInv'
  <1>1. /\ req[r].op \in Operations /\ Running(r)
        /\ Good(req[r]) /\ req[r] \in Request /\ UNCHANGED <<process, world>>
    BY RecordOf DEF Panic, ServerInv
  <1>2. OnItsWay(req[r])
    BY <1>1 DEF Good, Running
  <1>3. req[r].todo \in {Chain2, Chain3, Chain4}
    BY <1>1, <1>2, ChainSteps DEF OnItsWay, Chains, Panic, At
  <1>4. req[r].guarded /\ Named(req[r])
    BY <1>2, <1>3, ChainSteps DEF OnItsWay
  <1>5. Answer(r, "internal")
    BY <1>4 DEF Panic
  <1>6. HasEnded([req[r] EXCEPT !.stage = "done", !.reply = "internal"])
    BY <1>1, <1>4 DEF HasEnded, Named, Request
  <1>7. req[r].op \notin Probes /\ "internal" \in Replies
    BY <1>1, RecordOf DEF Replies
  <1> QED BY <1>1, <1>5, <1>6, <1>7, AnswerKeeps

LEMMA HealthzKeeps == ASSUME ServerInv, NEW r \in Requests, Healthz(r) PROVE ServerInv'
  <1>1. /\ req[r].op = "healthz" /\ Running(r) /\ UNCHANGED <<process, world>>
        /\ Answer(r, "ok")
    BY DEF Healthz, InHandler
  <1>2. req[r].op \notin Operations /\ "ok" \in Replies
    BY <1>1, RecordOf DEF Replies, Probes
  <1> QED BY <1>1, <1>2, AnswerKeeps

LEMMA ReadyzKeeps == ASSUME ServerInv, NEW r \in Requests, Readyz(r) PROVE ServerInv'
  <1>1. req[r].op = "readyz" /\ Running(r) /\ UNCHANGED <<process, world>>
    BY DEF Readyz, InHandler
  <1>2. PICK code \in {"ok", "unavailable"} : Answer(r, code)
    BY DEF Readyz
  <1>3. req[r].op \notin Operations /\ code \in Replies
    BY <1>1, <1>2, RecordOf DEF Replies, Probes
  <1> QED BY <1>1, <1>2, <1>3, AnswerKeeps

\* The request nobody has sent.
LEMMA IdleIsGood ==
    /\ Idle \in Request /\ Good(Idle)
    /\ Idle.stage = "idle" /\ Idle.via = "http" /\ Idle.principal = NoPrincipal
    /\ Idle.todo = <<>> /\ Idle.reply = "none"
  BY ServerAssumption DEF Idle, Request, Transports, Probes, Replies, Good

LEMMA LeaveKeeps == ASSUME ServerInv, NEW r \in Requests, Leave(r) PROVE ServerInv'
  <1>1. req' = [req EXCEPT ![r] = Idle] /\ UNCHANGED <<process, world>>
    BY DEF Leave
  <1> QED BY <1>1, IdleIsGood, RequestStep

\* A server that accepts requests has not stopped.
LEMMA ReceiveKeeps ==
    ASSUME ServerInv, NEW r \in Requests, NEW c \in Calls[r],
           NEW h \in {NoBearer} \cup Known, Receive(r, c, h)
    PROVE  ServerInv'
  <1> DEFINE q == [Idle EXCEPT !.stage = "reading", !.via = c.via, !.op = c.op,
                               !.header = h, !.given = c.given]
  <1>1. /\ c \in Call /\ c.op \in Operations /\ c.op \notin Probes
        /\ Accepting(c.via) /\ UNCHANGED <<process, world>>
    BY ServerAssumption, RecordOf DEF Receive
  <1>2. c.via \in Transports /\ c.given \in BOOLEAN
    BY <1>1 DEF Call, Transports
  <1>3. /\ q \in Request /\ q.op = c.op /\ q.principal = NoPrincipal /\ q.reply = "none"
        /\ q.todo = <<>> /\ q.stage = "reading" /\ q.via = c.via
    BY <1>1, <1>2, IdleIsGood DEF Request
  <1>4. Good(q)
    BY <1>1, <1>3 DEF Good
  <1>5. req' = [req EXCEPT ![r] = q]
    BY DEF Receive
  <1> HIDE DEF q
  <1> QED BY <1>1, <1>3, <1>4, <1>5, RequestStep

\* The chain begins with nothing passed.
LEMMA DecodeKeeps == ASSUME ServerInv, NEW r \in Requests, Decode(r) PROVE ServerInv'
  <1> DEFINE run == [req[r] EXCEPT !.stage = "running", !.todo = serverMiddlewares]
             bad == [req[r] EXCEPT !.stage = "done", !.reply = "undecodable"]
  <1>1. /\ req[r] \in Request /\ req[r].stage = "reading"
        /\ req[r].op \in Operations /\ req[r].op \notin Probes
        /\ req[r].principal = NoPrincipal /\ req[r].reply = "none"
        /\ UNCHANGED <<process, world>>
    BY RecordOf DEF Decode, ServerInv, Good
  <1>2. CASE req' = [req EXCEPT ![r].stage = "running", ![r].todo = serverMiddlewares]
    <2>1. Chain0 \in Seq(Middlewares) /\ serverMiddlewares = Chain0
      BY ChainSteps DEF Chains
    <2>2. /\ run \in Request /\ run.op = req[r].op /\ run.principal = NoPrincipal
          /\ run.reply = "none" /\ run.todo = Chain0 /\ run.stage = "running"
          /\ run.via = req[r].via
      BY <1>1, <2>1 DEF Request
    <2>3. Good(run)
      BY <1>1, <2>2, ChainSteps DEF Good, OnItsWay, Chains
    <2>4. req' = [req EXCEPT ![r] = run]
      BY <1>2, RecordOf
    <2> HIDE DEF run
    <2> QED BY <1>1, <2>2, <2>3, <2>4, RequestStep
  <1>3. CASE Answer(r, "undecodable")
    <2>1. /\ bad \in Request /\ bad.op = req[r].op /\ bad.principal = NoPrincipal
          /\ bad.reply = "undecodable" /\ bad.stage = "done"
      BY <1>1 DEF Request, Replies
    <2>2. Good(bad)
      BY <1>1, <2>1 DEF Good, HasEnded
    <2>3. req' = [req EXCEPT ![r] = bad]
      BY <1>3 DEF Answer
    <2> HIDE DEF bad
    <2> QED BY <1>1, <2>1, <2>2, <2>3, RequestStep
  <1> QED BY <1>2, <1>3 DEF Decode

LEMMA ReceiveProbeKeeps ==
    ASSUME ServerInv, NEW r \in Requests, NEW c \in Calls[r], ReceiveProbe(r, c)
    PROVE  ServerInv'
  <1> DEFINE q == [Idle EXCEPT !.stage = "running", !.op = c.op]
  <1>1. /\ c.op \in Probes /\ c.op \notin Operations
        /\ Accepting("http") /\ UNCHANGED <<process, world>>
    BY RecordOf DEF ReceiveProbe
  <1>2. /\ q \in Request /\ q.op = c.op /\ q.stage = "running" /\ q.via = "http"
        /\ q.todo = <<>> /\ q.reply = "none" /\ q.principal = NoPrincipal
    BY <1>1, IdleIsGood DEF Request
  <1>3. Good(q)
    BY <1>1, <1>2 DEF Good
  <1>4. req' = [req EXCEPT ![r] = q]
    BY DEF ReceiveProbe
  <1> HIDE DEF q
  <1> QED BY <1>1, <1>2, <1>3, <1>4, RequestStep

-----------------------------------------------------------------------------
(* The steps of the process and of the world.                              *)

\* No process runs, and no request is there.
LEMMA InitEstablishes == Init => ServerInv
  <1> SUFFICES ASSUME Init PROVE ServerInv
    OBVIOUS
  <1>1. req \in [Requests -> Request] /\ \A r \in Requests : req[r] = Idle
    BY IdleIsGood DEF Init
  <1>2. TypeOK
    BY <1>1, ServerAssumption DEF Init, TypeOK, Phases
  <1>3. ProcessInv
    BY <1>1, IdleIsGood DEF Init, ProcessInv, InFlight
  <1> QED BY <1>1, <1>2, <1>3, IdleIsGood DEF Init, ServerInv

LEMMA WireKeeps == ASSUME ServerInv, NEW m \in Managers, Wire(m) PROVE ServerInv'
  <1>1. /\ req' \in [Requests -> Request] /\ \A r \in Requests : req'[r] = Idle
        /\ UNCHANGED world
    BY IdleIsGood DEF Wire
  <1>2. TypeOK'
    BY <1>1, ServerAssumption DEF Wire, ServerInv, TypeOK, Phases, world, Request, Known
  <1>3. ProcessInv'
    BY <1>1, IdleIsGood DEF Wire, ProcessInv, InFlight
  <1>4. \A r \in Requests : Good(req[r])'
    BY <1>1, ServerAssumption DEF Good, Idle
  <1>5. (\A i \in issued : CutToSeconds(i))'
    BY DEF Wire, ServerInv, CutToSeconds, world
  <1> QED BY <1>2, <1>3, <1>4, <1>5 DEF ServerInv

\* The other steps of the process leave its token manager and the requests.
LEMMA ProcessStep ==
    ASSUME ServerInv, UNCHANGED <<manager, world, req>>,
           phase' \in Phases, pool' \in {"none", "open", "closed"},
           closing' \subseteq Transports, stopped' \subseteq Transports, starts' \in 0..MaxStarts, ProcessInv'
    PROVE  ServerInv'
  <1>1. TypeOK'
    BY DEF ServerInv, TypeOK, world, Request, Known
  <1>2. (\A r \in Requests : Good(req[r]))'
    BY DEF ServerInv, Good, OnItsWay, HasEnded, Vouched
  <1>3. (\A i \in issued : CutToSeconds(i))'
    BY DEF ServerInv, CutToSeconds, world
  <1> QED BY <1>1, <1>2, <1>3 DEF ServerInv

LEMMA LifecycleKeeps ==
    ASSUME ServerInv, WireFails \/ Run \/ Stop \/ (\E t \in Transports : CloseServer(t)) \/ Shutdown
    PROVE  ServerInv'
  <1> USE DEF ServerInv, TypeOK, Phases, ProcessInv, InFlight
  <1>1. CASE WireFails
    BY <1>1, ProcessStep, ServerAssumption DEF WireFails
  <1>2. CASE Run
    BY <1>2, ProcessStep DEF Run
  <1>3. CASE Stop
    BY <1>3, ProcessStep DEF Stop
  <1>4. CASE \E t \in Transports : ServerStops(t)
    BY <1>4, ProcessStep DEF ServerStops
  <1>5. CASE RunReturns
    <2>1. \A r \in Requests : ~InFlight(r)
      BY <1>5, RecordOf DEF RunReturns, Request
    <2> QED BY <1>5, <2>1, ProcessStep DEF RunReturns
  <1>6. CASE Cleanup
    BY <1>6, ProcessStep DEF Cleanup
  <1>7. CASE \E t \in Transports : CloseServer(t)
    BY <1>7, ProcessStep DEF CloseServer
  <1> QED BY <1>1, <1>2, <1>3, <1>4, <1>5, <1>6, <1>7 DEF Shutdown

LEMMA TickKeeps == ASSUME ServerInv, Tick PROVE ServerInv'
  <1>1. UNCHANGED <<phase, manager, pool, closing, stopped, starts, issued, req>> /\ now' \in 0..LastTick
    BY ServerAssumption DEF Tick, process, ServerInv, TypeOK
  <1>2. TypeOK'
    BY <1>1 DEF ServerInv, TypeOK, Request, Known
  <1>3. ProcessInv'
    BY <1>1 DEF ServerInv, ProcessInv, InFlight
  <1>4. (\A r \in Requests : Good(req[r]))' /\ (\A i \in issued : CutToSeconds(i))'
    BY <1>1 DEF ServerInv, Good, OnItsWay, HasEnded, Vouched, CutToSeconds
  <1> QED BY <1>2, <1>3, <1>4 DEF ServerInv

LEMMA IssueTokenKeeps ==
    ASSUME ServerInv, NEW m \in Managers, NEW p \in Principals, NEW skew \in Skews,
           IssueToken(m, p, skew)
    PROVE  ServerInv'
  <1> DEFINE t == now + skew
             i == [token |-> IssueAccessToken(m, p, t),
                   from |-> ValidFrom(p, t), until |-> ValidUntil(m, p, t)]
  <1>1. /\ UNCHANGED <<phase, manager, pool, closing, stopped, starts, now, req>>
        /\ issued' = issued \cup {i} /\ CanIssue(p)
    BY DEF IssueToken, process
  <1>2. i \in Issue /\ CutToSeconds(i)
    <2>1. m \in Manager /\ p \in Principal /\ t \in Int
      BY ServerAssumption DEF ServerInv, TypeOK
    <2> HIDE DEF t
    <2> QED BY <1>1, <2>1, IssuedIsCut
  <1> HIDE DEF i
  <1>3. Known \subseteq Known'
    BY <1>1 DEF Known
  <1>4. TypeOK'
    BY <1>1, <1>2, <1>3 DEF ServerInv, TypeOK, Request
  <1>5. ProcessInv'
    BY <1>1 DEF ServerInv, ProcessInv, InFlight
  <1>6. (\A r \in Requests : Good(req[r]))'
    BY <1>1 DEF ServerInv, Good, OnItsWay, HasEnded, Vouched
  <1>7. (\A j \in issued : CutToSeconds(j))'
    BY <1>1, <1>2 DEF ServerInv, CutToSeconds
  <1> QED BY <1>4, <1>5, <1>6, <1>7 DEF ServerInv

LEMMA NextKeeps == ServerInv /\ [Next]_vars => ServerInv'
  <1> SUFFICES ASSUME ServerInv, [Next]_vars PROVE ServerInv'
    OBVIOUS
  <1>1. CASE UNCHANGED vars
    <2>1. UNCHANGED <<phase, manager, pool, closing, stopped, starts, now, issued, req>>
      BY <1>1 DEF vars, process, world
    <2> QED BY <2>1 DEF ServerInv, TypeOK, ProcessInv, InFlight, Good, OnItsWay, HasEnded,
                        Vouched, CutToSeconds, Request, Known
  <1>2. CASE \E m \in Managers : Wire(m)
    BY <1>2, WireKeeps
  <1>3. CASE WireFails \/ Run \/ Stop \/ (\E t \in Transports : CloseServer(t)) \/ Shutdown
    BY <1>3, LifecycleKeeps
  <1>4. CASE \E r \in Requests : Arrival(r)
    BY <1>4, ReceiveKeeps, ReceiveProbeKeeps DEF Arrival
  <1>5. CASE \E r \in Requests : Step(r)
    BY <1>5, RecoveryKeeps, RequestIDKeeps, SkipAuthenticationKeeps, AuthenticateKeeps,
       RefuseKeeps, ProtoValidateKeeps, HandleKeeps, HealthzKeeps, ReadyzKeeps DEF Step
  <1>6. CASE \E r \in Requests : Decode(r) \/ Panic(r) \/ Leave(r)
    BY <1>6, DecodeKeeps, PanicKeeps, LeaveKeeps
  <1>7. CASE Environment
    BY <1>7, TickKeeps, IssueTokenKeeps DEF Environment
  <1> QED BY <1>1, <1>2, <1>3, <1>4, <1>5, <1>6, <1>7 DEF Next

-----------------------------------------------------------------------------
(* The theorems.                                                           *)

\* What a request has been through, it has been through in every behaviour.
THEOREM Invariance == Spec => []ServerInv
  <1> QED BY InitEstablishes, NextKeeps, PTL DEF Spec

\* The variables keep their types.
THEOREM TypeCorrect == Spec => []TypeOK
  <1>1. ServerInv => TypeOK
    BY DEF ServerInv
  <1> QED BY <1>1, Invariance, PTL

\* Only who bears a token of this service gets past authentication.
THEOREM Admission == Spec => []OnlyAdmittedGetFurther
  <1> QED BY Implied, Invariance, PTL

\* A token admits nobody outside of the life it was issued for.
THEOREM NoOverstay == Spec => []AdmittedWithinLife
  <1> QED BY Implied, Invariance, PTL

\* A good token is refused only before it begins or in its last second.
THEOREM NoEarlyRefusal == Spec => []RefusedForCause
  <1> QED BY Implied, Invariance, PTL

\* Every answer of the chain carries a request id.
THEOREM Naming == Spec => []RepliesAreNamed
  <1> QED BY Implied, Invariance, PTL

\* No request runs on a closed pool.
THEOREM PoolIsKept == Spec => []PoolOutlivesRequests
  <1> QED BY Implied, Invariance, PTL

\* No panic cuts a caller off.
THEOREM PanicsAreCaught == Spec => []NobodyIsCutOff
  <1> QED BY Implied, Invariance, PTL

-----------------------------------------------------------------------------
(* Liveness.  Every request has a way to go, in steps of its own that get  *)
(* it further and that no other step takes back.                           *)

\* How many steps a running request has left, at most.
Left(r) == IF Running(r) THEN Len(req[r].todo) + 1 ELSE 0

\* How many middlewares are left at each place of the chain.
LEMMA ChainLengths ==
    /\ Len(Chain0) = 4 /\ Len(Chain1) = 3 /\ Len(Chain2) = 2
    /\ Len(Chain3) = 1 /\ Len(Chain4) = 0 /\ Len(<<>>) = 0
  BY DEF Chain0, Chain1, Chain2, Chain3, Chain4

\* A running request has from one to five steps left, any other none.
LEMMA LeftType ==
    ASSUME ServerInv, NEW r \in Requests
    PROVE  Left(r) \in 0..5 /\ (Running(r) => Left(r) > 0) /\ (Left(r) > 0 => Running(r))
  <1>1. CASE Running(r)
    <2>1. req[r].todo \in Chains
      BY <1>1, RecordOf, ChainSteps DEF ServerInv, Good, OnItsWay, Running, Request, Chains, Chain4
    <2>2. PICK n \in 0..4 : Len(req[r].todo) = n
      BY <2>1, ChainLengths DEF Chains
    <2>3. Left(r) = n + 1
      BY <1>1, <2>2 DEF Left
    <2>4. Left(r) \in 0..5 /\ Left(r) > 0
      BY <2>3
    <2> QED BY <1>1, <2>4
  <1> QED BY <1>1 DEF Left

\* A step of the request itself gets it further.
LEMMA StepGetsFurther ==
    ASSUME ServerInv, NEW r \in Requests, Step(r)
    PROVE  Left(r)' \in 0..(Left(r) - 1)
  <1>0. /\ req \in [Requests -> Request] /\ req[r] \in Request
        /\ Running(r) /\ Left(r) = Len(req[r].todo) + 1 /\ Left(r) > 0
    BY RecordOf, LeftType DEF Step, Recovery, RequestID, SkipAuthentication, Authenticate, Refuse,
       ProtoValidate, Handle, Healthz, Readyz, At, InHandler, Left
  <1>t. Left(r) \in 0..5
    BY LeftType
  <1>1. ASSUME req'[r].stage = "done" PROVE Left(r)' \in 0..(Left(r) - 1)
    BY <1>0, <1>t, <1>1 DEF Left, Running
  <1>2. ASSUME req[r].todo # <<>>, req'[r].stage = req[r].stage, req'[r].todo = Tail(req[r].todo)
        PROVE  Left(r)' \in 0..(Left(r) - 1)
    <2>1. Len(Tail(req[r].todo)) = Len(req[r].todo) - 1
      BY <1>0, <1>2 DEF Request
    <2>2. Left(r)' = Len(req'[r].todo) + 1
      BY <1>0, <1>2 DEF Left, Running
    <2> QED BY <1>0, <1>t, <1>2, <2>1, <2>2
  <1>3. CASE Recovery(r) \/ RequestID(r) \/ SkipAuthentication(r) \/ Authenticate(r)
    <2>1. /\ req[r].todo # <<>> /\ req'[r].stage = req[r].stage
          /\ req'[r].todo = Tail(req[r].todo)
      BY <1>0, <1>3 DEF Recovery, RequestID, SkipAuthentication, Authenticate, At, Request
    <2> QED BY <1>2, <2>1
  <1>4. CASE Refuse(r) \/ Handle(r) \/ Healthz(r) \/ Readyz(r)
    <2>1. req'[r].stage = "done"
      BY <1>0, <1>4 DEF Refuse, Handle, Healthz, Readyz, Answer, Request
    <2> QED BY <1>1, <2>1
  <1>5. CASE ProtoValidate(r)
    <2>1. \/ req'[r].stage = "done"
          \/ /\ req[r].todo # <<>> /\ req'[r].stage = req[r].stage
             /\ req'[r].todo = Tail(req[r].todo)
      BY <1>0, <1>5 DEF ProtoValidate, Answer, At, Request
    <2> QED BY <1>1, <1>2, <2>1
  <1> QED BY <1>3, <1>4, <1>5 DEF Step

\* A step of the process that is none of its requests'.
StepOfProcess == WireFails \/ Run \/ Stop \/ (\E t \in Transports : CloseServer(t)) \/ Shutdown

\* Requests are kept apart: what one of them does leaves the others where they are.
LEMMA OthersStay ==
    ASSUME ServerInv, NEW r \in Requests, NEW s \in Requests, s # r,
           Arrival(s) \/ Decode(s) \/ Step(s) \/ Panic(s) \/ Leave(s)
    PROVE  req'[r] = req[r]
  <1>0. req \in [Requests -> Request]
    BY RecordOf
  <1>1. CASE Arrival(s)
    BY <1>0, <1>1 DEF Arrival, Receive, ReceiveProbe
  <1>2. CASE Step(s)
    BY <1>0, <1>2 DEF Step, Recovery, RequestID, SkipAuthentication, Authenticate, Refuse,
       ProtoValidate, Handle, Healthz, Readyz, Answer
  <1>3. CASE Decode(s) \/ Panic(s) \/ Leave(s)
    BY <1>0, <1>3 DEF Decode, Panic, Leave, Answer
  <1> QED BY <1>1, <1>2, <1>3

\* No step of the server sets a running request back.
LEMMA NothingSetsBack ==
    ASSUME ServerInv, [Next]_vars, NEW r \in Requests, Running(r)
    PROVE  Left(r)' \in 0..Left(r)
  <1>0. req \in [Requests -> Request] /\ Left(r) \in 0..5 /\ Left(r) > 0
    BY RecordOf, LeftType
  <1>1. ASSUME req'[r] = req[r] PROVE Left(r)' \in 0..Left(r)
    <2>1. Left(r)' = Left(r)
      BY <1>1 DEF Left, Running
    <2> QED BY <1>0, <2>1
  <1>2. ASSUME req'[r].stage # "running" PROVE Left(r)' \in 0..Left(r)
    BY <1>0, <1>2 DEF Left, Running
  <1>3. CASE UNCHANGED vars \/ StepOfProcess \/ Environment
    <2>1. req' = req
      BY <1>3 DEF vars, StepOfProcess, WireFails, Run, Stop, CloseServer, Shutdown, ServerStops,
         RunReturns, Cleanup, Environment, Tick, IssueToken
    <2> QED BY <1>1, <2>1
  <1>4. CASE \E m \in Managers : Wire(m)
    <2>1. req'[r].stage # "running"
      BY <1>4 DEF Wire, Idle
    <2> QED BY <1>2, <2>1
  <1>5. CASE Step(r)
    BY <1>0, <1>5, StepGetsFurther
  <1>6. CASE Panic(r)
    <2>1. req'[r].stage # "running"
      BY <1>0, <1>6 DEF Panic, Answer, Request
    <2> QED BY <1>2, <2>1
  <1>7. ~Arrival(r) /\ ~Decode(r) /\ ~Leave(r)
    BY DEF Arrival, Receive, ReceiveProbe, Decode, Leave, Running
  <1>8. CASE \E s \in Requests \ {r} : Arrival(s) \/ Decode(s) \/ Step(s) \/ Panic(s) \/ Leave(s)
    BY <1>1, <1>8, OthersStay
  <1> QED BY <1>3, <1>4, <1>5, <1>6, <1>7, <1>8 DEF Next, StepOfProcess

\* The conditions of the steps: a running request stands before a middleware
\* the chain has, or in a handler the service has; a stop with no request to
\* wait for has a server left to close or to stop, or returns, or cleans up.
SomethingIsNext ==
    /\ \A r \in Requests : Running(r) =>
          \/ At(r, "recovery") \/ At(r, "requestid") \/ At(r, "authn") \/ At(r, "validate")
          \/ InHandler(r) /\ req[r].op \in Operations \cup {"healthz", "readyz"}
    /\ phase \in {"stopping", "returned"} /\ (\A r \in Requests : ~InFlight(r)) =>
          \/ phase = "stopping" /\ \E t \in Transports :
                 t \notin closing \/ t \in closing \ stopped
          \/ phase = "stopping" /\ stopped = Transports
          \/ phase = "returned"

\* What is left of NobodyIsStuck without ENABLED: each of these conditions is
\* all that the step it belongs to asks for.
THEOREM SomethingIsAlwaysNext == Spec => []SomethingIsNext
  <1>1. ServerInv => SomethingIsNext
    <2> SUFFICES ASSUME ServerInv PROVE SomethingIsNext
      OBVIOUS
    <2>1. ASSUME NEW r \in Requests, Running(r), req[r].op \in Operations
          PROVE  \/ At(r, "recovery") \/ At(r, "requestid") \/ At(r, "authn") \/ At(r, "validate")
                 \/ InHandler(r)
      <3>1. req[r].todo \in Chains
        BY <2>1 DEF ServerInv, Good, OnItsWay, Running
      <3>2. Chain0 # <<>> /\ Chain1 # <<>> /\ Chain2 # <<>> /\ Chain3 # <<>>
        BY ChainSteps
      <3> QED BY <2>1, <3>1, <3>2, ChainSteps DEF At, InHandler, Chains
    <2>2. ASSUME NEW r \in Requests, Running(r), req[r].op \in Probes
          PROVE  InHandler(r) /\ req[r].op \in {"healthz", "readyz"}
      BY <2>2 DEF ServerInv, Good, InHandler, Probes
    <2>3. \A r \in Requests : req[r].op \in Operations \cup Probes
      BY RecordOf DEF Request
    <2>4. stopped \subseteq Transports
      BY DEF ServerInv, TypeOK
    <2> QED BY <2>1, <2>2, <2>3, <2>4 DEF SomethingIsNext, Running
  <1> QED BY <1>1, Invariance, PTL

\* A running request takes its next step: it can, it keeps being able to, and
\* its goroutine is scheduled.
LEMMA GetsFurther ==
    ASSUME NEW r \in Requests, NEW n \in 1..5
    PROVE  Spec /\ RequestRuns(r) /\ []NobodyIsStuck => (Left(r) = n ~> Left(r) < n)
  <1>1. ServerInv /\ Left(r) = n /\ [Next]_vars => (Left(r) = n)' \/ (Left(r) < n)'
    BY NothingSetsBack, LeftType
  <1>2. ServerInv /\ Left(r) = n /\ <<Step(r)>>_vars => (Left(r) < n)'
    BY StepGetsFurther, LeftType
  <1>3. ServerInv /\ NobodyIsStuck /\ Left(r) = n => ENABLED <<Step(r)>>_vars
    BY LeftType DEF NobodyIsStuck
  <1> QED BY <1>1, <1>2, <1>3, Invariance, PTL DEF Spec, RequestRuns

\* Five such steps at most, and it is answered.
LEMMA IsAnswered ==
    ASSUME NEW r \in Requests
    PROVE  Spec /\ RequestRuns(r) /\ []NobodyIsStuck => (Running(r) ~> ~Running(r))
  <1> DEFINE G(n) == Spec /\ RequestRuns(r) /\ []NobodyIsStuck => (Left(r) = n ~> Left(r) < n)
  <1>a. 1 \in 1..5 /\ 2 \in 1..5 /\ 3 \in 1..5 /\ 4 \in 1..5 /\ 5 \in 1..5
    OBVIOUS
  <1>1. \A n \in 1..5 : G(n)
    BY GetsFurther
  <1> HIDE DEF G
  <1>b. G(1) /\ G(2) /\ G(3) /\ G(4) /\ G(5)
    BY <1>a, <1>1
  <1>2. ServerInv /\ Running(r) => Left(r) \in {1, 2, 3, 4, 5}
    BY LeftType
  <1>3. ServerInv => /\ Left(r) < 5 => Left(r) \in {1, 2, 3, 4} \/ ~Running(r)
                     /\ Left(r) < 4 => Left(r) \in {1, 2, 3} \/ ~Running(r)
                     /\ Left(r) < 3 => Left(r) \in {1, 2} \/ ~Running(r)
                     /\ Left(r) < 2 => Left(r) = 1 \/ ~Running(r)
                     /\ Left(r) < 1 => ~Running(r)
    BY LeftType
  <1>4. Left(r) \in {1, 2, 3, 4, 5} <=> \/ Left(r) = 1 \/ Left(r) = 2 \/ Left(r) = 3 
                                      \/ Left(r) = 4 \/ Left(r) = 5
    OBVIOUS
  <1>5. Left(r) \in {1, 2, 3, 4} <=> \/ Left(r) = 1 \/ Left(r) = 2 \/ Left(r) = 3 \/ Left(r) = 4
    OBVIOUS
  <1>6. Left(r) \in {1, 2, 3} <=> \/ Left(r) = 1 \/ Left(r) = 2 \/ Left(r) = 3
    OBVIOUS
  <1>7. Left(r) \in {1, 2} <=> \/ Left(r) = 1 \/ Left(r) = 2
    OBVIOUS
  <1> QED BY <1>b, <1>2, <1>3, <1>4, <1>5, <1>6, <1>7, Invariance, PTL DEF G

\* Whose message is there is answered: each goroutine that runs has at most five
\* steps left, one of them can always be taken, and nothing undoes one.
THEOREM RequestsAreAnswered ==
    ASSUME NEW r \in Requests
    PROVE  FairSpec /\ []NobodyIsStuck => (Running(r) ~> ~Running(r))
  <1>1. FairSpec => Spec /\ RequestRuns(r)
    BY DEF FairSpec, Fairness
  <1>2. Spec /\ RequestRuns(r) /\ []NobodyIsStuck => (Running(r) ~> ~Running(r))
    BY IsAnswered
  <1> QED BY <1>1, <1>2, PTL

\* A server whose Stop has been called takes nobody in: who is not in flight
\* there at that time will not be, so the requests a stop has to wait for only go.
NoneTakenIn ==
    \A r \in Requests : InFlight(r)' /\ req'[r].via \in closing => InFlight(r)

\* Both servers have been told to stop.
Shut == phase = "stopping" /\ closing = Transports

\* No request is left for a stop to wait for.
Drained == \A r \in Requests : ~InFlight(r)

\* How many steps such a stop has left, at most.
ServersLeft == (IF "http" \in stopped THEN 0 ELSE 1) + (IF "grpc" \in stopped THEN 0 ELSE 1)
StopLeft ==
    IF phase = "returned" THEN 1
    ELSE IF Shut /\ Drained THEN 2 + ServersLeft
    ELSE 0

\* Such a stop has from two to four steps left, and cleanup is one more.
LEMMA StopLeftType ==
    /\ StopLeft \in 0..4
    /\ Shut /\ Drained => StopLeft \in 2..4
  BY DEF StopLeft, ServersLeft, Shut

\* A server that stops takes no new request.
LEMMA NoneArrives ==
    ASSUME ServerInv, [Next]_vars, NEW r \in Requests, ~InFlight(r), InFlight(r)'
    PROVE  req'[r].via \notin closing
  <1>0. req \in [Requests -> Request]
    BY RecordOf
  <1>1. req'[r] # req[r]
    BY DEF InFlight
  <1>2. ~(UNCHANGED vars \/ StepOfProcess \/ Environment)
    BY <1>1 DEF vars, StepOfProcess, WireFails, Run, Stop, CloseServer, Shutdown, ServerStops,
       RunReturns, Cleanup, Environment, Tick, IssueToken
  <1>3. ~\E m \in Managers : Wire(m)
    BY DEF Wire, InFlight, Idle
  <1>4. ~Decode(r) /\ ~Step(r) /\ ~Panic(r)
    BY DEF Decode, Panic, Step, Recovery, RequestID, SkipAuthentication, Authenticate, Refuse,
       ProtoValidate, Handle, Healthz, Readyz, At, InHandler, Running, InFlight
  <1>5. ~Leave(r)
    BY <1>0 DEF Leave, Idle, InFlight
  <1>6. ~\E s \in Requests \ {r} : Arrival(s) \/ Decode(s) \/ Step(s) \/ Panic(s) \/ Leave(s)
    BY <1>1, OthersStay
  <1>7. Arrival(r)
    BY <1>2, <1>3, <1>4, <1>5, <1>6 DEF Next, StepOfProcess
  <1>8. PICK c \in Calls[r] :
            (\E h \in {NoBearer} \cup Known : Receive(r, c, h)) \/ ReceiveProbe(r, c)
    BY <1>7 DEF Arrival
  <1>9. CASE \E h \in {NoBearer} \cup Known : Receive(r, c, h)
    <2>1. PICK h \in {NoBearer} \cup Known : Receive(r, c, h)
      BY <1>9
    <2>2. req'[r].via = c.via
      BY <1>0, <2>1, IdleIsGood DEF Receive, Request
    <2> QED BY <2>1, <2>2 DEF Receive, Accepting
  <1>10. CASE ReceiveProbe(r, c)
    <2>1. req'[r].via = "http"
      BY <1>0, <1>10, IdleIsGood DEF ReceiveProbe, Request
    <2> QED BY <1>10, <2>1 DEF ReceiveProbe, Accepting
  <1> QED BY <1>8, <1>9, <1>10

\* The set of requests that a stop waits for only shrinks.
THEOREM StoppingTakesNobodyIn == Spec => [][NoneTakenIn]_vars
  <1>1. ServerInv /\ [Next]_vars => [NoneTakenIn]_vars
    <2> SUFFICES ASSUME ServerInv, [Next]_vars,
                        NEW r \in Requests, InFlight(r)', req'[r].via \in closing
                 PROVE  InFlight(r)
      BY DEF NoneTakenIn
    <2> QED BY NoneArrives
  <1> QED BY <1>1, Invariance, PTL DEF Spec

\* Once both servers have been told to stop, nobody is taken in at all.
LEMMA NoneArrivesAtAll ==
    ASSUME ServerInv, [Next]_vars, Shut, NEW r \in Requests, ~InFlight(r)
    PROVE  ~InFlight(r)'
  <1>1. TypeOK'
    BY NextKeeps DEF ServerInv
  <1>2. req'[r].via \in Transports
    BY <1>1 DEF TypeOK, Request
  <1> QED BY <1>2, NoneArrives DEF Shut

\* While it stops, the phase changes only when both servers have stopped.
LEMMA StaysStopping ==
    ASSUME ServerInv, phase = "stopping", [Next]_vars
    PROVE  \/ phase' = "stopping" /\ closing \subseteq closing'
           \/ phase' = "returned" /\ Shut /\ Drained'
  <1>1. (phase' = "stopping" /\ closing \subseteq closing') \/ RunReturns
    BY DEF Next, vars, process, world, WireFails, Wire, Run, Stop, CloseServer, Environment, Tick,
       IssueToken, Arrival, Receive, ReceiveProbe, Decode, Leave, Panic, Step, Recovery, RequestID,
       Shutdown, ServerStops, Cleanup,
       SkipAuthentication, Authenticate, Refuse, ProtoValidate, Handle, Healthz, Readyz
  <1>2. CASE RunReturns
    <2>1. phase' = "returned" /\ req' = req /\ stopped = Transports
      BY <1>2 DEF RunReturns
    <2>2. \A r \in Requests : req[r].via \in Transports
      BY RecordOf DEF Request
    <2>3. Drained'
      BY <2>1, <2>2 DEF Drained, InFlight, ServerInv, ProcessInv
    <2>4. closing = Transports
      BY <2>1 DEF ServerInv, ProcessInv, TypeOK
    <2> QED BY <2>1, <2>3, <2>4 DEF Shut
  <1> QED BY <1>1, <1>2

\* A stop goes on until both servers have stopped, and then no request runs.
LEMMA StopGoesOn ==
    ASSUME ServerInv, Shut, [Next]_vars
    PROVE  Shut' \/ (phase' = "returned" /\ Drained')
  <1>1. TypeOK'
    BY NextKeeps DEF ServerInv
  <1> QED BY <1>1, StaysStopping DEF Shut, TypeOK

\* A step of the shutdown gets it further, down to the end of the process.
LEMMA StopGetsFurther ==
    ASSUME ServerInv, Shutdown, StopLeft > 0
    PROVE  StopLeft' \in 1..(StopLeft - 1) \/ (phase = "down")'
  <1>1. CASE \E t \in Transports : ServerStops(t)
    <2>1. PICK t \in Transports : ServerStops(t)
      BY <1>1
    <2>2. /\ phase = "stopping" /\ phase' = "stopping" /\ t \notin stopped
          /\ stopped' = stopped \cup {t} /\ req' = req /\ closing' = closing
      BY <2>1 DEF ServerStops
    <2>3. Drained /\ Drained' /\ Shut /\ Shut'
      BY <2>2 DEF StopLeft, Drained, InFlight, Shut
    <2>4. ServersLeft \in 0..2 /\ ServersLeft' = ServersLeft - 1
      BY <2>2 DEF ServersLeft, Transports
    <2> QED BY <2>2, <2>3, <2>4 DEF StopLeft
  <1>2. CASE RunReturns
    BY <1>2 DEF RunReturns, StopLeft, ServersLeft
  <1>3. CASE Cleanup
    BY <1>3 DEF Cleanup
  <1> QED BY <1>1, <1>2, <1>3 DEF Shutdown

\* No step of the server sets such a stop back.
LEMMA NothingHoldsUpStop ==
    ASSUME ServerInv, [Next]_vars, StopLeft > 0
    PROVE  StopLeft' \in 1..StopLeft \/ (phase = "down")'
  <1>0. StopLeft \in 0..4
    BY StopLeftType
  <1>1. CASE Shutdown
    BY <1>0, <1>1, StopGetsFurther
  <1>2. CASE ~Shutdown
    <2>1. phase = "returned" \/ Shut
      BY DEF StopLeft
    <2>2. phase' = phase /\ stopped' = stopped
      BY <1>2, <2>1 DEF Shut, Next, vars, process, world, WireFails, Wire, Run, Stop, CloseServer,
         Environment, Tick, IssueToken, Arrival, Receive, ReceiveProbe, Decode, Leave, Panic, Step,
         Recovery, RequestID,
         SkipAuthentication, Authenticate, Refuse, ProtoValidate, Handle, Healthz, Readyz
    <2>3. CASE phase = "returned"
      BY <2>2, <2>3 DEF StopLeft
    <2>4. CASE Shut
      <3>0. phase # "returned" /\ Shut'
        BY <2>2, <2>4, StopGoesOn DEF Shut
      <3>1. Drained /\ Drained'
        BY <2>4, <3>0, NoneArrivesAtAll DEF StopLeft, Drained
      <3>2. ServersLeft' = ServersLeft
        BY <2>2 DEF ServersLeft
      <3> QED BY <1>0, <2>2, <2>4, <3>0, <3>1, <3>2 DEF StopLeft
    <2> QED BY <2>1, <2>3, <2>4
  <1> QED BY <1>1, <1>2

\* So it takes its next step, as soon as the goroutine that runs it is scheduled.
LEMMA StopEndsFrom ==
    ASSUME NEW n \in 1..4
    PROVE  Spec /\ ShutdownRuns /\ []NobodyIsStuck =>
               (StopLeft = n ~> StopLeft \in 1..(n - 1) \/ phase = "down")
  <1>1. ServerInv /\ StopLeft = n /\ [Next]_vars =>
            (StopLeft = n)' \/ (StopLeft \in 1..(n - 1) \/ phase = "down")'
    BY NothingHoldsUpStop
  <1>2. ServerInv /\ StopLeft = n /\ <<Shutdown>>_vars =>
            (StopLeft \in 1..(n - 1) \/ phase = "down")'
    BY StopGetsFurther
  <1>3. StopLeft = n => phase = "returned" \/ (Shut /\ Drained)
    BY DEF StopLeft
  <1>4. ServerInv /\ NobodyIsStuck /\ StopLeft = n => ENABLED <<Shutdown>>_vars
    BY <1>3 DEF NobodyIsStuck, Drained, Shut
  <1> QED BY <1>1, <1>2, <1>4, Invariance, PTL DEF Spec, ShutdownRuns

\* Each server is told to stop, by a goroutine that waits for nothing else.
LEMMA Closes ==
    ASSUME NEW t \in Transports
    PROVE  Spec /\ CloseRuns(t) /\ []NobodyIsStuck =>
               (phase = "stopping" ~> phase = "stopping" /\ t \in closing)
  <1> DEFINE Open == phase = "stopping" /\ t \notin closing
             Closed == phase = "stopping" /\ t \in closing
  <1>1. ServerInv /\ Open /\ [Next]_vars => Open' \/ Closed'
    BY StaysStopping DEF Shut
  <1>2. ServerInv /\ Open /\ <<CloseServer(t)>>_vars => Closed'
    BY DEF CloseServer
  <1>3. NobodyIsStuck /\ Open => ENABLED <<CloseServer(t)>>_vars
    BY DEF NobodyIsStuck
  <1>4. phase = "stopping" => Open \/ Closed
    OBVIOUS
  <1> HIDE DEF Open
  <1> QED BY <1>1, <1>2, <1>3, <1>4, Invariance, PTL DEF Spec, CloseRuns

\* In the end both of them are.
LEMMA BothClose ==
    Spec /\ Fairness /\ []NobodyIsStuck => (phase = "stopping" ~> Shut \/ phase = "returned")
  <1> DEFINE Told(t) == phase = "stopping" /\ t \in closing
             G(t) == Spec /\ CloseRuns(t) /\ []NobodyIsStuck => (phase = "stopping" ~> Told(t))
  <1>1. \A t \in Transports : G(t)
    BY Closes
  <1>2. \A t \in Transports : ServerInv /\ Told(t) /\ [Next]_vars =>
            Told(t)' \/ (phase = "returned")'
    BY StaysStopping
  <1>3. "http" \in Transports /\ "grpc" \in Transports
    BY DEF Transports
  <1>4. ServerInv /\ Told("http") /\ Told("grpc") => Shut
    BY DEF ServerInv, TypeOK, Shut, Transports
  <1>5. ServerInv /\ Told("http") /\ [Next]_vars => Told("http")' \/ (phase = "returned")'
    BY <1>2, <1>3
  <1>6. Told("grpc") => phase = "stopping"
    OBVIOUS
  <1>7. Fairness => CloseRuns("http") /\ CloseRuns("grpc")
    BY <1>3 DEF Fairness
  <1> HIDE DEF G
  <1>8. G("http") /\ G("grpc")
    BY <1>1, <1>3
  <1>9. Told("http") => phase = "stopping"
    OBVIOUS
  <1> USE DEF G
  <1> HIDE DEF Told
  <1> QED BY <1>4, <1>5, <1>6, <1>7, <1>8, <1>9, Invariance, PTL DEF Spec

\* The server waits for a client that has not sent all of its message.
ClientOwesMessage == \E r \in Requests : req[r].stage = "reading"

\* A server that is told to stop does, once there is a moment at which none of
\* its requests is in flight.
LEMMA StopEndsOnceDrained ==
    FairSpec /\ []NobodyIsStuck /\ (Shut ~> Drained \/ ClientOwesMessage) => StopEnds
  <1> DEFINE G(n) == Spec /\ ShutdownRuns /\ []NobodyIsStuck =>
                         (StopLeft = n ~> StopLeft \in 1..(n - 1) \/ phase = "down")
  <1>1. 1 \in 1..4 /\ 2 \in 1..4 /\ 3 \in 1..4 /\ 4 \in 1..4
    OBVIOUS
  <1>2. \A n \in 1..4 : G(n)
    BY StopEndsFrom
  <1> HIDE DEF G
  <1>3. G(1) /\ G(2) /\ G(3) /\ G(4)
    BY <1>1, <1>2
  <1>4. /\ StopLeft \in 1..(4 - 1) => StopLeft = 1 \/ StopLeft = 2 \/ StopLeft = 3
        /\ StopLeft \in 1..(3 - 1) => StopLeft = 1 \/ StopLeft = 2
        /\ StopLeft \in 1..(2 - 1) => StopLeft = 1
        /\ ~(StopLeft \in 1..(1 - 1))
    OBVIOUS
  <1>5. Shut /\ Drained => StopLeft = 2 \/ StopLeft = 3 \/ StopLeft = 4
    BY StopLeftType
  <1>6. ServerInv /\ Shut /\ [Next]_vars => Shut' \/ (phase = "returned")'
    BY StopGoesOn
  <1>7. phase = "returned" => StopLeft = 1
    BY DEF StopLeft
  <1>8. StopEnds <=> (phase = "stopping" ~> phase = "down" \/ ClientOwesMessage)
    BY DEF StopEnds, ClientOwesMessage
  <1> QED BY <1>3, <1>4, <1>5, <1>6, <1>7, <1>8, BothClose, Invariance, PTL DEF G, FairSpec, Fairness, Spec

\* The requests a stop has to wait for.
Busy == {r \in Requests : InFlight(r)}

\* There are finitely many at any time, however many there may ever be.
LEMMA BusyIsFinite == Spec => []IsFiniteSet(Busy)
  <1>1. Init => IsFiniteSet(Busy)
    <2>1. Init => Busy = {}
      BY DEF Init, Busy, InFlight, Idle
    <2> QED BY <2>1, FS_EmptySet
  <1>2. ServerInv /\ IsFiniteSet(Busy) /\ [Next]_vars => IsFiniteSet(Busy)'
    <2> SUFFICES ASSUME ServerInv, IsFiniteSet(Busy), [Next]_vars PROVE IsFiniteSet(Busy')
      OBVIOUS
    <2>1. CASE \E r \in Requests : Arrival(r) \/ Decode(r) \/ Step(r) \/ Panic(r) \/ Leave(r)
      <3>1. PICK r \in Requests : Arrival(r) \/ Decode(r) \/ Step(r) \/ Panic(r) \/ Leave(r)
        BY <2>1
      <3>2. \A s \in Requests \ {r} : req'[s] = req[s]
        BY <3>1, OthersStay
      <3>3. Busy' \in SUBSET (Busy \cup {r})
        BY <3>2 DEF Busy, InFlight
      <3>4. IsFiniteSet(Busy \cup {r})
        BY FS_AddElement
      <3> QED BY <3>3, <3>4, FS_Subset
    <2>2. CASE \E m \in Managers : Wire(m)
      <3>1. Busy' = {}
        BY <2>2 DEF Wire, Idle, Busy, InFlight
      <3> QED BY <3>1, FS_EmptySet
    <2>3. CASE UNCHANGED vars \/ StepOfProcess \/ Environment
      <3>1. req' = req
        BY <2>3 DEF vars, StepOfProcess, WireFails, Run, Stop, CloseServer, Shutdown, ServerStops,
           RunReturns, Cleanup, Environment, Tick, IssueToken
      <3>2. Busy' = Busy
        BY <3>1 DEF Busy, InFlight
      <3> QED BY <3>2
    <2> QED BY <2>1, <2>2, <2>3 DEF Next, StepOfProcess
  <1> QED BY <1>1, <1>2, Invariance, PTL DEF Spec

\* From some time on, the requests in flight are those of S.
Settled(S) == <>[](Busy = S)

\* A rule of temporal logic, for the requests in flight: a finite set that from
\* some time on only loses members is, from some time on, the same.
BusySettles ==
    []IsFiniteSet(Busy) /\ <>[][Busy' \subseteq Busy]_vars => \E S \in SUBSET Requests : Settled(S)

\* Since every request ends whose message is there, that can only be none.
LEMMA SettledIsDrained ==
    ASSUME NEW S \in SUBSET Requests
    PROVE  FairSpec /\ []NobodyIsStuck /\ Settled(S) /\ <>[]~ClientOwesMessage => <>[]Drained
  <1>1. CASE S = {}
    <2>1. Busy = S => Drained
      BY <1>1 DEF Busy, Drained
    <2> QED BY <2>1, PTL DEF Settled
  <1>2. CASE S # {}
    <2>1. PICK r \in Requests : r \in S
      BY <1>2
    <2>2. Busy = S /\ ~ClientOwesMessage => Running(r)
      BY <2>1 DEF Busy, InFlight, Running, ClientOwesMessage
    <2>3. FairSpec /\ []NobodyIsStuck => (Running(r) ~> ~Running(r))
      BY RequestsAreAnswered
    <2> QED BY <2>2, <2>3, PTL DEF Settled
  <1> QED BY <1>1, <1>2

\* A server that is told to stop does, unless a client does not send the rest of
\* its message: in the end neither server takes anybody in, so the requests in
\* flight get fewer until they are always the same, and each of them whose
\* message is there is answered, so they are none.
THEOREM StopsEnd == FairSpec /\ []NobodyIsStuck /\ BusySettles => StopEnds
  <1>1. ServerInv /\ Shut /\ [Next]_vars => [Busy' \subseteq Busy]_vars
    BY NoneArrivesAtAll DEF Busy
  <1>2. ServerInv /\ Shut /\ [Next]_vars => Shut' \/ Drained'
    BY StopGoesOn
  <1> DEFINE SomeSet == \E S \in SUBSET Requests : Settled(S)
  <1>3. SomeSet /\ FairSpec /\ []NobodyIsStuck /\ <>[]~ClientOwesMessage => <>[]Drained
    BY SettledIsDrained
  <1>4. BusySettles <=> ([]IsFiniteSet(Busy) /\ <>[][Busy' \subseteq Busy]_vars => SomeSet)
    BY DEF BusySettles
  <1> HIDE DEF SomeSet
  <1>5. FairSpec /\ []NobodyIsStuck /\ BusySettles => (Shut ~> Drained \/ ClientOwesMessage)
    BY <1>1, <1>2, <1>3, <1>4, BusyIsFinite, Invariance, PTL DEF FairSpec, Spec
  <1> QED BY <1>5, StopEndsOnceDrained


=============================================================================
