------------------------------- MODULE Server -------------------------------
(***************************************************************************)
(* The server process: it is wired, listens, serves requests over HTTP and *)
(* gRPC, whose messages may be long in coming, through one chain of        *)
(* middlewares, is told to stop or loses one of its servers, waits for the *)
(* requests it has accepted and closes the connection pool; then it may be *)
(* started again, with another configuration.  Tokens are issued by        *)
(* holders of a token manager, this service's own or another deployment's, *)
(* on clocks that may be ahead of or behind the server's.                  *)
(*                                                                         *)
(* What a handler does is in Accounts and UnitOfWork; here it ends in an   *)
(* answer, an error or a panic.  Kratos, net/http and grpc-go are external *)
(* and modelled as cmd/server uses them.                                   *)
(***************************************************************************)
EXTENDS Tokens, Sequences, FiniteSets

CONSTANTS
    Requests,
    Operations,  \* the methods of the feature services
    Public,      \* publicOperations
    Managers,    \* configurations a deployment may issue or verify tokens with
    Principals,  \* whom a token may be issued to
    Foreign,     \* tokens that were not issued by IssueAccessToken
    Skews,       \* by how much an issuer's clock may differ from the server's
    Calls,       \* what the client behind a request may send
    NoManager,   \* no process is running
    NoBearer,    \* a header without a bearer token, or none
    NoPrincipal, \* a context without a principal
    LastTick,    \* bound: the server's clock stops here
    MaxIssued,   \* bound: how many tokens are issued
    MaxStarts    \* bound: how often the process is started

Probes == {"healthz", "readyz"}
Transports == {"http", "grpc"}

\* A call of a feature service, with or without a token and an X-Request-Id,
\* or a probe.
Call == [via : Transports, op : Operations, bearer : BOOLEAN, given : BOOLEAN]
        \cup [via : {"http"}, op : Probes, bearer : {FALSE}, given : {FALSE}]

ASSUME ServerAssumption ==
    /\ Public \subseteq Operations
    /\ Probes \cap Operations = {}
    /\ Managers \subseteq Manager
    /\ Principals \subseteq Principal
    /\ Foreign \subseteq Token
    /\ Skews \subseteq Int
    /\ Calls \in [Requests -> SUBSET Call]
    /\ NoManager \notin Managers
    /\ NoBearer \notin Token
    /\ NoPrincipal \notin Principal
    /\ LastTick \in Nat /\ MaxIssued \in Nat /\ MaxStarts \in Nat

VARIABLES
    phase,     \* of the process
    manager,   \* its token manager
    pool,      \* its connection pool
    closing,   \* the servers whose Stop has been called
    stopped,   \* those whose Stop has returned
    starts,    \* how often it was started
    now,       \* its clock
    issued,    \* what IssueAccessToken returned, with the life it was to have
    req        \* the requests, each a goroutine of the server

process == <<phase, manager, pool, closing, stopped, starts>>
world == <<now, issued>>
vars == <<process, world, req>>

-----------------------------------------------------------------------------

Phases == {"down", "wired", "serving", "stopping", "returned"}
Middlewares == {"recovery", "requestid", "authn", "validate"}
Replies == {"none", "ok", "error", "invalid", "undecodable", "unauthorized", "internal",
            "unavailable", "cutoff"}

\* An issued token, and from when until when it was meant to be good, by the
\* clock of its issuer.
Issue == [token : Token, from : Int, until : Int]
Known == Foreign \cup {i.token : i \in issued}

\* A request, whose message is read before it runs: what it brought along, the
\* middlewares it has yet to pass,
\* whether a deferred recover is below it on the stack, the request id and the
\* principal in its context, when its token was looked at, and its answer.
Request == [
    stage : {"idle", "reading", "running", "done"},
    via : Transports,
    op : Operations \cup Probes,
    header : {NoBearer} \cup Known,
    given : BOOLEAN,            \* it has an X-Request-Id
    todo : Seq(Middlewares),
    guarded : BOOLEAN,
    ident : {"none", "given", "fresh"},
    principal : {p \in Principal : p.iat # Absent /\ p.exp # Absent} \cup {NoPrincipal},
    at : 0..LastTick,
    reply : Replies]

Idle == [stage |-> "idle", via |-> "http", op |-> "healthz", header |-> NoBearer,
         given |-> FALSE, todo |-> <<>>, guarded |-> FALSE, ident |-> "none",
         principal |-> NoPrincipal, at |-> 0, reply |-> "none"]

TypeOK ==
    /\ phase \in Phases
    /\ manager \in Managers \cup {NoManager}
    /\ pool \in {"none", "open", "closed"}
    /\ closing \subseteq Transports
    /\ stopped \subseteq Transports
    /\ starts \in 0..MaxStarts
    /\ now \in 0..LastTick
    /\ issued \subseteq Issue
    /\ req \in [Requests -> Request]

Init ==
    /\ phase = "down"
    /\ manager = NoManager
    /\ pool = "none"
    /\ closing = {}
    /\ stopped = {}
    /\ starts = 0
    /\ now = 0
    /\ issued = {}
    /\ req = [r \in Requests |-> Idle]

-----------------------------------------------------------------------------
(* Wiring, start and stop.                                                 *)

\* wireApp fails, in NewDB or in NewTokenManager, and main panics; what was
\* opened is closed again before.
WireFails ==
    /\ phase = "down"
    /\ starts < MaxStarts
    /\ starts' = starts + 1
    /\ UNCHANGED <<phase, manager, pool, closing, stopped, world, req>>

\* wireApp: the pool, the token manager and the servers.  Nothing is known of
\* the requests of an earlier process.
Wire(m) ==
    /\ phase = "down"
    /\ starts < MaxStarts
    /\ starts' = starts + 1
    /\ phase' = "wired"
    /\ manager' = m
    /\ pool' = "open"
    /\ closing' = {}
    /\ stopped' = {}
    /\ req' = [r \in Requests |-> Idle]
    /\ UNCHANGED world

\* app.Run: both servers listen, or one of them cannot and Run returns.
Run ==
    /\ phase = "wired"
    /\ phase' \in {"serving", "returned"}
    /\ UNCHANGED <<manager, pool, closing, stopped, starts, world, req>>

\* A signal, or a server that stops serving by itself: the context of Run is
\* cancelled, ...
Stop ==
    /\ phase = "serving"
    /\ phase' = "stopping"
    /\ UNCHANGED <<manager, pool, closing, stopped, starts, world, req>>

\* ... which a goroutine for each server waits for to call its Stop: from then on
\* it accepts nothing, while the other one still may.
CloseServer(t) ==
    /\ phase = "stopping"
    /\ t \notin closing
    /\ closing' = closing \cup {t}
    /\ UNCHANGED <<phase, manager, pool, stopped, starts, world, req>>

\* Accepted and not answered yet.
InFlight(r) == req[r].stage \in {"reading", "running"}

\* (Faulty: a server waits until its clients have hung up.)
ServerStopsAlone(t) ==
    /\ phase = "stopping"
    /\ t \in closing \ stopped
    /\ \A r \in Requests : req[r].via = t => req[r].stage = "idle"
    /\ stopped' = stopped \cup {t}
    /\ UNCHANGED <<phase, manager, pool, closing, starts, world, req>>

\* Shutdown of net/http and GracefulStop of grpc-go: no StopTimeout is set, so
\* they return when the last request has been answered, those included whose
\* message is still being read.
ServerStops(t) ==
    /\ phase = "stopping"
    /\ t \in closing \ stopped
    /\ \A r \in Requests : InFlight(r) => req[r].via # t
    /\ stopped' = stopped \cup {t}
    /\ UNCHANGED <<phase, manager, pool, closing, starts, world, req>>

RunReturns ==
    /\ phase = "stopping"
    /\ stopped = Transports
    /\ phase' = "returned"
    /\ UNCHANGED <<manager, pool, closing, stopped, starts, world, req>>

\* (Faulty: main closes the pool as soon as it is told to stop.)
CleanupAtOnce ==
    /\ phase \in {"stopping", "returned"}
    /\ phase' = "down"
    /\ pool' = "closed"
    /\ UNCHANGED <<manager, closing, stopped, starts, world, req>>

\* The deferred cleanup of main, also if Run has returned an error and main
\* panics, and the end of the process.
Cleanup ==
    /\ phase = "returned"
    /\ phase' = "down"
    /\ pool' = "closed"
    /\ UNCHANGED <<manager, closing, stopped, starts, world, req>>

-----------------------------------------------------------------------------
(* The world around the server.                                            *)

Tick ==
    /\ now < LastTick
    /\ now' = now + 1
    /\ UNCHANGED <<issued, process, req>>

\* A holder of token manager m, whose clock differs by skew, issues a token.
IssueToken(m, p, skew) ==
    LET t == now + skew
    IN  /\ Cardinality(issued) < MaxIssued
        /\ CanIssue(p)
        /\ issued' = issued \cup {[token |-> IssueAccessToken(m, p, t),
                                   from |-> ValidFrom(p, t), until |-> ValidUntil(m, p, t)]}
        /\ UNCHANGED <<now, process, req>>

-----------------------------------------------------------------------------
(* A request.                                                              *)

\* (Faulty: a message is validated before its sender is known.)
validateFirst == <<"recovery", "requestid", "validate", "authn">>

\* (Faulty: a request gets its id once it is admitted.)
requestidLate == <<"recovery", "authn", "requestid", "validate">>

\* (Faulty: the recovery is installed last.)
recoveryLast == <<"requestid", "authn", "validate", "recovery">>

\* serverMiddlewares, outermost first, for both transports.
serverMiddlewares == <<"recovery", "requestid", "authn", "validate">>

Running(r) == req[r].stage = "running"
At(r, m) == Running(r) /\ req[r].todo # <<>> /\ Head(req[r].todo) = m
InHandler(r) == Running(r) /\ req[r].todo = <<>>

\* The call returns through the middlewares it has passed.
Answer(r, code) == req' = [req EXCEPT ![r].stage = "done", ![r].reply = code]

Accepting(via) == phase \in {"serving", "stopping"} /\ via \notin closing

\* A call of a feature service: its head is there, and the goroutine that is to
\* answer it.
Receive(r, c, h) ==
    /\ Accepting(c.via)
    /\ req[r].stage = "idle"
    /\ c.op \in Operations
    /\ h \in IF c.bearer THEN Known ELSE {NoBearer}
    /\ req' = [req EXCEPT ![r] = [Idle EXCEPT !.stage = "reading", !.via = c.via, !.op = c.op,
                                              !.header = h, !.given = c.given]]
    /\ UNCHANGED <<process, world>>

\* The generated handlers read and decode the message before they call the
\* middlewares; what they cannot decode, or what ends too early as the client
\* hangs up, ends here.  No deadline is set for it: the client may send the rest
\* whenever it likes.
Decode(r) ==
    /\ req[r].stage = "reading"
    /\ \/ req' = [req EXCEPT ![r].stage = "running", ![r].todo = serverMiddlewares]
       \/ Answer(r, "undecodable")
    /\ UNCHANGED <<process, world>>

\* newHTTPServer registers the probes on the router, past the middlewares.
ReceiveProbe(r, c) ==
    /\ Accepting("http")
    /\ req[r].stage = "idle"
    /\ c.op \in Probes
    /\ req' = [req EXCEPT ![r] = [Idle EXCEPT !.stage = "running", !.op = c.op]]
    /\ UNCHANGED <<process, world>>

Recovery(r) ==
    /\ At(r, "recovery")
    /\ req' = [req EXCEPT ![r].todo = Tail(@), ![r].guarded = TRUE]
    /\ UNCHANGED <<process, world>>

\* requestid.Server: the client's id or a new one, for the handler and, at
\* once, for the reply.
RequestID(r) ==
    /\ At(r, "requestid")
    /\ req' = [req EXCEPT ![r].todo = Tail(@),
                          ![r].ident = IF req[r].given THEN "given" ELSE "fresh"]
    /\ UNCHANGED <<process, world>>

isPublicOperation(r) == req[r].op \in Public \/ (req[r].via = "http" /\ req[r].op \in Probes)

\* bearerTokenFromContext finds a token, and the token manager accepts it.
BearsToken(r) == req[r].header # NoBearer /\ Accepts(manager, req[r].header, now)

SkipAuthentication(r) ==
    /\ At(r, "authn")
    /\ isPublicOperation(r)
    /\ req' = [req EXCEPT ![r].todo = Tail(@)]
    /\ UNCHANGED <<process, world>>

Authenticate(r) ==
    /\ At(r, "authn")
    /\ ~isPublicOperation(r)
    /\ BearsToken(r)
    /\ req' = [req EXCEPT ![r].todo = Tail(@), ![r].at = now,
                          ![r].principal = PrincipalOf(req[r].header)]
    /\ UNCHANGED <<process, world>>

Refuse(r) ==
    /\ At(r, "authn")
    /\ ~isPublicOperation(r)
    /\ ~BearsToken(r)
    /\ req' = [req EXCEPT ![r].stage = "done", ![r].at = now, ![r].reply = "unauthorized"]
    /\ UNCHANGED <<process, world>>

\* The rules of the protos: the message keeps them or not.
ProtoValidate(r) ==
    /\ At(r, "validate")
    /\ \/ req' = [req EXCEPT ![r].todo = Tail(@)]
       \/ Answer(r, "invalid")
    /\ UNCHANGED <<process, world>>

Handle(r) ==
    /\ InHandler(r)
    /\ req[r].op \in Operations
    /\ \E code \in {"ok", "error"} : Answer(r, code)
    /\ UNCHANGED <<process, world>>

\* The token manager, a rule of a proto or the handler panics; what comes before
\* has nothing that could (uuid takes its randomness from crypto/rand, which does
\* not fail).  Without a deferred recover on the goroutine, net/http drops the
\* connection and a gRPC server dies.
Panic(r) ==
    /\ Running(r)
    /\ req[r].op \in Operations
    /\ ~(At(r, "recovery") \/ At(r, "requestid"))
    /\ Answer(r, IF req[r].guarded THEN "internal" ELSE "cutoff")
    /\ UNCHANGED <<process, world>>

Healthz(r) ==
    /\ InHandler(r)
    /\ req[r].op = "healthz"
    /\ Answer(r, "ok")
    /\ UNCHANGED <<process, world>>

\* DBReadinessCheck pings through the pool, which the database may not answer.
Readyz(r) ==
    /\ InHandler(r)
    /\ req[r].op = "readyz"
    /\ \E code \in {"ok", "unavailable"} :
           /\ code = "ok" => pool = "open"
           /\ Answer(r, code)
    /\ UNCHANGED <<process, world>>

\* The client has its answer, and hangs up or sends the next call.
Leave(r) ==
    /\ req[r].stage = "done"
    /\ req' = [req EXCEPT ![r] = Idle]
    /\ UNCHANGED <<process, world>>

-----------------------------------------------------------------------------

Step(r) ==
    \/ Recovery(r) \/ RequestID(r) \/ SkipAuthentication(r) \/ Authenticate(r) \/ Refuse(r)
    \/ ProtoValidate(r) \/ Handle(r) \/ Healthz(r) \/ Readyz(r)

Arrival(r) ==
    \E c \in Calls[r] :
        \/ \E h \in {NoBearer} \cup Known : Receive(r, c, h)
        \/ ReceiveProbe(r, c)

Shutdown == (\E t \in Transports : ServerStops(t)) \/ RunReturns \/ Cleanup

Environment ==
    \/ Tick
    \/ \E m \in Managers, p \in Principals, skew \in Skews : IssueToken(m, p, skew)

Next ==
    \/ WireFails \/ (\E m \in Managers : Wire(m)) \/ Run \/ Stop
    \/ (\E t \in Transports : CloseServer(t)) \/ Shutdown
    \/ \E r \in Requests : Arrival(r) \/ Decode(r) \/ Step(r) \/ Panic(r) \/ Leave(r)
    \/ Environment

Spec == Init /\ [][Next]_vars

\* The Go scheduler runs every goroutine that can run, those that stop the
\* servers included, and a handler ends, as its context does after a second.
\* Nothing else has to happen: no client has to send the rest of its message, and
\* nothing has to panic.
CloseRuns(t) == WF_vars(CloseServer(t))
ShutdownRuns == WF_vars(Shutdown)
RequestRuns(r) == WF_vars(Step(r))
Fairness ==
    /\ \A t \in Transports : CloseRuns(t)
    /\ ShutdownRuns
    /\ \A r \in Requests : RequestRuns(r)

FairSpec == Spec /\ Fairness

-----------------------------------------------------------------------------
(* Properties.                                                             *)

\* To reach its handler, and to learn what validation or the handler says, the
\* caller of a protected operation has to bear a token of this service's issuer
\* and key that says who the caller is.  All others learn no more than that their
\* message cannot be decoded, that they are refused, or that something panicked.
OnlyAdmittedGetFurther ==
    \A r \in Requests :
        /\ req[r].op \in Operations \ Public
        /\ InHandler(r) \/ req[r].reply \in {"ok", "error", "invalid"}
        => /\ req[r].principal # NoPrincipal
           /\ req[r].principal = PrincipalOf(req[r].header)
           /\ req[r].principal.uid > 0
           /\ IsOurs(manager, req[r].header)

\* Cutting the dates of a token to seconds never lengthens its life at the end
\* and puts off its beginning never, and forward by less than a second: who
\* is admitted is so within the life the token was issued for.
AdmittedWithinLife ==
    \A r \in Requests, i \in issued :
        req[r].principal # NoPrincipal /\ req[r].header = i.token =>
            i.from - Precision < req[r].at /\ req[r].at < i.until

\* A caller is refused only for a token that is missing, of another issuer or
\* key, or not in force: at the instant it is issued it is, by the clock of
\* the issuer, and it stays so until less than a second before its end.
RefusedForCause ==
    \A r \in Requests, i \in issued :
        /\ req[r].reply = "unauthorized"
        /\ req[r].header = i.token
        /\ IsOurs(manager, i.token)
        => req[r].at < i.from \/ req[r].at + Precision > i.until

\* Every answer that comes out of the chain, a refusal and a recovered panic
\* included, carries a request id: the client's, if there is one.
RepliesAreNamed ==
    \A r \in Requests :
        req[r].reply \in {"ok", "error", "invalid", "unauthorized", "internal"}
            /\ req[r].op \in Operations
        => req[r].ident = IF req[r].given THEN "given" ELSE "fresh"

\* As long as a request or a probe runs, or has yet to run, the pool it takes its
\* connections from is open: the cleanup never overtakes the stop of either server,
\* nor a request one of them accepts while the other one stops.
PoolOutlivesRequests ==
    \A r \in Requests : InFlight(r) => pool = "open"

\* No panic of the token manager, a rule of a proto or a handler costs a caller
\* its answer, or the process its life.
NobodyIsCutOff ==
    \A r \in Requests : req[r].reply # "cutoff"

\* What the liveness of requests and stops needs besides the fairness: a running
\* request can always go on, and so can a stop that has no request to wait for.
NobodyIsStuck ==
    /\ \A r \in Requests : Running(r) => ENABLED <<Step(r)>>_vars
    /\ \A t \in Transports : phase = "stopping" /\ t \notin closing =>
           ENABLED <<CloseServer(t)>>_vars
    /\ \/ phase = "returned"
       \/ phase = "stopping" /\ closing = Transports /\ \A r \in Requests : ~InFlight(r)
       => ENABLED <<Shutdown>>_vars

\* A server that is told to stop does, however many requests are in flight or
\* still arrive at the other one, and however they end: there is nothing it can
\* wait for without end but a client that does not send the rest of its message.
StopEnds == phase = "stopping" ~> phase = "down" \/ \E r \in Requests : req[r].stage = "reading"

=============================================================================
