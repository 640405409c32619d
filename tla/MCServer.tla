------------------------------ MODULE MCServer ------------------------------
(* Values for the constants of Server: two configurations that differ in   *)
(* the key, one with a lifetime below a second; two tokens somebody else made *)
(* with one of the keys, one for another issuer, the other without a claim;  *)
(* issuers whose clock is behind or ahead; a client that calls with a     *)
(* token over HTTP, without one over gRPC, or probes; and one that calls a   *)
(* public operation over gRPC, or probes.                                    *)
EXTENDS Server, TLC

CONSTANTS jo, iss, other, k1, k2, r1, r2

MCPrincipals == {[uid |-> 1, subject |-> jo, iat |-> Absent, exp |-> Absent],
                 [uid |-> 0, subject |-> jo, iat |-> Absent, exp |-> Absent]}
MCManagers == {[issuer |-> iss, key |-> k1, ttl |-> 2], [issuer |-> iss, key |-> k2, ttl |-> 1]}
MCForeign == {[uid |-> 1, subject |-> jo, iat |-> Absent, exp |-> 100, issuer |-> iss, key |-> k1],
              [uid |-> 1, subject |-> jo, iat |-> 0, exp |-> 100, issuer |-> other, key |-> k1]}
MCSkews == {-1, 0, 1}

MCCall(via, op, bearer, given) == [via |-> via, op |-> op, bearer |-> bearer, given |-> given]
MCCalls == (r1 :> {MCCall("http", "GetUser", TRUE, TRUE), MCCall("grpc", "GetUser", FALSE, FALSE),
                   MCCall("http", "healthz", FALSE, FALSE)})
        @@ (r2 :> {MCCall("grpc", "CreateUser", FALSE, FALSE), MCCall("http", "readyz", FALSE, FALSE)})

=============================================================================
