------------------------------- MODULE Tokens -------------------------------
(***************************************************************************)
(* Access tokens: what JWTTokenManager puts into a token it issues and of  *)
(* which tokens it accepts what.  Instants are numbers of ticks, of which  *)
(* a second has Precision; a token's dates are cut to whole seconds, while *)
(* the clock they are compared with is not.                                *)
(*                                                                         *)
(* A token is the record of its claims and of the key that signed it: with *)
(* HMAC-SHA256 as the only accepted method, its signature is good exactly  *)
(* if the key is the verifier's.                                           *)
(***************************************************************************)
EXTENDS Integers

CONSTANTS
    Precision, \* ticks in a second, the precision of jwt.NumericDate
    Subjects,  \* names of principals
    Issuers,   \* values of auth.jwt.issuer
    Keys,      \* values of auth.jwt.signing_key
    Blank,     \* a string that is empty after TrimSpace
    Absent     \* a claim a token lacks, and the zero time.Time

ASSUME TokensAssumption ==
    /\ Precision \in Nat \ {0}
    /\ Blank \notin Subjects
    /\ Absent \notin Int

Instant == Int \cup {Absent}
Principal == [uid : Int, subject : Subjects \cup {Blank}, iat : Instant, exp : Instant]
Token == [uid : Int, subject : Subjects \cup {Blank}, iat : Instant, exp : Instant,
          issuer : Issuers, key : Keys]

\* JWTTokenManager; a lifetime may be zero or negative: Validate asks that it
\* parse, and time.ParseDuration takes any sign.
Manager == [issuer : Issuers, key : Keys, ttl : Int]

-----------------------------------------------------------------------------
(* IssueAccessToken.                                                       *)

\* (Faulty: dates are rounded up to the second.)
RoundUp(t) == t + ((-t) % Precision)

\* jwt.NewNumericDate: time.Time.Truncate.
Truncate(t) == t - (t % Precision)

\* It gives no token to a principal without an id or a subject.
CanIssue(p) == p.uid > 0 /\ p.subject # Blank

\* From when and until when the token is meant to be good.
ValidFrom(p, now) == IF p.iat = Absent THEN now ELSE p.iat
ValidUntil(m, p, now) == IF p.exp = Absent THEN ValidFrom(p, now) + m.ttl ELSE p.exp

IssueAccessToken(m, p, now) ==
    [uid |-> p.uid, subject |-> p.subject,
     iat |-> Truncate(ValidFrom(p, now)), exp |-> Truncate(ValidUntil(m, p, now)),
     issuer |-> m.issuer, key |-> m.key]

-----------------------------------------------------------------------------
(* ParseAccessToken.                                                       *)

\* Signature and issuer are the verifier's own.
IsOurs(m, c) == c.key = m.key /\ c.issuer = m.issuer

\* The claims a principal is made of are there.
IsComplete(c) == c.uid > 0 /\ c.subject # Blank /\ c.iat # Absent /\ c.exp # Absent

\* (Faulty: a token is good in the second it expires in, too.)
InForceTooLong(c, now) == c.iat <= now /\ now < c.exp + Precision

\* jwt.Validator, of a token that has both dates.
InForce(c, now) == c.iat <= now /\ now < c.exp

\* (Faulty: a token without a date is not asked for it.)
AcceptsUndated(m, c, now) ==
    /\ IsOurs(m, c)
    /\ c.uid > 0 /\ c.subject # Blank
    /\ c.iat # Absent => c.iat <= now
    /\ c.exp # Absent => now < c.exp

\* Parsing gives no error.
Accepts(m, c, now) == IsOurs(m, c) /\ IsComplete(c) /\ InForce(c, now)

PrincipalOf(c) == [uid |-> c.uid, subject |-> c.subject, iat |-> c.iat, exp |-> c.exp]

=============================================================================
