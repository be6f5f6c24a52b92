------------------------------ MODULE OperatorAuth ------------------------------
(***************************************************************************)
(* The sessions of the operator console (auth_service/) and the browser    *)
(* that holds one (frontend/src/lib/auth.ts).                              *)
(* A token is stateless: what counts is the secret it was signed with and  *)
(* when it expires.  Every process of a deployment has the same secret,    *)
(* from its environment; it changes only with a restart.                   *)
(***************************************************************************)
EXTENDS Integers

CONSTANTS Secrets,   \* signing secrets
          Provider,  \* how operators sign in: "local" or "oidc"
          Ttl,       \* lifetime of a token
          MaxTime    \* bound of the clock

ASSUME AuthAssumption ==
    /\ Provider \in {"local", "oidc"}
    /\ Ttl \in Nat \ {0}
    /\ MaxTime \in Nat

VARIABLES now,       \* the clock
          secret,    \* the secret of the process
          session,   \* the browser: the token in localStorage, at most one
          login      \* history: when the provider last confirmed the operator,
                     \* and the secret of that time, at most one

authVars == <<now, secret, session, login>>

Tokens == [secret : Secrets, exp : Nat]

AuthInit ==
    /\ now = 0
    /\ secret \in Secrets
    /\ session = {}
    /\ login = {}

(* [variant] the token outlives what expires_in says.                      *)
CreateTokenForTwice == [secret |-> secret, exp |-> now + 2 * Ttl]

CreateToken == [secret |-> secret, exp |-> now + Ttl]

(* jwt.decode: the signature, and the expiry.                              *)
Verifies(t) == t.secret = secret /\ now < t.exp

(* _require_auth on what the browser sends: no token is a 401, too.        *)
Admitted == \E t \in session : Verifies(t)

(* Passwords are no way in under OIDC, and tokens of an identity provider   *)
(* none with the local one.                                                *)
SignInWay == IF Provider = "local" THEN "login" ELSE "sso"

(* What the provider makes of what it is shown.                            *)
Confirms(way, valid) == valid /\ way = SignInWay

(* The token of before is overwritten.  "Sign Out" is a link to the login  *)
(* page and changes nothing here: the token stays where it is.             *)
SignIn(way, valid) ==
    /\ Confirms(way, valid)
    /\ session' = {CreateToken}
    /\ login' = {[secret |-> secret, at |-> now]}
    /\ UNCHANGED <<now, secret>>

Tick ==
    /\ now < MaxTime
    /\ now' = now + 1
    /\ UNCHANGED <<secret, session, login>>

Operates ==
    \/ \E way \in {"login", "sso"}, valid \in BOOLEAN : SignIn(way, valid)
    \/ Tick

(* A restart may bring another secret.                                     *)
Redeploys ==
    /\ secret' \in Secrets
    /\ UNCHANGED <<now, session, login>>

AuthTypeOK ==
    /\ now \in 0..MaxTime
    /\ secret \in Secrets
    /\ session \subseteq Tokens
    /\ \A t, u \in session : t = u
    /\ login \subseteq [secret : Secrets, at : 0..now]

(* Somebody signed in within the last Ttl units, under the secret that the *)
(* process has now.                                                        *)
SignedInLately ==
    \E l \in login : l.secret = secret /\ l.at <= now /\ now < l.at + Ttl
=============================================================================
