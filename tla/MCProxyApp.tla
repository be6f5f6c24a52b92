------------------------------ MODULE MCProxyApp ------------------------------
(***************************************************************************)
(* Small instances of ProxyApp.                                            *)
(***************************************************************************)
EXTENDS ProxyApp

(* Three agents: one that reads, one that may do all, and one whose token  *)
(* is the first's by mistake; a fourth has no token.                       *)
MCAgents ==
    <<[token |-> "t1", tools |-> {"read", "write"}],
      [token |-> "t2", tools |-> {"read", "write"}],
      [token |-> "t1", tools |-> {"read"}],
      [token |-> "", tools |-> {"read", "write"}]>>

Input(body, token, method, permitted) ==
    [body |-> body, token |-> token, method |-> method, permitted |-> permitted]

(* Calls within scope and policy, out of the one, out of the other, one    *)
(* with a token that is not ASCII, and every other body.                   *)
MCInputs ==
    {Input("call", "t1", "read", TRUE), Input("call", "t1", "write", TRUE),
     Input("call", "t2", "write", FALSE), Input("call", "", "read", TRUE),
     Input("shapeless", "t2", "read", TRUE), Input("shapeless", "t1", "write", TRUE),
     Input("call", "tx", "read", TRUE),
     Input("unnamed", "t2", "", FALSE), Input("plain", "t2", "", FALSE),
     Input("garbage", "", "", FALSE),
     Input("undecodable", "t2", "", FALSE)}

ThreeRequests == {"a", "b", "c"}

Passes == Input("call", "t1", "read", TRUE)
OfNobody == Input("garbage", "", "", FALSE)

Load(a, b, c) ==
    [r \in ThreeRequests |-> CASE r = "a" -> a [] r = "b" -> b [] r = "c" -> c]

(* Anything beside a call that is let through or one of nobody, so that    *)
(* the two have an event each; and three that have, so that the log may    *)
(* lose a line and go on.                                                  *)
MCMayBe ==
    {Load(MCInputs, {Passes, OfNobody}, {}), Load({Passes}, {OfNobody}, {OfNobody})}
=============================================================================
