---------------------------- MODULE ResponseFilter ----------------------------
(***************************************************************************)
(* The redaction of secrets, in what a target answers (core/filter.py) and *)
(* in what an event says of a call's parameters (core/audit.py).           *)
(*                                                                         *)
(* A value is a tree, given by its nodes: a function from the ways that    *)
(* lead to them.  The root is at <<>>, and <<2, 1>> leads to the first     *)
(* part of the second part.  Of a text only matters whether it holds no    *)
(* secret, one or several.  Keys of a mapping are kept as they are by      *)
(* both, and left out.                                                     *)
(*                                                                         *)
(* The recursions are machines: `calls` has the calls that are yet to be   *)
(* made, each of them is a step.  They have no effect on each other, so    *)
(* their order, which in the code is that of the parts, is left open.      *)
(***************************************************************************)
EXTENDS Integers, Sequences

CONSTANTS Values,   \* answers
          MaxDepth  \* _MAX_DEPTH

Containers == {"map", "list"}
Secrets == {"secret", "secrets"}

Nodes == [kind : {"text"}, text : {"plain", "redacted"} \cup Secrets]
             \cup [kind : Containers \cup {"other"}, text : {""}]

(* The ways to the containers that a node is in.                           *)
Above(way) == {SubSeq(way, 1, n) : n \in 0..Len(way) - 1}

IsValue(v) ==
    /\ v \in [DOMAIN v -> Nodes]
    /\ <<>> \in DOMAIN v
    /\ \A way \in DOMAIN v : /\ way \in Seq(Nat)
                             /\ \A a \in Above(way) : a \in DOMAIN v /\ v[a].kind \in Containers

ASSUME FilterAssumption ==
    /\ MaxDepth \in Nat
    /\ \A v \in Values : IsValue(v)

VARIABLES value,   \* what the target answered
          doing,   \* "nothing", "filter" or "redact"
          copy,    \* the copy that is being made of a value
          calls,   \* the calls of _filter_value, or _redact_value, to come
          given,   \* what the agent gets, once it does
          logged   \* params_redacted, when the agent sends that on, as
                   \* parameters of another call

work == <<doing, copy, calls>>
vars == <<value, work, given, logged>>

Init ==
    /\ value \in Values
    /\ doing = "nothing" /\ copy = value /\ calls = {}
    /\ given = {} /\ logged = {}
-----------------------------------------------------------------------------
(* _filter_string, and _redact_string alike: the whole text goes.          *)
FilterString(node) == [node EXCEPT !.text = IF @ \in Secrets THEN "redacted" ELSE @]

Parts(v, way) == {w \in DOMAIN v : Len(w) = Len(way) + 1 /\ SubSeq(w, 1, Len(way)) = way}

(* What is done with a value of a kind that is known: a text is replaced,  *)
(* the parts of a mapping or a list, which nothing else has, get a call    *)
(* each.                                                                   *)
Masks(v, way) == copy' = IF v[way].kind = "text" THEN [v EXCEPT ![way] = FilterString(@)] ELSE v

OnParts(v, way, depth) == {[at |-> w, depth |-> depth] : w \in Parts(v, way)}

Makes(call) ==
    /\ call \in calls
    /\ Masks(copy, call.at)
    /\ calls' = (calls \ {call}) \cup OnParts(copy, call.at, call.depth + 1)

(* The answer itself is at no depth, and its parts at depth 0.             *)
FilterResponse ==
    /\ doing = "nothing" /\ given = {}
    /\ doing' = "filter"
    /\ Masks(value, <<>>)
    /\ calls' = OnParts(value, <<>>, 0)
    /\ UNCHANGED <<value, given, logged>>

(* [variant] one level more.                                               *)
FilterValueDeeper(call) ==
    /\ doing = "filter"
    /\ \/ call.depth <= MaxDepth /\ Makes(call)
       \/ call.depth > MaxDepth /\ call \in calls /\ calls' = calls \ {call} /\ copy' = copy
    /\ UNCHANGED <<value, doing, given, logged>>

(* At the depth where the filter stops, the value is left as it is.        *)
FilterValue(call) ==
    /\ doing = "filter"
    /\ \/ call.depth < MaxDepth /\ Makes(call)
       \/ call.depth >= MaxDepth /\ call \in calls /\ calls' = calls \ {call} /\ copy' = copy
    /\ UNCHANGED <<value, doing, given, logged>>

FilterReturns ==
    /\ doing = "filter" /\ calls = {}
    /\ doing' = "nothing"
    /\ given' = {copy}
    /\ UNCHANGED <<value, copy, calls, logged>>

(* The agent passes on what it was given, or the same from elsewhere, as a *)
(* member of the parameters: redact_params does with it what _redact_value *)
(* does with the member of a list.                                         *)
RedactParams ==
    /\ doing = "nothing" /\ given # {} /\ logged = {}
    /\ doing' = "redact"
    /\ copy' \in given \cup {value}
    /\ calls' = {[at |-> <<>>, depth |-> 0]}
    /\ UNCHANGED <<value, given, logged>>

(* [variant] the limit of the filter is taken for the log, too.            *)
RedactValueToTheDepth(call) ==
    /\ doing = "redact"
    /\ \/ call.depth < MaxDepth /\ Makes(call)
       \/ call.depth >= MaxDepth /\ call \in calls /\ calls' = calls \ {call} /\ copy' = copy
    /\ UNCHANGED <<value, doing, given, logged>>

(* Without a limit.                                                        *)
RedactValue(call) ==
    /\ doing = "redact"
    /\ Makes(call)
    /\ UNCHANGED <<value, doing, given, logged>>

RedactReturns ==
    /\ doing = "redact" /\ calls = {}
    /\ doing' = "nothing"
    /\ logged' = {copy}
    /\ UNCHANGED <<value, copy, calls, given>>

Next ==
    \/ FilterResponse
    \/ \E call \in calls : FilterValue(call) \/ RedactValue(call)
    \/ FilterReturns
    \/ RedactParams
    \/ RedactReturns

Spec == Init /\ [][Next]_vars
-----------------------------------------------------------------------------
(* v with the texts at those ways masked that hold a secret.               *)
Without(v, ways) ==
    [way \in DOMAIN v |->
        IF way \in ways /\ v[way].text \in Secrets THEN [v[way] EXCEPT !.text = "redacted"] ELSE v[way]]

(* "Stops recursing beyond _MAX_DEPTH": the agent gets the target's answer *)
(* with every text that holds a secret masked down to that depth, the      *)
(* last level included, and nothing else changed, below it or beside it.   *)
MaskedToTheDepth ==
    \A v \in given : v = Without(value, {way \in DOMAIN value : Len(way) <= MaxDepth})

(* params_redacted, in an event, has no secret at any depth, also where    *)
(* the filter had stopped, and apart from that says what was sent; whether *)
(* the answer had passed the filter before makes no difference to it.  The *)
(* event's denial_reason, which may repeat parameters, is not redacted and *)
(* not spoken of here.                                                     *)
LoggedClean == \A v \in logged : v = Without(value, DOMAIN value)
=============================================================================
