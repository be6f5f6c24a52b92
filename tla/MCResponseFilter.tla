--------------------------- MODULE MCResponseFilter ---------------------------
(***************************************************************************)
(* Values of three levels below the root, one more than are filtered.      *)
(***************************************************************************)
EXTENDS ResponseFilter

Leaf(kind, text) == [way \in {<<>>} |-> [kind |-> kind, text |-> text]]

Leaves == {Leaf("text", "plain"), Leaf("text", "secret"), Leaf("text", "secrets"),
           Leaf("other", "")}

Container(kind, parts) ==
    LET below == UNION {{<<i>> \o way : way \in DOMAIN parts[i]} : i \in DOMAIN parts}
    IN  [way \in {<<>>} \cup below |->
            IF way = <<>> THEN [kind |-> kind, text |-> ""] ELSE parts[Head(way)][Tail(way)]]

Over(seqs) == {Container(kind, parts) : kind \in Containers, parts \in seqs}

Singles(S) == {<<>>} \cup {<<v>> : v \in S}
Pairs(S) == {<<v, w>> : v \in S, w \in S}

OneLevel == Leaves \cup Over(Singles(Leaves) \cup Pairs(Leaves))
TwoLevels == OneLevel \cup Over(Singles(OneLevel))
ThreeLevels == TwoLevels \cup Over(Singles(TwoLevels) \cup Pairs(OneLevel))
=============================================================================
