----------------------------- MODULE MCLearning -----------------------------
(* A small instance of Learning for TLC: two tools, calls that differ in   *)
(* one thing each, and the policies an operator may begin with.            *)
EXTENDS Learning

MCMethods  == {"query", "fetch"}
MCOps      == {"select", "drop"}
MCTables   == {"users"}
MCValues   == {1, 2}
MCKeywords == {"secret"}

Example  == <<"com", "example">>
Api      == <<"com", "example", "api">>
Metadata == <<"internal", "metadata">>
MCHosts     == {Example, Api, Metadata}
MCLinkLocal == {Metadata}

Call == [method |-> "query", op |-> {}, table |-> {}, value |-> {}, words |-> {},
         sql |-> "none", sqlOps |-> {}, sqlTables |-> {},
         destination |-> "none", host |-> Example, resolves |-> FALSE]

Fetch == [Call EXCEPT !.method = "fetch"]

(* What queries may ask for, ...                                           *)
Queries ==
    {[Call EXCEPT !.op = {"select"}],
     [Call EXCEPT !.op = {"drop"}, !.table = {"users"}],
     [Call EXCEPT !.op = {"select"}, !.sql = "parsed", !.sqlOps = {"select", "drop"}],
     [Call EXCEPT !.op = {"select"}, !.words = {"secret"}, !.value = {2}]}

(* ... and where fetches may go.                                           *)
Fetches ==
    {[Fetch EXCEPT !.destination = "url", !.host = Api],
     [Fetch EXCEPT !.destination = "url", !.host = Metadata],
     [Fetch EXCEPT !.destination = "bare"],
     [Fetch EXCEPT !.destination = "not_text"]}

MCTraffic == Queries \cup Fetches

(* A tool as it may be listed: not at all, disabled with lists, with lists *)
(* and with none.                                                          *)
Listed ==
    [DefaultTool EXCEPT !.allow = TRUE, !.operations = {"select"}, !.tables = {"users"},
                        !.limit = {1}, !.deny_keywords = {"secret"}, !.sql = TRUE,
                        !.destination_whitelist = {[wildcard |-> TRUE, name |-> Example]},
                        !.deny_destinations = {Example}]

Tools == {DefaultTool, Listed, [Listed EXCEPT !.allow = FALSE],
          [DefaultTool EXCEPT !.allow = TRUE]}

MCStartPolicies == [MCMethods -> Tools]
=============================================================================
