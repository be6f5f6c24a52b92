------------------------------ MODULE MCConsole ------------------------------
(***************************************************************************)
(* Small instances of Console.                                             *)
(***************************************************************************)
EXTENDS Console

Call(tool, permitted, whitelisted, effect, n) ==
    [tool |-> tool, permitted |-> permitted, whitelisted |-> whitelisted,
     effect |-> effect, rows |-> n]

Select == Call("db", TRUE, FALSE, "reads", 2)
Delete == Call("db", FALSE, FALSE, "writes", 0)
Insert == Call("db", TRUE, FALSE, "writes", 0)
NoSuchColumn == Call("db", TRUE, FALSE, "fails on quota", 0)
Metadata == Call("http", TRUE, FALSE, "reads", 0)
Approved == Call("http", TRUE, TRUE, "reads", 0)
Unlisted == Call("http", FALSE, FALSE, "reads", 0)
Quota == Call("quota", TRUE, TRUE, "reads", 0)

MCCalls == {Select, Delete, Insert, NoSuchColumn, Metadata, Approved, Unlisted, Quota}

(* A scenario on the database, one of any kind, and a run of the dashboard.*)
MCRuns == {"query", "any", "demo"}
MCLive == {"query", "any"}

MCReplies == [r \in MCRuns |->
    CASE r = "query" -> {Select, Insert, NoSuchColumn}
      [] r = "any" -> {Select, Approved, Unlisted}
      [] r = "demo" -> {Select, Metadata, Quota}]

MCFallback == [r \in MCRuns |->
    CASE r = "query" -> {Delete} [] r = "any" -> {Delete, Metadata} [] r = "demo" -> {}]

(* One call; or two calls, of which one brings records.                    *)
MCLimits == {[calls |-> 1, rows |-> 9], [calls |-> 2, rows |-> 1]}
=============================================================================
