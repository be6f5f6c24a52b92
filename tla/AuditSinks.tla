------------------------------ MODULE AuditSinks ------------------------------
(***************************************************************************)
(* The audit sinks (adapters/audit/) and the command that follows one      *)
(* (`apg audit tail --follow`, cli.py).                                    *)
(*                                                                         *)
(* An event is its position in `offered`, the history of all writes.  A    *)
(* write never raises: what goes wrong with it is kept here as history.    *)
(* The file of the jsonl sink may end within a line.  A line that lacks    *)
(* nothing but its end can be read, until more text follows it.            *)
(*                                                                         *)
(* The file system, the database file and the Splunk collector are         *)
(* external, with what the code provides for: a write, a commit or a POST  *)
(* may fail, a POST that is given up may still arrive.                     *)
(***************************************************************************)
EXTENDS Integers, Sequences

CONSTANTS Limit  \* --limit of the tail: events it shows first

ASSUME SinkAssumption == Limit \in Nat \ {0}

Sinks == {"jsonl", "sqlite", "splunk"}

VARIABLES sink,     \* the sink that build_audit_sink picked
          offered,  \* history: every event written, in order
          stored,   \* what a reader, or the collector, gets
          ending,   \* jsonl: how the file ends, one of Endings
          withdrawn,\* history: events that could be read and no longer can
          pending,  \* sqlite: inserted and not committed; splunk: the queue
          posting,  \* splunk: the event the worker is posting, at most one
          late,     \* splunk: given up, but perhaps still on its way
          failed,   \* history: events whose write, commit or POST failed
          spoilt,   \* history: events glued to the line before, which had no end
          tail,     \* the follower: "off", "shown" or "watching"
          printed,  \* what it printed
          baseline, \* how many events it has seen
          known     \* history: the events that were there when it began to watch

trail == <<offered, stored>>
splunk == <<posting, late>>
file == <<ending, withdrawn>>
follower == <<tail, printed, baseline, known>>
sinkVars == <<sink, trail, file, pending, splunk, failed, spoilt, follower>>

(* The last line has its end, lacks nothing else, or lacks more.           *)
Endings == {"whole", "unended", "piece"}

Elements(seq) == {seq[i] : i \in DOMAIN seq}

SinkInit ==
    /\ sink \in Sinks
    /\ offered = <<>> /\ stored = <<>>
    /\ ending = "whole" /\ withdrawn = {} /\ pending = <<>>
    /\ posting = {} /\ late = {}
    /\ failed = {} /\ spoilt = {}
    /\ tail = "off" /\ printed = <<>> /\ baseline = 0 /\ known = {}
-----------------------------------------------------------------------------
(* write.                                                                  *)

(* The events that stay readable whatever follows.                         *)
Firm == IF ending = "unended" THEN Len(stored) - 1 ELSE Len(stored)

(* Text after a line without an end is glued to it; no reader can parse    *)
(* the two, nor any longer the one.                                        *)
Glue ==
    /\ stored' = SubSeq(stored, 1, Firm)
    /\ withdrawn' = withdrawn \cup {stored[i] : i \in Firm + 1..Len(stored)}

(* JsonlAuditSink: open, write and close.  The line is written, perhaps    *)
(* all but its end; or it is glued to the one before; or only a piece of   *)
(* it is written; or nothing is.                                           *)
AppendLine(n) ==
    /\ sink = "jsonl"
    /\ \/ /\ ending = "whole"
          /\ stored' = Append(stored, n)
          /\ \/ ending' = "whole" /\ UNCHANGED failed
             \/ ending' = "unended" /\ failed' = failed \cup {n}
          /\ UNCHANGED <<withdrawn, spoilt>>
       \/ /\ ending # "whole"
          /\ Glue
          /\ ending' = "whole"
          /\ spoilt' = spoilt \cup {n}
          /\ UNCHANGED failed
       \/ /\ Glue
          /\ ending' = "piece"
          /\ failed' = failed \cup {n}
          /\ UNCHANGED spoilt
       \/ /\ failed' = failed \cup {n}
          /\ UNCHANGED <<stored, file, spoilt>>
    /\ UNCHANGED pending

(* [variant] rows that waited for their commit come after the new one.     *)
InsertRowOutOfOrder(n) ==
    /\ sink = "sqlite"
    /\ \/ /\ stored' = Append(stored, n) \o pending
          /\ pending' = <<>>
          /\ UNCHANGED failed
       \/ /\ failed' = failed \cup {n}
          /\ pending' = Append(pending, n)
          /\ UNCHANGED stored
    /\ UNCHANGED <<file, spoilt>>

(* SqliteAuditSink: insert and commit.  A failed commit leaves the row in  *)
(* the open transaction, for the next commit to take along, or rolls it    *)
(* back with what was there.                                               *)
InsertRow(n) ==
    /\ sink = "sqlite"
    /\ \/ /\ stored' = stored \o Append(pending, n)
          /\ pending' = <<>>
          /\ UNCHANGED failed
       \/ /\ failed' = failed \cup {n}
          /\ pending' \in {pending, Append(pending, n), <<>>}
          /\ UNCHANGED stored
    /\ UNCHANGED <<file, spoilt>>

(* SplunkHecAuditSink: the queue has no limit.                             *)
Enqueue(n) ==
    /\ sink = "splunk"
    /\ pending' = Append(pending, n)
    /\ UNCHANGED <<stored, file, failed, spoilt>>

Write(e) ==
    /\ offered' = Append(offered, e)
    /\ LET n == Len(offered) + 1
       IN  AppendLine(n) \/ InsertRow(n) \/ Enqueue(n)
    /\ UNCHANGED <<sink, splunk, follower>>
-----------------------------------------------------------------------------
(* The worker thread of the Splunk sink, and the collector.                *)
PostStarts ==
    /\ sink = "splunk"
    /\ posting = {} /\ pending # <<>>
    /\ posting' = {Head(pending)}
    /\ pending' = Tail(pending)
    /\ UNCHANGED <<sink, trail, file, late, failed, spoilt, follower>>

(* [variant] a POST that failed is put back into the queue.                *)
PostFailsAndRetries ==
    /\ posting # {}
    /\ posting' = {}
    /\ \E n \in posting : pending' = Append(pending, n)
    /\ late' = late \cup posting
    /\ UNCHANGED <<sink, trail, file, failed, spoilt, follower>>

(* A timeout, a refused connection, a status other than 200: all the same  *)
(* to _run, which goes on with the next event.  The collector may have the *)
(* event, get it later, or never.                                          *)
PostFails ==
    /\ posting # {}
    /\ posting' = {}
    /\ failed' = failed \cup posting
    /\ late' = late \cup posting
    /\ UNCHANGED <<sink, trail, file, pending, spoilt, follower>>

PostReturns ==
    /\ posting # {}
    /\ posting \subseteq Elements(stored)
    /\ posting' = {}
    /\ UNCHANGED <<sink, trail, file, pending, late, failed, spoilt, follower>>

(* The collector: an event arrives once, if it does.                       *)
Collect(n) ==
    /\ sink = "splunk"
    /\ n \in posting \cup late
    /\ n \notin Elements(stored)
    /\ stored' = Append(stored, n)
    /\ UNCHANGED <<sink, offered, file, pending, splunk, failed, spoilt, follower>>
-----------------------------------------------------------------------------
(* close, and the end of the process with the sink open.                   *)

(* The worker has come to the stop mark, which is behind every event.      *)
Drained == sink = "splunk" => pending = <<>> /\ posting = {}

(* What memory held is gone; a POST may be on its way.                     *)
SinkEnds ==
    /\ pending' = <<>>
    /\ posting' = {}
    /\ late' = late \cup posting
    /\ UNCHANGED <<sink, trail, file, failed, spoilt, follower>>
-----------------------------------------------------------------------------
(* apg audit tail --follow, a process of its own.                          *)

(* read; the forwarding sinks return nothing, so there is nothing to see.  *)
View == stored

Last(seq, n) == IF Len(seq) <= n THEN seq ELSE SubSeq(seq, Len(seq) - n + 1, Len(seq))

TailShows ==
    /\ tail = "off"
    /\ sink # "splunk"
    /\ tail' = "shown"
    /\ printed' = Last(View, Limit)
    /\ UNCHANGED <<sink, trail, file, pending, splunk, failed, spoilt, baseline, known>>

(* The file is read a second time, for its length.                         *)
TailWatches ==
    /\ tail = "shown"
    /\ tail' = "watching"
    /\ baseline' = Len(View)
    /\ known' = Elements(View)
    /\ UNCHANGED <<sink, trail, file, pending, splunk, failed, spoilt, printed>>

(* [variant] the events are counted again, after they were read.           *)
TailPollsOneBehind ==
    /\ tail = "watching"
    /\ baseline # Len(View)
    /\ printed' = printed \o SubSeq(View, baseline + 1, Len(View))
    /\ baseline' = baseline + 1
    /\ UNCHANGED <<sink, trail, file, pending, splunk, failed, spoilt, tail, known>>

(* The log may have become shorter; then the baseline does.                *)
TailPolls ==
    /\ tail = "watching"
    /\ baseline # Len(View)
    /\ printed' = printed \o SubSeq(View, baseline + 1, Len(View))
    /\ baseline' = Len(View)
    /\ UNCHANGED <<sink, trail, file, pending, splunk, failed, spoilt, tail, known>>
=============================================================================
