------------------------------ MODULE MCReader ------------------------------
(* Small instances of Reader, each with what it may do: two writers and the  *)
(* operator alone; reads against retention; tailers, watches and closing.    *)
EXTENDS Reader

CONSTANTS w1, w2, r1, t1, v1, v2

MCRequests == {[ver |-> 1, before |-> 1], [ver |-> 2, before |-> 2]}

None == [after |-> 1, writers |-> {w1}, create |-> FALSE, lsns |-> 1, policies |-> 0,
         clients |-> {t1}, ops |-> {}, calls |-> 1, starts |-> {0}, fresh |-> {"latest"},
         faults |-> 0, stops |-> 0, evictions |-> 0, watchers |-> {v1}, watches |-> 1,
         follows |-> t1, strategy |-> "none"]

Catalog == [None EXCEPT !.writers = {w1, w2}, !.create = TRUE,
                        !.lsns = 3, !.policies = 2, !.clients = {}, !.watchers = {}]

Reads == [None EXCEPT !.lsns = 3, !.policies = 2, !.clients = {r1}, !.follows = r1,
                      !.watchers = {}, !.faults = 1, !.ops = {"read", "consume", "fetch", "stamp"}]

Cursors == [None EXCEPT !.lsns = 3, !.policies = 1, !.clients = {r1}, !.follows = r1,
                        !.watchers = {}, !.calls = 4,
                        !.ops = {"head", "next", "checkpoint", "resume", "seek"}]

Shared == [None EXCEPT !.clients = {r1, t1}, !.follows = r1, !.calls = 2, !.stops = 1,
                       !.faults = 1, !.evictions = 1, !.fresh = {"cached", "latest"},
                       !.watchers = {}, !.ops = {"read"}]

Tails == [None EXCEPT !.watches = 2, !.ops = {"tail", "remove"}]

Stops == [None EXCEPT !.stops = 1, !.ops = {"tail", "closeTailer"}]

Closes == [None EXCEPT !.follows = TheReader, !.ops = {"tail", "closeReader", "closeWatch"}]

Subscribes == [None EXCEPT !.lsns = 0, !.clients = {}, !.follows = v1, !.watchers = {v1, v2},
                           !.watches = 3, !.ops = {"remove", "closeWatch"}]

Ranges == [None EXCEPT !.lsns = 2, !.after = 3, !.clients = {r1, t1}, !.follows = r1,
                       !.watchers = {}, !.calls = 2, !.stops = 1, !.starts = {0, 1},
                       !.strategy = "ranges", !.ops = {"fetch"}]

Whole == [Ranges EXCEPT !.strategy = "whole"]

Auto == [Ranges EXCEPT !.strategy = "auto", !.policies = 1, !.faults = 1, !.stops = 0,
                       !.clients = {r1}, !.ops = {"fetch", "read", "stamp"}]

CloseWhile == [Whole EXCEPT !.follows = TheReader, !.starts = {0},
                          !.ops = {"fetch", "closeReader"}]

MCWorkloads == {Catalog, Reads, Cursors, Shared, Tails, Stops, Closes, Subscribes,
                Ranges, Whole, Auto, CloseWhile}
=============================================================================
