---------------------------- MODULE ConsoleClient ----------------------------
(***************************************************************************)
(* What the views of the web console share: the part of the server they     *)
(* read and change, the requests whose handlers are waiting for an answer,  *)
(* and the React state of the mounted view.                                 *)
(*                                                                          *)
(* A handler is an async function: it runs to its first await, sends a      *)
(* request, and goes on when the answer comes.  Requests are answered in    *)
(* any order, may fail, and read the server at any time between their       *)
(* sending and their answer.  No view cancels a request.                    *)
(***************************************************************************)
EXTENDS Naturals, FiniteSets, Sequences

CONSTANTS
    Nil,
    MaxRuns,      \* runs the server may come to hold
    MaxTests,     \* saved regression tests
    MaxReplays,   \* exploratory replays
    MaxPending    \* requests a view may be waiting for

ASSUME BoundsAssumption == /\ {MaxTests, MaxReplays} \subseteq Nat
                           /\ {MaxRuns, MaxPending} \subseteq Nat \ {0}

VARIABLES
    server,   \* [runs, replays: how many, newest = largest; tests: a
              \*  sequence; ran: how often the tests have been run]
    pending,  \* the awaiting handlers, one record each
    ui,       \* the React state of the mounted view, a record of its own shape
    past      \* history: what was pending when the view was last reset

clientvars == <<server, pending, ui, past>>

Run == 1..MaxRuns

(* null is no number, and no handler.                                       *)
ASSUME NilAssumption == Nil \notin Nat \cup {"load", "switch", "trace", "refresh", "run"}

(* An exploratory replay; a test is the number of the replay it was         *)
(* promoted from, 0 when another client promoted it.                        *)
Replay == [no : 1..MaxReplays, run : Run, done : BOOLEAN]

EmptyServer == [runs |-> 0, replays |-> 0, tests |-> <<>>, ran |-> 0]
-----------------------------------------------------------------------------
(* A request of the handler op at its await "stage"; run and arg are what   *)
(* its closure holds; a request for a list knows what the list held when it *)
(* was sent.  no tells equal requests apart.                                *)
Seen(stage, s) == IF stage \in {"list", "lists", "runs"}
                  THEN [runs |-> s.runs, tests |-> Len(s.tests), ran |-> s.ran] ELSE Nil

NewRequest(op, stage, run, arg) ==
    [no |-> 1, op |-> op, stage |-> stage, run |-> run, arg |-> arg, seen |-> Seen(stage, server)]

With(others, request) ==
    others \cup {CHOOSE r \in {[request EXCEPT !.no = n] : n \in 1..MaxPending} : r \notin others}

Send(op, stage, run, arg) ==
    /\ Cardinality(pending) < MaxPending
    /\ pending' = With(pending, NewRequest(op, stage, run, arg))

(* The handler of p sends its next request, or returns.                     *)
Goes(p, stage, run) ==
    pending' = With(pending \ {p}, [p EXCEPT !.stage = stage, !.run = run, !.seen = Seen(stage, server')])

Returns(p) == pending' = pending \ {p}

(* GET: a list as it was at some moment since it was asked for.             *)
RunsAnswer(p)  == p.seen.runs..server.runs
TestsAnswer(p) == p.seen.tests..Len(server.tests)

RanAnswer(p)   == p.seen.ran..server.ran

(* POST: what the server does before it answers.                            *)
RecordRun == /\ server.runs < MaxRuns
             /\ server' = [server EXCEPT !.runs = @ + 1]

StoreReplay == /\ server.replays < MaxReplays
               /\ server' = [server EXCEPT !.replays = @ + 1]

NewReplay(run, done) == [no |-> server.replays + 1, run |-> run, done |-> done]

(* Only a completed replay is promoted; each time to a test of its own.     *)
SaveTest(replay) == /\ replay.done
                    /\ Len(server.tests) < MaxTests
                    /\ server' = [server EXCEPT !.tests = Append(@, replay.no)]

RunTests == /\ server.ran < MaxRuns
            /\ server' = [server EXCEPT !.ran = @ + 1]

(* Another client, or a handler whose view is gone or got no answer.        *)
RunElsewhere  == RecordRun /\ UNCHANGED <<pending, ui, past>>

TestElsewhere == /\ Len(server.tests) < MaxTests
                 /\ server' = [server EXCEPT !.tests = Append(@, 0)]
                 /\ UNCHANGED <<pending, ui, past>>
-----------------------------------------------------------------------------
(* A button whose loading flag is busy = op takes no click meanwhile.       *)
Offered(op) == ui.busy # op

SetBusy(u, op) == [u EXCEPT !.busy = op]

Waiting(op) == {p \in pending : p.op = op}

PendingRuns == {p.run : p \in pending} \ {Nil}

Saved(replay) == \E i \in 1..Len(server.tests) : server.tests[i] = replay.no
=============================================================================
