----------------------------- MODULE HttpAsync ------------------------------
(***************************************************************************)
(* TC_HttpAsync of src/tcinclude/tc_http_async.h and .cpp: one thread of a *)
(* pool runs all requests on non-blocking sockets, with an edge-triggered  *)
(* epoll and a TC_TimeoutQueue, while the program, or a callback, adds     *)
(* requests and the program waits for them to end.                         *)
(*                                                                         *)
(* A request is its uniqId.  A socket has a number, which is used again    *)
(* once it is closed.  The server and the network may answer, stop, close  *)
(* or reset the connection at any time.  Callbacks do not throw, but for   *)
(* onReceive, and only the last callback of a request adds requests.       *)
(***************************************************************************)
EXTENDS TimeoutQueue, FiniteSets

CONSTANTS
    Fds,            \* the numbers of the sockets, not Invalid
    MaxRequests     \* bound: how many of the messages are requests

Invalid == 0
Requests == 1..MaxRequests
Callers == {"program", "callback"}

ASSUME HttpAsyncAssumption == Invalid \notin Fds /\ MaxRequests \in 0..MaxIds

VARIABLES
    fd,             \* [r] _fd, Invalid when it is closed or not there yet
    conn,           \* [r] how far the connection is
    \* The epoll
    registered,     \* [f] the request f was added for, 0 for none
    ready,          \* the sockets whose state changed since they were polled
    \* doAsyncRequest
    issuing,        \* [c] where it is
    added,          \* [c] its request
    addFd,          \* [c] the socket it is to add to the epoll
    \* The thread of run
    run,            \* where it is
    batch,          \* the events of the last poll not dealt with yet
    current,        \* the request it deals with, 0 for none
    outcome,        \* the callback that follows when current is closed
    terminate,      \* _terminate
    \* The thread that waits
    program,        \* "idle", or where waitForAllDone is
    limited,        \* has it a limit of time?
    \* History
    closes,         \* [r] how often onClose was called
    finals,         \* [r] how often onResponse, onTimeout or onException was after it
    failed,         \* the requests whose answer could not be decoded or received
    chained         \* has a callback added a request?

connections == <<fd, conn, registered, ready>>
issue == <<issuing, added, addFd>>
working == <<run, batch, current, outcome>>
waiting == <<program, limited>>
history == <<closes, finals, failed, chained>>
vars == <<queueVars, connections, issue, working, terminate, waiting, history>>

Stages == {"none", "connecting", "up", "sent", "partial", "answered", "closed", "reset"}

TypeOK ==
    /\ QueueTypeOK
    /\ fd \in [Requests -> Fds \cup {Invalid}]
    /\ conn \in [Requests -> Stages]
    /\ registered \in [Fds -> 0..MaxIds]
    /\ ready \subseteq Fds
    /\ issuing \in [Callers -> {"idle", "getfd", "add"}]
    /\ added \in [Callers -> 0..MaxIds]
    /\ addFd \in [Callers -> Fds \cup {Invalid}]
    /\ run \in {"none", "queued", "loop", "collect", "poll", "events", "receive", "send",
                "close", "closefd", "called", "done"}
    /\ batch \subseteq [id : 0..MaxIds, fd : Fds, events : SUBSET {"in", "out", "err"}]
    /\ current \in 0..MaxIds
    /\ outcome \in {"none", "response", "timeout", "exception"}
    /\ terminate \in BOOLEAN
    /\ program \in {"idle", "waiting", "terminating"}
    /\ limited \in BOOLEAN
    /\ closes \in [Requests -> 0..2] /\ finals \in [Requests -> 0..2]
    /\ failed \subseteq Requests
    /\ chained \in BOOLEAN

Init ==
    /\ QueueInit
    /\ fd = [r \in Requests |-> Invalid] /\ conn = [r \in Requests |-> "none"]
    /\ registered = [f \in Fds |-> 0] /\ ready = {}
    /\ issuing = [c \in Callers |-> "idle"]
    /\ added = [c \in Callers |-> 0] /\ addFd = [c \in Callers |-> Invalid]
    /\ run = "none" /\ batch = {} /\ current = 0
    /\ outcome = "none"
    /\ terminate = FALSE
    /\ program = "idle" /\ limited = FALSE
    /\ closes = [r \in Requests |-> 0] /\ finals = [r \in Requests |-> 0]
    /\ failed = {} /\ chained = FALSE

-----------------------------------------------------------------------------
(* The sockets and the server, as the code uses them                       *)

Open(f) == \E r \in Requests : fd[r] = f
Owner(f) == CHOOSE r \in Requests : fd[r] = f

\* What epoll reports of a connection.
Readiness(stage) ==
    CASE stage \in {"none", "connecting"} -> {}
      [] stage \in {"up", "sent"} -> {"out"}
      [] stage \in {"partial", "answered", "closed"} -> {"in", "out"}
      [] stage = "reset" -> {"in", "out", "err"}

\* The network or the server changes the state of a connection.
Becomes(r, stages, stage) ==
    /\ fd[r] # Invalid /\ conn[r] \in stages
    /\ conn' = [conn EXCEPT ![r] = stage]
    /\ ready' = IF registered[fd[r]] # 0 THEN ready \cup {fd[r]} ELSE ready
    /\ UNCHANGED <<queueVars, fd, registered, issue, working, terminate, waiting, history>>

Peer(r) ==
    \/ Becomes(r, {"connecting"}, "up")
    \/ Becomes(r, {"sent"}, "partial")
    \/ Becomes(r, {"sent", "partial"}, "answered")
    \/ Becomes(r, {"up", "sent", "partial"}, "closed")
    \/ Becomes(r, Stages \ {"none", "reset"}, "reset")

-----------------------------------------------------------------------------
(* doAsyncRequest                                                          *)

\* The socket is connecting, the request is numbered and in the queue.  (One that
\* cannot connect is forgotten without a callback.)
Submit(c) ==
    /\ issuing[c] = "idle"
    /\ IF c = "program" THEN program = "idle" /\ ~terminate ELSE run = "called"
    /\ uniqId < MaxRequests /\ push
    /\ \E f \in Fds : ~Open(f) /\ fd' = [fd EXCEPT ![uniqId + 1] = f]
    /\ conn' = [conn EXCEPT ![uniqId + 1] = "connecting"]
    /\ issuing' = [issuing EXCEPT ![c] = "getfd"]
    /\ added' = [added EXCEPT ![c] = uniqId + 1]
    /\ chained' = (chained \/ c = "callback")
    /\ UNCHANGED <<registered, ready, addFd, working, terminate, waiting,
                   closes, finals, failed>>

\* The request may have timed out meanwhile, and its socket be closed.
GetFd(c) ==
    /\ issuing[c] = "getfd"
    /\ issuing' = [issuing EXCEPT ![c] = "add"]
    /\ addFd' = [addFd EXCEPT ![c] = fd[added[c]]]
    /\ UNCHANGED <<queueVars, connections, added, working, terminate, waiting, history>>

\* Mutant: a request is added for the events to come only.
AddMisses(c) ==
    /\ issuing[c] = "add"
    /\ issuing' = [issuing EXCEPT ![c] = "idle"]
    /\ added' = [added EXCEPT ![c] = 0] /\ addFd' = [addFd EXCEPT ![c] = Invalid]
    /\ IF addFd[c] # Invalid /\ Open(addFd[c]) /\ registered[addFd[c]] = 0
         THEN registered' = [registered EXCEPT ![addFd[c]] = added[c]]
         ELSE UNCHANGED registered
    /\ UNCHANGED <<queueVars, fd, conn, ready, working, terminate, waiting, history>>

\* epoll_ctl fails, which nobody looks at, for a socket that is closed or that was added
\* before; its number may by now be that of another request's socket.
Add(c) ==
    /\ issuing[c] = "add"
    /\ issuing' = [issuing EXCEPT ![c] = "idle"]
    /\ added' = [added EXCEPT ![c] = 0] /\ addFd' = [addFd EXCEPT ![c] = Invalid]
    /\ IF addFd[c] # Invalid /\ Open(addFd[c]) /\ registered[addFd[c]] = 0
         THEN /\ registered' = [registered EXCEPT ![addFd[c]] = added[c]]
              /\ ready' = ready \cup {addFd[c]}
         ELSE UNCHANGED <<registered, ready>>
    /\ UNCHANGED <<queueVars, fd, conn, working, terminate, waiting, history>>

-----------------------------------------------------------------------------
(* The thread of run                                                       *)

Goto(place) == run' = place

\* start adds the job, which a thread of the pool takes.
start ==
    /\ program = "idle" /\ run = "none"
    /\ Goto("queued")
    /\ UNCHANGED <<queueVars, connections, issue, batch, current, outcome,
                   terminate, waiting, history>>

Begin ==
    /\ run = "queued"
    /\ Goto("loop")
    /\ UNCHANGED <<queueVars, connections, issue, batch, current, outcome,
                   terminate, waiting, history>>

\* The head of the loop, which every now and then begins with a look at the times.
LoopEnds ==
    /\ run = "loop" /\ terminate
    /\ Goto("done")
    /\ UNCHANGED <<queueVars, connections, issue, batch, current, outcome,
                   terminate, waiting, history>>

LoopTimeout ==
    /\ run = "loop" /\ ~terminate
    /\ StartTimeout
    /\ Goto("collect")
    /\ UNCHANGED <<connections, issue, batch, current, outcome,
                   terminate, waiting, history>>

\* timeout(df): the oldest request if its time is up, or the end of it.
Collect ==
    /\ run = "collect"
    /\ \/ /\ TimeoutFront
          /\ current' = Front(time) /\ outcome' = "timeout"
          /\ Goto("close")
       \/ /\ FinishTimeout
          /\ Goto("poll")
          /\ UNCHANGED <<current, outcome>>
    /\ UNCHANGED <<connections, issue, batch, terminate, waiting, history>>

\* epoll_wait, after the look at the times or without it.
Poll ==
    /\ run = "poll" \/ (run = "loop" /\ ~terminate)
    /\ batch' = {[id |-> registered[f], fd |-> f, events |-> Readiness(conn[Owner(f)])] :
                 f \in {g \in ready : Readiness(conn[Owner(g)]) # {}}}
    /\ ready' = {}
    /\ Goto("events")
    /\ UNCHANGED <<queueVars, fd, conn, registered, issue, current, outcome,
                   terminate, waiting, history>>

\* Mutant: the request of an event is dealt with, whether it is still in the queue or not.
EventAnyway ==
    /\ run = "events"
    /\ \E e \in batch :
          /\ batch' = batch \ {e}
          /\ current' = e.id
          /\ IF "err" \in e.events THEN Goto("close") /\ outcome' = "exception"
             ELSE /\ Goto(IF "in" \in e.events THEN "receive" ELSE "send")
                  /\ UNCHANGED outcome
    /\ UNCHANGED <<queueVars, connections, issue, terminate, waiting, history>>

\* The next event; one of a request that has left the queue is dropped (get, process).
NextEvent ==
    /\ run = "events"
    /\ \E e \in batch :
          /\ batch' = batch \ {e}
          /\ IF e.id \notin time THEN UNCHANGED <<run, current, outcome>>
             ELSE /\ current' = e.id
                  /\ IF "err" \in e.events THEN Goto("close") /\ outcome' = "exception"
                     ELSE /\ Goto(IF "in" \in e.events THEN "receive" ELSE "send")
                          /\ UNCHANGED outcome
    /\ UNCHANGED <<queueVars, connections, issue, terminate, waiting, history>>

NoMoreEvents ==
    /\ run = "events" /\ batch = {}
    /\ Goto("loop")
    /\ UNCHANGED <<queueVars, connections, issue, batch, current, outcome,
                   terminate, waiting, history>>

\* The end of doReceive when the connection stays open.
AfterReceive == Goto("send") /\ UNCHANGED <<current, outcome>>

CloseWith(callback) == Goto("close") /\ outcome' = callback /\ UNCHANGED current

\* doReceive reads all there is and decodes it.
Receive ==
    /\ run = "receive"
    /\ LET stage == conn[current]
       IN \/ stage = "reset" /\ CloseWith("exception") /\ UNCHANGED failed
          \/ stage \notin {"answered", "closed", "reset"} /\ AfterReceive /\ UNCHANGED failed
          \* onReceive wants no more, or the answer is complete
          \/ /\ stage \in {"partial", "answered", "closed"}
             /\ CloseWith("none") /\ UNCHANGED failed
          \/ stage \in {"answered", "closed"} /\ CloseWith("response") /\ UNCHANGED failed
          \* the decoder or onReceive throws: onException, and the request stays
          \/ /\ stage \in {"partial", "answered", "closed"}
             /\ failed' = failed \cup {current} /\ AfterReceive
    /\ UNCHANGED <<queueVars, connections, issue, batch, terminate, waiting,
                   closes, finals, chained>>

\* doRequest; a request is sent in one piece.
Send ==
    /\ run = "send"
    /\ IF conn[current] = "reset" THEN CloseWith("exception") /\ UNCHANGED conn
       ELSE /\ conn' = IF conn[current] = "up" THEN [conn EXCEPT ![current] = "sent"] ELSE conn
            /\ Goto("events") /\ current' = 0 /\ UNCHANGED outcome
    /\ UNCHANGED <<queueVars, fd, registered, ready, issue, batch,
                   terminate, waiting, history>>

Count(n) == IF n < 2 THEN n + 1 ELSE 2

\* doClose, which calls onClose and takes the request out of the queue, ...
Close ==
    /\ run = "close"
    /\ Goto("closefd")
    /\ IF fd[current] = Invalid THEN UNCHANGED <<queueVars, closes>>
       ELSE closes' = [closes EXCEPT ![current] = Count(@)] /\ erase(current)
    /\ UNCHANGED <<connections, issue, batch, current, outcome, terminate,
                   waiting, finals, failed, chained>>

\* ... closes the socket, and the call of onResponse, onTimeout or onException after it.
CloseFd ==
    /\ run = "closefd"
    /\ Goto("called")
    /\ fd' = [fd EXCEPT ![current] = Invalid]
    /\ registered' = [f \in Fds |-> IF f = fd[current] THEN 0 ELSE registered[f]]
    /\ ready' = ready \ {fd[current]}
    /\ finals' = IF outcome = "none" THEN finals ELSE [finals EXCEPT ![current] = Count(@)]
    /\ UNCHANGED <<queueVars, conn, issue, batch, current, outcome, terminate,
                   waiting, closes, failed, chained>>

\* The callback returns, to the loop of timeout(df) or to that over the events.
CallReturns ==
    /\ run = "called" /\ issuing["callback"] = "idle"
    /\ Goto(IF deadline # NoPass THEN "collect" ELSE "events")
    /\ current' = 0 /\ outcome' = "none"
    /\ UNCHANGED <<queueVars, connections, issue, batch, terminate, waiting, history>>

-----------------------------------------------------------------------------
(* waitForAllDone, which ends with terminate                               *)

CallWait ==
    /\ program = "idle" /\ issuing["program"] = "idle" /\ ~terminate
    /\ program' = "waiting"
    /\ limited' \in BOOLEAN
    /\ UNCHANGED <<queueVars, connections, issue, working, terminate, history>>

\* The queue is empty, or the limit of time is over; until then the loop goes on,
\* at the latest every 100 ms.
Terminate ==
    /\ program = "waiting"
    /\ time = {} \/ limited
    /\ terminate' = TRUE
    /\ program' = "terminating"
    /\ UNCHANGED <<queueVars, connections, issue, working, limited, history>>

\* Mutant: terminate does not wait for the pool.
ReturnAtOnce ==
    /\ program = "terminating"
    /\ program' = "idle" /\ limited' = FALSE
    /\ UNCHANGED <<queueVars, connections, issue, working, terminate, history>>

\* _tpool.waitForAllDone.
Return ==
    /\ program = "terminating"
    /\ run \in {"none", "done"}
    /\ program' = "idle" /\ limited' = FALSE
    /\ UNCHANGED <<queueVars, connections, issue, working, terminate, history>>

-----------------------------------------------------------------------------
Network == LoopEnds \/ Collect \/ Poll \/ NextEvent \/ NoMoreEvents \/ Receive
           \/ Send \/ Close \/ CloseFd \/ CallReturns

Clock == Age /\ UNCHANGED <<connections, issue, working, terminate, waiting, history>>

Next ==
    \/ start \/ Begin \/ LoopTimeout \/ Network
    \/ \E c \in Callers : Submit(c) \/ GetFd(c) \/ Add(c)
    \/ \E r \in Requests : Peer(r)
    \/ CallWait \/ Terminate \/ Return
    \/ Clock

Spec == Init /\ [][Next]_vars

(***************************************************************************)
(* The threads go on.  The loop of run looks at the times again and again, *)
(* as its clock goes on, and polls each time.  The network, the server and *)
(* the program owe nothing, nor does time have to pass.                    *)
(***************************************************************************)
Fairness ==
    /\ WF_vars(Begin \/ Network)
    /\ SF_vars(LoopTimeout)
    /\ \A c \in Callers : WF_vars(GetFd(c) \/ Add(c))
    /\ WF_vars(Terminate \/ Return)

FairSpec == Spec /\ Fairness

-----------------------------------------------------------------------------
(* Properties                                                              *)

\* A request ends once, however its answer, its timeout and the end of its connection
\* race: onClose is called once and after it at most one of onResponse, onTimeout and
\* onException; and none of its callbacks comes while it is still being added, queued
\* and connected (doClose, timeout, doReceive, doException).
EndsOnce ==
    \A r \in Requests :
        /\ closes[r] <= 1 /\ finals[r] <= closes[r]
        /\ r \in time /\ conn[r] # "none" => closes[r] = 0 /\ fd[r] # Invalid
        /\ closes[r] = 1 /\ current # r => fd[r] = Invalid

\* When waitForAllDone without a limit returns, all requests have ended and their
\* callbacks have returned, unless a callback has added a request: the queue may be
\* found empty just before, and that request then never ends (waitForAllDone, run).
WaitsForAll ==
    [][program = "terminating" /\ program' = "idle" /\ ~limited /\ ~chained
       => /\ time = {} /\ current = 0
          /\ \A r \in Requests : closes[r] = IF r <= uniqId THEN 1 ELSE 0]_vars

\* A connection of a request in the queue on which run has something to do: it can be
\* written to, or its answer, its end or its error is there.
Due(r) ==
    /\ r \in time /\ run # "none"
    /\ conn[r] \in {"up", "answered", "closed", "reset"}
    /\ \E f \in Fds : fd[r] = f /\ registered[f] = r

\* While run goes on, a request whose time is up ends, and what there is to do on a
\* connection is done: no event is lost between the edge-triggered epoll, the batches it
\* is read in and the thread that adds the socket, unless the number of the socket was
\* added for another request first (run, doReceive, doRequest, doAsyncRequest).
RequestsEnd ==
    \A r \in Requests :
        /\ (r \in time /\ r <= horizon /\ run # "none") ~> (r \notin time \/ terminate)
        /\ Due(r) ~> (~Due(r) \/ r \in failed \/ terminate)
=============================================================================
