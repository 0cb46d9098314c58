------------------------------- MODULE Client -------------------------------
(***************************************************************************)
(* One Client of src/src/Client.cpp, which belongs to one thread, and the  *)
(* server at the other end of its TCP connection.  TestCase_IOT::Execute   *)
(* makes one call of tcp_iot per request and judges the answer; SendHttp   *)
(* differs in when it takes an answer for complete.                        *)
(*                                                                         *)
(* An answer is a number of parts; the first has the text TestCase_IOT     *)
(* looks for, and the HTTP header, and the last has the newline tcp_iot    *)
(* looks for.  One recv returns at most RecvParts parts (1024 bytes), of   *)
(* one answer or of several.  recv that is interrupted (EINTR) is called   *)
(* again and is not modelled.                                              *)
(***************************************************************************)
EXTENDS Integers, Sequences, SequencesExt

CONSTANTS
    Sizes,      \* the numbers of parts an answer may have
    RecvParts,  \* how many parts one recv returns at most
    MaxCalls    \* bound: how many calls are made

ASSUME ClientAssumption ==
    /\ Sizes \subseteq Nat \ {0}
    /\ RecvParts \in Nat \ {0}
    /\ MaxCalls \in Nat

VARIABLES
    kind,       \* the function this thread calls: "tcp_iot" or "SendHttp"
    addrs,      \* did AddServer add a server?
    size,       \* how many parts the answers of this server have
    sockfd,     \* "closed" (-1), "unconnected" or "connected"
    at,         \* where the call is, "idle" between two calls
    total,      \* total_size, in parts
    rc,         \* what the last call returned, "none" before the first
    rsp,        \* rspBuffer: the parts the last call returned
    process,    \* "up", or "killed" by SIGPIPE
    \* The connection
    peer,       \* the server's end: "open", "closed", "reset", or "broken" when
                \* it has refused what was sent to it after it closed
    received,   \* the requests the server has not answered in full
    sent,       \* how many parts of the first of them it has sent
    stream,     \* the parts sent and not yet received
    \* History
    calls,      \* how many calls were made: the number of the current request
    timeouts,   \* calls that timed out on this connection
    answered,   \* answers the server has begun
    successes   \* requests TestCase_IOT counted as successful

given == <<kind, addrs, size>>
connection == <<peer, received, sent, stream>>
vars == <<given, sockfd, at, total, rc, rsp, process, connection, calls,
          timeouts, answered, successes>>

Part(request, n) == [request |-> request, part |-> n]
Parts == [request : 1..MaxCalls, part : 1..size]

TypeOK ==
    /\ kind \in {"tcp_iot", "SendHttp"}
    /\ addrs \in BOOLEAN
    /\ size \in Sizes
    /\ sockfd \in {"closed", "unconnected", "connected"}
    /\ at \in {"idle", "connect", "send", "recv"}
    /\ total \in Nat
    /\ rc \in {"none", "SDK_SUCCESS", "SDK_ERR_ADDRESS", "SDK_ERR_SOCKET"}
    /\ rsp \in Seq(Parts)
    /\ process \in {"up", "killed"}
    /\ peer \in {"open", "closed", "reset", "broken"}
    /\ received \in Seq(1..MaxCalls)
    /\ sent \in 0..(size - 1)
    /\ stream \in Seq(Parts)
    /\ calls \in 0..MaxCalls
    /\ timeouts \in Nat /\ answered \in Nat /\ successes \in Nat

Init ==
    /\ kind \in {"tcp_iot", "SendHttp"}
    /\ addrs \in BOOLEAN
    /\ size \in Sizes
    /\ sockfd = "closed" /\ at = "idle" /\ total = 0
    /\ rc = "none" /\ rsp = <<>>
    /\ process = "up"
    /\ peer = "open" /\ received = <<>> /\ sent = 0 /\ stream = <<>>
    /\ calls = 0 /\ timeouts = 0 /\ answered = 0 /\ successes = 0

-----------------------------------------------------------------------------
(* The client                                                              *)

\* The call returns `code' and the parts `buffer'.  TestCase_IOT::Execute counts
\* the request as successful when the call succeeded and the text it looks for,
\* which is in the first part of an answer, is in what was returned.
Return(code, buffer) ==
    /\ at' = "idle"
    /\ rc' = code
    /\ rsp' = buffer
    /\ successes' = IF code = "SDK_SUCCESS" /\ \E i \in DOMAIN buffer : buffer[i].part = 1
                    THEN successes + 1 ELSE successes

NoConnection ==
    peer' = "open" /\ received' = <<>> /\ sent' = 0 /\ stream' = <<>>

Call ==
    /\ process = "up"
    /\ at = "idle"
    /\ calls < MaxCalls
    /\ calls' = calls + 1
    /\ at' = IF sockfd = "closed" THEN "connect" ELSE "send"
    /\ total' = 0
    /\ UNCHANGED <<given, sockfd, rc, rsp, process, connection, timeouts,
                   answered, successes>>

\* socket() fails: sockfd is -1 again.
SocketFails ==
    /\ at = "connect"
    /\ Return("SDK_ERR_SOCKET", rsp)
    /\ UNCHANGED <<given, sockfd, total, process, connection, calls, timeouts, answered>>

\* GetServer finds no server.  The new socket stays as it is.
NoServer ==
    /\ at = "connect"
    /\ ~addrs
    /\ sockfd' = "unconnected"
    /\ Return("SDK_ERR_ADDRESS", rsp)
    /\ UNCHANGED <<given, total, process, connection, calls, timeouts, answered>>

Connect ==
    /\ at = "connect"
    /\ addrs
    /\ at' = "send"
    /\ sockfd' = "connected"
    /\ NoConnection
    /\ timeouts' = 0
    /\ UNCHANGED <<given, total, rc, rsp, process, calls, answered, successes>>

ConnectFails ==
    /\ at = "connect"
    /\ addrs
    /\ Return("SDK_ERR_SOCKET", rsp)
    /\ UNCHANGED <<given, sockfd, total, process, connection, calls, timeouts, answered>>

\* send() to a peer that has closed its end succeeds, the request is lost, and the
\* refusal of the peer arrives before the next send or later.
Send ==
    /\ at = "send"
    /\ sockfd = "connected"
    /\ at' = "recv"
    /\ \/ peer = "open" /\ received' = Append(received, calls) /\ UNCHANGED peer
       \/ peer = "closed" /\ peer' \in {"closed", "broken"} /\ UNCHANGED received
    /\ UNCHANGED <<given, sockfd, total, rc, rsp, process, sent, stream,
                   calls, timeouts, answered, successes>>

\* Mutant: the socket is not closed.
SendFailsOpen ==
    /\ at = "send"
    /\ sockfd = "connected"
    /\ peer = "reset"
    /\ sockfd' = "unconnected"
    /\ NoConnection
    /\ Return("SDK_ERR_SOCKET", rsp)
    /\ UNCHANGED <<given, total, process, calls, timeouts, answered>>

\* send() reports the reset that came after the last call.
SendFails ==
    /\ at = "send"
    /\ sockfd = "connected"
    /\ peer = "reset"
    /\ sockfd' = "closed"
    /\ NoConnection
    /\ Return("SDK_ERR_SOCKET", rsp)
    /\ UNCHANGED <<given, total, process, calls, timeouts, answered>>

\* send() on a socket that was never connected, or whose peer has refused what was
\* sent before, raises SIGPIPE, which the program does not ignore.
SendKills ==
    /\ at = "send"
    /\ sockfd = "unconnected" \/ peer = "broken"
    /\ process' = "killed"
    /\ UNCHANGED <<given, sockfd, at, total, rc, rsp, connection, calls,
                   timeouts, answered, successes>>

\* Mutant: the beginning of an answer is taken for all of it.
CompleteBegun(chunk, n) == \E i \in DOMAIN chunk : chunk[i].part = 1

\* Is an answer complete, when the last recv returned `chunk' and all of this call
\* together n parts?  tcp_iot looks for the newline.  SendHttp parses a header that
\* must be in this very chunk, and compares the length it states with the bytes of
\* all chunks of the call.
Complete(chunk, n) ==
    IF kind = "tcp_iot" THEN \E i \in DOMAIN chunk : chunk[i].part = size
    ELSE \E i \in DOMAIN chunk : chunk[i].part = 1 /\ n >= size + i - 1

\* Some of what has arrived.  Only the last chunk is returned.
Recv ==
    /\ process = "up"
    /\ at = "recv"
    /\ \E n \in 1..RecvParts :
          /\ n <= Len(stream)
          /\ stream' = SubSeq(stream, n + 1, Len(stream))
          /\ total' = total + n
          /\ LET chunk == SubSeq(stream, 1, n) IN
             IF Complete(chunk, total')
             THEN Return("SDK_SUCCESS", chunk)
             ELSE UNCHANGED <<at, rc, rsp, successes>>
    /\ UNCHANGED <<given, sockfd, process, peer, received, sent, calls,
                   timeouts, answered>>

\* SendHttp closes the connection when the answer says so.
RecvClose ==
    /\ process = "up"
    /\ at = "recv"
    /\ kind = "SendHttp"
    /\ \E n \in 1..RecvParts :
          /\ n <= Len(stream)
          /\ total' = total + n
          /\ Complete(SubSeq(stream, 1, n), total')
          /\ Return("SDK_SUCCESS", SubSeq(stream, 1, n))
    /\ sockfd' = "closed"
    /\ NoConnection
    /\ UNCHANGED <<given, process, calls, timeouts, answered>>

\* Mutant: returns what the buffer of the caller had in it.
RecvTimeoutStale ==
    /\ process = "up"
    /\ at = "recv"
    /\ stream = <<>> /\ peer = "open"
    /\ Return("SDK_SUCCESS", rsp)
    /\ timeouts' = timeouts + 1
    /\ UNCHANGED <<given, sockfd, total, process, connection, calls, answered>>

\* Mutant: waits on, as after an interruption.
RecvTimeoutRetries ==
    /\ process = "up"
    /\ at = "recv"
    /\ stream = <<>> /\ peer = "open"
    /\ UNCHANGED vars

\* Five seconds without a byte: SDK_SUCCESS, an empty buffer, the socket kept.
RecvTimeout ==
    /\ process = "up"
    /\ at = "recv"
    /\ stream = <<>> /\ peer = "open"
    /\ Return("SDK_SUCCESS", <<>>)
    /\ timeouts' = timeouts + 1
    /\ UNCHANGED <<given, sockfd, total, process, connection, calls, answered>>

\* The peer has closed or reset the connection: recv returns 0, or an error the
\* first time, and is called again, for ever.
RecvSpins ==
    /\ process = "up"
    /\ at = "recv"
    /\ stream = <<>> /\ peer # "open"
    /\ UNCHANGED vars

ClientNext ==
    \/ SocketFails \/ NoServer \/ Connect \/ ConnectFails
    \/ Send \/ SendFails \/ SendKills
    \/ Recv \/ RecvClose \/ RecvTimeout \/ RecvSpins

-----------------------------------------------------------------------------
(* The server: external, what the client must reckon with                   *)

\* It answers the requests it receives in order, as slowly as it likes.
Answer ==
    /\ sockfd = "connected" /\ peer = "open"
    /\ received # <<>>
    /\ stream' = Append(stream, Part(Head(received), sent + 1))
    /\ answered' = IF sent = 0 THEN answered + 1 ELSE answered
    /\ IF sent + 1 = size THEN sent' = 0 /\ received' = Tail(received)
       ELSE sent' = sent + 1 /\ UNCHANGED received
    /\ UNCHANGED <<given, sockfd, at, total, rc, rsp, process, peer, calls,
                   timeouts, successes>>

\* It closes the connection, or aborts it; what it sent before still arrives.
Hangup ==
    /\ sockfd = "connected" /\ peer = "open"
    /\ peer' \in {"closed", "reset"}
    /\ UNCHANGED <<given, sockfd, at, total, rc, rsp, process, received, sent,
                   stream, calls, timeouts, answered, successes>>

-----------------------------------------------------------------------------
\* The thread makes no more calls: the bound is reached or the process is gone.
Done ==
    /\ (at = "idle" /\ calls = MaxCalls) \/ process = "killed"
    /\ UNCHANGED vars

Next == Call \/ ClientNext \/ Answer \/ Hangup \/ Done

Spec == Init /\ [][Next]_vars

\* The thread runs and the receive timer of the kernel expires.
FairSpec == Spec /\ WF_vars(ClientNext)

-----------------------------------------------------------------------------
Succeeded == at = "idle" /\ rc = "SDK_SUCCESS"

\* Requests and answers have no number by which Client could tell that an answer
\* is late.  Still, an answer is behind the request it is returned for by no more
\* requests than timed out on this connection; without a timeout it is its own.
LagBound ==
    Succeeded => \A i \in DOMAIN rsp : rsp[i].request + timeouts >= calls

\* What TestCase_IOT counts as successful the server has answered: no answer,
\* split, late or returned together with another, is counted twice.
SuccessesAnswered == successes <= answered

\* SIGPIPE ends the test only if no server is configured, since no error but that
\* of GetServer leaves a socket behind that is not connected, or if a call timed out
\* on a connection the server then closed: only the answer that came too late lets
\* a later call return and the next one send to the closed peer again.
KilledOnlyAfterTimeout ==
    process = "killed" => ~addrs \/ (peer = "broken" /\ timeouts > 0)

\* A call returns, however the server answers or fails to, unless the server
\* closes or resets the connection meanwhile or SIGPIPE ends the process.
CallReturns ==
    at # "idle" ~> at = "idle" \/ peer # "open" \/ process = "killed"

\* "Only on success is rsp valid" says the comment on the return value in
\* Client.h: a call that returns SDK_SUCCESS returns an answer.  A timeout does not.
SuccessMeansAnswer == Succeeded => rsp # <<>>
=============================================================================
