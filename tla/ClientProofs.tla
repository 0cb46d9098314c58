---------------------------- MODULE ClientProofs ----------------------------
(***************************************************************************)
(* Proofs about Client, for answers of any number of parts, any size of    *)
(* the chunks in which they arrive and any number of calls.                *)
(***************************************************************************)
EXTENDS Client, SequenceTheorems, FiniteSetTheorems, TLAPS

\* A step of the client, of its server, or none, under the names of the actions.
LEMMA NextCases ==
    ASSUME [Next]_vars
    PROVE  \/ Call \/ SocketFails \/ NoServer \/ Connect \/ ConnectFails
           \/ Send \/ SendFails \/ SendKills \/ Recv \/ RecvClose \/ RecvTimeout
           \/ Answer \/ Hangup \/ UNCHANGED vars
BY DEF Next, ClientNext, Done, RecvSpins

\* Neither the thread nor its server changes.
LEMMA GivenKept ==
    ASSUME [Next]_vars
    PROVE  kind' = kind /\ addrs' = addrs /\ size' = size /\ Parts' = Parts
<1>1. UNCHANGED given
  BY NextCases DEF Call, SocketFails, NoServer, Connect, ConnectFails, Send, SendFails, SendKills,
                   Recv, RecvClose, RecvTimeout, Answer, Hangup, vars
<1> QED
  BY <1>1 DEF given, Parts

\* What recv takes from the stream, and what it leaves.
LEMMA Split ==
    ASSUME NEW S, NEW s \in Seq(S), NEW n \in 1..Len(s)
    PROVE  /\ SubSeq(s, 1, n) \in Seq(S) /\ Len(SubSeq(s, 1, n)) = n
           /\ \A i \in 1..n : SubSeq(s, 1, n)[i] = s[i]
           /\ SubSeq(s, n + 1, Len(s)) \in Seq(S)
           /\ Len(SubSeq(s, n + 1, Len(s))) = Len(s) - n
           /\ \A i \in 1..(Len(s) - n) : SubSeq(s, n + 1, Len(s))[i] = s[n + i]
OBVIOUS

\* What a step of Recv or RecvClose does with n parts.
Taken(n) ==
    /\ n \in 1..Len(stream) /\ n \in Nat
    /\ total' = total + n
    /\ SubSeq(stream, 1, n) \in Seq(Parts) /\ Len(SubSeq(stream, 1, n)) = n
    /\ \A i \in 1..n : SubSeq(stream, 1, n)[i] = stream[i]

Left(n) ==
    /\ stream' \in Seq(Parts) /\ Len(stream') = Len(stream) - n
    /\ \A i \in 1..(Len(stream) - n) : stream'[i] = stream[n + i]

\* One recv takes parts off the stream, and the call returns them or goes on.
LEMMA RecvTakes ==
    ASSUME stream \in Seq(Parts), Recv
    PROVE  \E n \in Nat :
              /\ Taken(n) /\ Left(n)
              /\ \/ Complete(SubSeq(stream, 1, n), total')
                    /\ Return("SDK_SUCCESS", SubSeq(stream, 1, n))
                 \/ ~Complete(SubSeq(stream, 1, n), total')
                    /\ UNCHANGED <<at, rc, rsp, successes>>
<1>1. PICK n \in 1..RecvParts :
         /\ n <= Len(stream)
         /\ stream' = SubSeq(stream, n + 1, Len(stream))
         /\ total' = total + n
         /\ LET chunk == SubSeq(stream, 1, n) IN
            IF Complete(chunk, total') THEN Return("SDK_SUCCESS", chunk)
            ELSE UNCHANGED <<at, rc, rsp, successes>>
  BY DEF Recv
<1>2. Len(stream) \in Nat
  OBVIOUS
<1>3. n \in 1..Len(stream) /\ n \in Nat
  BY <1>1, <1>2, ClientAssumption DEF ClientAssumption
<1>4. Taken(n) /\ Left(n)
  BY <1>1, <1>3, Split DEF Taken, Left
<1> QED
  BY <1>1, <1>3, <1>4

\* ... so that the variables it changes keep their types.
LEMMA RecvTypes ==
    ASSUME stream \in Seq(Parts), rsp \in Seq(Parts), total \in Nat, Recv
    PROVE  /\ stream' \in Seq(Parts) /\ rsp' \in Seq(Parts) /\ total' \in Nat
           /\ at' \in {"idle", at} /\ rc' \in {"SDK_SUCCESS", rc}
           /\ successes' \in {successes, successes + 1}
<1>1. PICK n \in Nat :
         /\ Taken(n) /\ Left(n)
         /\ \/ Return("SDK_SUCCESS", SubSeq(stream, 1, n))
            \/ UNCHANGED <<at, rc, rsp, successes>>
  BY RecvTakes
<1>2. stream' \in Seq(Parts) /\ SubSeq(stream, 1, n) \in Seq(Parts) /\ total' = total + n
  BY <1>1 DEF Taken, Left
<1> QED
  BY <1>1, <1>2 DEF Return

\* The last recv before the connection is closed.
LEMMA RecvCloseTakes ==
    ASSUME stream \in Seq(Parts), RecvClose
    PROVE  \E n \in Nat : Taken(n) /\ Return("SDK_SUCCESS", SubSeq(stream, 1, n))
<1>1. PICK n \in 1..RecvParts :
         /\ n <= Len(stream)
         /\ total' = total + n
         /\ Return("SDK_SUCCESS", SubSeq(stream, 1, n))
  BY DEF RecvClose
<1>2. Len(stream) \in Nat
  OBVIOUS
<1>3. n \in 1..Len(stream) /\ n \in Nat
  BY <1>1, <1>2, ClientAssumption DEF ClientAssumption
<1>4. Taken(n)
  BY <1>1, <1>3, Split DEF Taken
<1> QED
  BY <1>1, <1>3, <1>4

\* The part the server sends next.
Next1 == Part(Head(received), sent + 1)

\* The server sends one more part, and perhaps the last, of the oldest request.
LEMMA AnswerAdds ==
    ASSUME TypeOK, Answer
    PROVE  /\ received # <<>> /\ Len(received) \in Nat \ {0} /\ Head(received) = received[1]
           /\ Next1 \in Parts /\ Next1.request = received[1] /\ Next1.part = sent + 1
           /\ Len(stream) \in Nat /\ stream' = Append(stream, Next1) /\ stream' \in Seq(Parts)
           /\ Len(stream') = Len(stream) + 1 /\ stream'[Len(stream) + 1] = Next1
           /\ \A i \in 1..Len(stream) : stream'[i] = stream[i]
           /\ sent + 1 = size =>
                /\ sent' = 0 /\ received' = Tail(received) /\ received' \in Seq(1..MaxCalls)
                /\ Len(received') = Len(received) - 1
                /\ \A i \in 1..Len(received') : received'[i] = received[i + 1]
           /\ sent + 1 # size => sent' = sent + 1 /\ sent' < size /\ received' = received
<1>1. /\ stream \in Seq(Parts) /\ received \in Seq(1..MaxCalls) /\ received # <<>>
      /\ sent \in 0..(size - 1) /\ size \in Nat
  BY ClientAssumption DEF TypeOK, Answer, ClientAssumption
<1>2. /\ Len(received) \in Nat \ {0} /\ Head(received) = received[1]
      /\ Head(received) \in 1..MaxCalls
      /\ Tail(received) \in Seq(1..MaxCalls) /\ Len(Tail(received)) = Len(received) - 1
      /\ \A i \in 1..Len(Tail(received)) : Tail(received)[i] = received[i + 1]
  <2>1. Len(received) \in Nat /\ Len(received) # 0
    BY <1>1, EmptySeq
  <2>2. Head(received) = received[1]
    BY <1>1, <2>1
  <2> QED
    BY <1>1, <2>1, <2>2, HeadTailProperties
<1>3. Next1 \in Parts /\ Next1.request = received[1] /\ Next1.part = sent + 1
  BY <1>1, <1>2 DEF Next1, Part, Parts
<1>4. /\ stream' = Append(stream, Next1)
      /\ sent + 1 = size => sent' = 0 /\ received' = Tail(received)
      /\ sent + 1 # size => sent' = sent + 1 /\ received' = received
  BY DEF Answer, Next1
<1>5. /\ Len(stream) \in Nat /\ Append(stream, Next1) \in Seq(Parts)
      /\ Len(Append(stream, Next1)) = Len(stream) + 1
      /\ Append(stream, Next1)[Len(stream) + 1] = Next1
      /\ \A i \in 1..Len(stream) : Append(stream, Next1)[i] = stream[i]
  BY <1>1, <1>3, AppendProperties
<1>6. sent + 1 # size => sent + 1 < size
  BY <1>1
<1> QED
  BY <1>1, <1>2, <1>3, <1>4, <1>5, <1>6

-----------------------------------------------------------------------------
\* At first every variable has its type.
LEMMA InitTypeOK == Init => TypeOK
BY ClientAssumption DEF Init, TypeOK, ClientAssumption

-----------------------------------------------------------------------------
\* Where the call is, and what it knows of the socket and the connection.
SocketInv ==
    /\ sockfd = "unconnected" => ~addrs
    /\ at # "idle" => calls > 0
    /\ at = "connect" => sockfd = "closed"
    /\ at = "send" => sockfd # "closed"
    /\ at \in {"connect", "send"} => total = 0
    /\ at = "recv" => sockfd = "connected"
    /\ sockfd # "connected" =>
         peer = "open" /\ received = <<>> /\ sent = 0 /\ stream = <<>>
    /\ process = "killed" => at = "send" /\ (sockfd = "unconnected" \/ peer = "broken")

\* Every variable keeps its type.
LEMMA NextTypeOK ==
    ASSUME TypeOK, SocketInv, [Next]_vars
    PROVE  TypeOK'
<1> USE ClientAssumption, GivenKept DEF given, connection, Return, NoConnection, TypeOK
<1>1. CASE Call
  BY <1>1 DEF Call
<1>2. CASE SocketFails
  BY <1>2 DEF SocketFails
<1>3. CASE NoServer
  BY <1>3 DEF NoServer
<1>4. CASE Connect
  <2>1. size \in Nat \ {0}
    BY DEF ClientAssumption
  <2>2. stream' \in Seq(Parts)
    BY <1>4 DEF Connect
  <2> QED
    BY <1>4, <2>1, <2>2 DEF Connect
<1>5. CASE ConnectFails
  BY <1>5 DEF ConnectFails
<1>6. CASE Send
  <2>1. received' \in Seq(1..MaxCalls)
    <3>1. calls \in 1..MaxCalls
      BY <1>6 DEF Send, SocketInv
    <3>2. received \in Seq(1..MaxCalls)
      OBVIOUS
    <3>3. Append(received, calls) \in Seq(1..MaxCalls)
      BY <3>1, <3>2, AppendProperties
    <3> QED
      BY <1>6, <3>2, <3>3 DEF Send
  <2> QED
    BY <1>6, <2>1 DEF Send
<1>7. CASE SendFails
  BY <1>7 DEF SendFails
<1>8. CASE SendKills
  BY <1>8 DEF SendKills
<1>9. CASE Recv
  <2>1. /\ stream' \in Seq(Parts) /\ rsp' \in Seq(Parts) /\ total' \in Nat
        /\ at' \in {"idle", at} /\ rc' \in {"SDK_SUCCESS", rc}
        /\ successes' \in {successes, successes + 1}
    BY <1>9, RecvTypes
  <2> QED
    BY <1>9, <2>1 DEF Recv
<1>10. CASE RecvClose
  <2>1. PICK n \in Nat : Taken(n) /\ Return("SDK_SUCCESS", SubSeq(stream, 1, n))
    BY <1>10, RecvCloseTakes
  <2>2. rsp' \in Seq(Parts) /\ total' \in Nat
    BY <1>10, <2>1 DEF RecvClose, Taken
  <2>3. size \in Nat \ {0} /\ stream' \in Seq(Parts)
    BY <1>10 DEF RecvClose, ClientAssumption
  <2> QED
    BY <1>10, <2>1, <2>2, <2>3 DEF RecvClose
<1>11. CASE RecvTimeout
  BY <1>11 DEF RecvTimeout
<1>12. CASE Answer
  <2>1. size \in Nat \ {0}
    BY <1>12 DEF Answer, ClientAssumption
  <2> QED
    BY <1>12, <2>1, AnswerAdds DEF Answer
<1>13. CASE Hangup
  BY <1>13 DEF Hangup
<1>14. CASE UNCHANGED vars
  BY <1>14 DEF vars
<1> QED
  BY <1>1, <1>2, <1>3, <1>4, <1>5, <1>6, <1>7, <1>8, <1>9, <1>10, <1>11, <1>12, <1>13,
     <1>14, NextCases

\* A socket that is not connected has no connection.
LEMMA NextSocketInv ==
    ASSUME TypeOK, SocketInv, [Next]_vars
    PROVE  SocketInv'
<1> USE DEF given, connection, Return, NoConnection, TypeOK, SocketInv
<1>1. CASE Call
  BY <1>1 DEF Call
<1>2. CASE SocketFails
  BY <1>2 DEF SocketFails
<1>3. CASE NoServer
  BY <1>3 DEF NoServer
<1>4. CASE Connect
  BY <1>4 DEF Connect
<1>5. CASE ConnectFails
  BY <1>5 DEF ConnectFails
<1>6. CASE Send
  BY <1>6 DEF Send
<1>7. CASE SendFails
  BY <1>7 DEF SendFails
<1>8. CASE SendKills
  BY <1>8 DEF SendKills
<1>9. CASE Recv
  BY <1>9 DEF Recv
<1>10. CASE RecvClose
  BY <1>10 DEF RecvClose
<1>11. CASE RecvTimeout
  BY <1>11 DEF RecvTimeout
<1>12. CASE Answer
  BY <1>12 DEF Answer
<1>13. CASE Hangup
  BY <1>13 DEF Hangup
<1>14. CASE UNCHANGED vars
  BY <1>14 DEF vars
<1> QED
  BY <1>1, <1>2, <1>3, <1>4, <1>5, <1>6, <1>7, <1>8, <1>9, <1>10, <1>11, <1>12, <1>13,
     <1>14, NextCases

-----------------------------------------------------------------------------
\* The parts on their way are in the order of the requests, and each request of which
\* the server still has parts to send is in received.
StreamOrder ==
    \A i, j \in 1..Len(stream) : i < j =>
        /\ stream[i].request <= stream[j].request
        /\ stream[i].part = size => stream[i].request < stream[j].request

ReceivedOrder == \A i, j \in 1..Len(received) : i < j => received[i] < received[j]

Between ==
    \A i \in 1..Len(stream), j \in 1..Len(received) :
        /\ stream[i].request <= received[j]
        /\ stream[i].request = received[j] => j = 1 /\ stream[i].part <= sent

\* The last part on its way is the one the server has sent last.
LastPart ==
    /\ sent > 0 => received # <<>>
    /\ stream # <<>> => stream[Len(stream)].part = IF sent = 0 THEN size ELSE sent

\* The parts of an answer follow each other.
Contiguous ==
    \A i, j \in 1..Len(stream) : i < j =>
        \/ stream[j].part = stream[i].part + (j - i)
        \/ \E k \in i..(j - 1) : stream[k].part = size

\* No request is on its way that was not sent.
Newest == IF at = "send" THEN calls - 1 ELSE calls

Known ==
    /\ \A i \in 1..Len(stream) : stream[i].request <= Newest
    /\ \A i \in 1..Len(received) : received[i] <= Newest

OrderInv == StreamOrder /\ ReceivedOrder /\ Between /\ LastPart /\ Contiguous /\ Known

Frame == UNCHANGED <<stream, received, sent, size>> \/ (NoConnection /\ UNCHANGED size)

\* What is on its way has the numbers of requests and of parts.
LEMMA Requests ==
    ASSUME TypeOK
    PROVE  /\ \A i \in 1..Len(stream) : stream[i].request \in Int /\ stream[i].part \in 1..size
           /\ \A i \in 1..Len(received) : received[i] \in Int
           /\ Len(stream) \in Nat /\ Len(received) \in Nat
<1>1. /\ stream \in Seq(Parts) /\ received \in Seq(1..MaxCalls)
      /\ \A p \in Parts : p.request \in Int /\ p.part \in 1..size
  BY DEF TypeOK, Parts
<1>2. /\ \A i \in 1..Len(stream) : stream[i] \in Parts
      /\ \A i \in 1..Len(received) : received[i] \in 1..MaxCalls
  BY <1>1, ElementOfSeq
<1> QED
  BY <1>1, <1>2, LenProperties

\* A step that neither sends nor receives anything keeps the order.
LEMMA FrameOrderInv ==
    ASSUME TypeOK, OrderInv, Frame, NoConnection \/ (Newest' >= Newest /\ Newest' \in Int)
    PROVE  OrderInv'
<1>1. CASE NoConnection /\ UNCHANGED size
  BY <1>1 DEF NoConnection, OrderInv, StreamOrder, ReceivedOrder, Between, LastPart,
              Contiguous, Known
<1>2. CASE UNCHANGED <<stream, received, sent, size>> /\ Newest' >= Newest /\ Newest' \in Int
  <2>1. (StreamOrder /\ ReceivedOrder /\ Between /\ LastPart /\ Contiguous)'
    BY <1>2 DEF OrderInv, StreamOrder, ReceivedOrder, Between, LastPart, Contiguous
  <2>2. Newest \in Int
    BY DEF Newest, TypeOK
  <2>3. Known'
    BY <1>2, <2>2, Requests DEF OrderInv, Known
  <2> QED
    BY <2>1, <2>3 DEF OrderInv
<1> QED
  BY <1>1, <1>2 DEF Frame, NoConnection

\* A request that is sent is newer than all that is on its way.
LEMMA SendOrderInv ==
    ASSUME TypeOK, SocketInv, OrderInv, Send
    PROVE  OrderInv'
<1>1. CASE received' = received
  <2>1. /\ UNCHANGED <<stream, received, sent, size, calls>>
        /\ at = "send" /\ at' = "recv" /\ calls \in Int
    BY <1>1 DEF Send, given, TypeOK
  <2>2. (StreamOrder /\ ReceivedOrder /\ Between /\ LastPart /\ Contiguous)'
    BY <2>1 DEF OrderInv, StreamOrder, ReceivedOrder, Between, LastPart, Contiguous
  <2>3. Known'
    BY <2>1, Requests DEF OrderInv, Known, Newest
  <2> QED
    BY <2>2, <2>3 DEF OrderInv
<1>2. CASE received' = Append(received, calls)
  <2>1. /\ UNCHANGED <<stream, sent, size, calls>> /\ at = "send" /\ at' = "recv" /\ calls \in Int
        /\ sent \in Int /\ size \in Int /\ sent < size
    BY ClientAssumption DEF Send, given, TypeOK, ClientAssumption
  <2>2. /\ Len(received) \in Nat /\ Len(received') = Len(received) + 1
        /\ received'[Len(received) + 1] = calls
        /\ \A i \in 1..Len(received) : received'[i] = received[i]
    <3>1. received \in Seq(1..MaxCalls) /\ calls \in 1..MaxCalls
      BY <2>1, ClientAssumption DEF TypeOK, SocketInv, ClientAssumption
    <3> QED
      BY <1>2, <3>1, AppendProperties
  <2>3. /\ \A i \in 1..Len(stream) : stream[i].request < calls
        /\ \A i \in 1..Len(received) : received[i] < calls
    BY <2>1, Requests DEF OrderInv, Known, Newest
  <2>4. (StreamOrder /\ Contiguous)'
    BY <2>1 DEF OrderInv, StreamOrder, Contiguous
  <2>5. ReceivedOrder'
    BY <2>2, <2>3 DEF OrderInv, ReceivedOrder
  <2>6. Between'
    <3> SUFFICES ASSUME NEW i \in 1..Len(stream'), NEW j \in 1..Len(received')
                 PROVE  /\ stream'[i].request <= received'[j]
                        /\ stream'[i].request = received'[j] => j = 1 /\ stream'[i].part <= sent'
      BY DEF Between
    <3>1. CASE j = Len(received) + 1
      BY <2>1, <2>2, <2>3, <3>1, Requests
    <3>2. CASE j \in 1..Len(received)
      BY <2>1, <2>2, <3>2 DEF OrderInv, Between
    <3> QED
      BY <2>2, <3>1, <3>2
  <2>7. LastPart'
    <3>1. sent' > 0 => received' # <<>>
      BY <2>2
    <3> QED
      BY <2>1, <3>1 DEF OrderInv, LastPart
  <2>8. Known'
    BY <2>1, <2>2, <2>3, Requests DEF Known, Newest
  <2> QED
    BY <2>4, <2>5, <2>6, <2>7, <2>8 DEF OrderInv
<1> QED
  BY <1>1, <1>2 DEF Send

\* What recv takes is at the front.
LEMMA RecvOrderInv ==
    ASSUME TypeOK, OrderInv, Recv
    PROVE  OrderInv'
<1>1. stream \in Seq(Parts)
  BY DEF TypeOK
<1>2. PICK n \in Nat : Taken(n) /\ Left(n) /\ at' \in {"idle", at}
  BY <1>1, RecvTakes DEF Return
<1>3. UNCHANGED <<received, sent, size, calls>> /\ at = "recv"
  BY DEF Recv, given
<1>4. /\ Len(stream) \in Nat /\ Len(stream') = Len(stream) - n /\ n \in 1..Len(stream)
      /\ \A i \in 1..Len(stream') : i + n \in 1..Len(stream) /\ stream'[i] = stream[i + n]
  BY <1>1, <1>2 DEF Taken, Left
<1>5. StreamOrder'
  BY <1>3, <1>4 DEF OrderInv, StreamOrder
<1>6. ReceivedOrder'
  BY <1>3 DEF OrderInv, ReceivedOrder
<1>7. Between'
  BY <1>3, <1>4 DEF OrderInv, Between
<1>8. LastPart'
  <2>1. stream' # <<>> => Len(stream') \in Nat \ {0} /\ stream'[Len(stream')] = stream[Len(stream)]
    <3>1. stream' \in Seq(Parts)
      BY <1>2 DEF Left
    <3>2. stream' # <<>> => Len(stream') \in Nat \ {0}
      BY <3>1, EmptySeq
    <3> QED
      BY <1>4, <3>2
  <2>2. stream # <<>>
    BY <1>4
  <2> QED
    BY <1>3, <2>1, <2>2 DEF OrderInv, LastPart
<1>9. Contiguous'
  <2> SUFFICES ASSUME NEW i \in 1..Len(stream'), NEW j \in 1..Len(stream'), i < j
               PROVE  \/ stream'[j].part = stream'[i].part + (j - i)
                      \/ \E k \in i..(j - 1) : stream'[k].part = size
    BY <1>3 DEF Contiguous
  <2>1. CASE stream[j + n].part = stream[i + n].part + ((j + n) - (i + n))
    <3>1. (j + n) - (i + n) = j - i /\ stream'[j] = stream[j + n] /\ stream'[i] = stream[i + n]
      BY <1>4
    <3> QED
      BY <2>1, <3>1
  <2>2. CASE \E k \in (i + n)..(j + n - 1) : stream[k].part = size
    <3>1. PICK k \in (i + n)..(j + n - 1) : stream[k].part = size
      BY <2>2
    <3>2. k - n \in i..(j - 1) /\ k - n \in 1..Len(stream') /\ (k - n) + n = k
      BY <1>4, <3>1
    <3> QED
      BY <1>4, <3>1, <3>2
  <2> QED
    <3>1. i + n \in 1..Len(stream) /\ j + n \in 1..Len(stream) /\ i + n < j + n
      BY <1>4
    <3> QED
      BY <2>1, <2>2, <3>1 DEF OrderInv, Contiguous
<1>10. Known'
  BY <1>2, <1>3, <1>4 DEF OrderInv, Known, Newest
<1> QED
  BY <1>5, <1>6, <1>7, <1>8, <1>9, <1>10 DEF OrderInv

\* The server sends the next part.
LEMMA AnswerOrderInv ==
    ASSUME TypeOK, SocketInv, OrderInv, Answer
    PROVE  OrderInv'
<1> DEFINE m == Len(stream)
<1>1. /\ UNCHANGED <<at, calls, size>> /\ sent \in Nat /\ size \in Nat \ {0} /\ sent < size
      /\ calls \in Int
  BY ClientAssumption DEF Answer, given, TypeOK, ClientAssumption
<1>2. /\ Len(received) \in Nat \ {0} /\ Next1.request = received[1] /\ Next1.part = sent + 1
      /\ m \in Nat /\ Len(stream') = m + 1 /\ stream'[m + 1] = Next1
      /\ \A i \in 1..m : stream'[i] = stream[i]
      /\ sent + 1 = size =>
           /\ sent' = 0 /\ Len(received') = Len(received) - 1
           /\ \A i \in 1..Len(received') : received'[i] = received[i + 1]
      /\ sent + 1 # size => sent' = sent + 1 /\ sent' < size /\ received' = received
  BY AnswerAdds
<1> HIDE DEF m
<1>3. /\ \A i \in 1..m : stream[i].request \in Int /\ stream[i].part \in Int
      /\ \A i \in 1..Len(received) : received[i] \in Int
  BY Requests DEF m
<1>4. 1 \in 1..Len(received)
  BY <1>2
<1>5. \A i \in 1..m :
        /\ stream[i].request <= received[1]
        /\ stream[i].request = received[1] => stream[i].part <= sent
        /\ stream[i].part = size => stream[i].request < received[1]
  BY <1>1, <1>3, <1>4 DEF OrderInv, Between, m
<1>6. StreamOrder'
  <2> SUFFICES ASSUME NEW i \in 1..(m + 1), NEW j \in 1..(m + 1), i < j
               PROVE  /\ stream'[i].request <= stream'[j].request
                      /\ stream'[i].part = size => stream'[i].request < stream'[j].request
    BY <1>1, <1>2 DEF StreamOrder
  <2>1. CASE j = m + 1
    <3>1. i \in 1..m
      BY <1>2, <2>1
    <3> QED
      BY <1>2, <1>5, <2>1, <3>1
  <2>2. CASE j # m + 1
    <3>1. i \in 1..m /\ j \in 1..m
      BY <1>2, <2>2
    <3> QED
      BY <1>2, <3>1 DEF OrderInv, StreamOrder, m
  <2> QED
    BY <2>1, <2>2
<1>7. ReceivedOrder'
  <2>1. CASE sent + 1 = size
    BY <1>2, <2>1 DEF OrderInv, ReceivedOrder
  <2>2. CASE sent + 1 # size
    BY <1>2, <2>2 DEF OrderInv, ReceivedOrder
  <2> QED
    BY <2>1, <2>2
<1>8. Between'
  <2>1. CASE sent + 1 = size
    <3>1. \A j \in 1..Len(received') : received'[j] > received[1] /\ received'[j] = received[j + 1]
                                       /\ j + 1 \in 1..Len(received)
      BY <1>2, <1>3, <1>4, <2>1 DEF OrderInv, ReceivedOrder
    <3>2. \A i \in 1..m, j \in 1..Len(received') : stream[i].request < received'[j]
      BY <1>3, <1>5, <3>1
    <3>3. \A i \in 1..(m + 1), j \in 1..Len(received') : stream'[i].request < received'[j]
      <4> SUFFICES ASSUME NEW i \in 1..(m + 1), NEW j \in 1..Len(received')
                   PROVE  stream'[i].request < received'[j]
        OBVIOUS
      <4>1. CASE i = m + 1
        BY <1>2, <3>1, <4>1
      <4>2. CASE i \in 1..m
        BY <1>2, <3>2, <4>2
      <4> QED
        BY <1>2, <4>1, <4>2
    <3>4. Len(stream') = m + 1 /\ \A i \in 1..(m + 1) : stream'[i].request \in Int
      <4>1. Next1.request \in Int
        BY <1>2, <1>3, <1>4
      <4>2. \A i \in 1..m : stream'[i].request \in Int
        BY <1>2, <1>3
      <4>3. \A i \in 1..(m + 1) : i = m + 1 \/ i \in 1..m
        BY <1>2
      <4> QED
        BY <1>2, <4>1, <4>2, <4>3
    <3>5. \A j \in 1..Len(received') : received'[j] \in Int
      BY <1>3, <3>1
    <3> QED
      BY <3>3, <3>4, <3>5 DEF Between
  <2>2. CASE sent + 1 # size
    <3>1. \A j \in 1..Len(received) :
            received[1] <= received[j] /\ (received[1] = received[j] => j = 1)
      BY <1>2, <1>3, <1>4 DEF OrderInv, ReceivedOrder
    <3>2. \A i \in 1..m, j \in 1..Len(received) :
            /\ stream[i].request <= received[j]
            /\ stream[i].request = received[j] => j = 1 /\ stream[i].part <= sent
      BY DEF OrderInv, Between, m
    <3>3. \A i \in 1..m, j \in 1..Len(received) :
            /\ stream'[i].request <= received[j]
            /\ stream'[i].request = received[j] => j = 1 /\ stream'[i].part <= sent + 1
      BY <1>1, <1>2, <1>3, <3>2
    <3> QED
      BY <1>1, <1>2, <2>2, <3>1, <3>3 DEF Between
  <2> QED
    BY <2>1, <2>2
<1>9. LastPart'
  <2>1. sent + 1 # size => received' # <<>>
    BY <1>2
  <2> QED
    BY <1>1, <1>2, <2>1 DEF LastPart
<1>10. Contiguous'
  <2>1. m > 0 => stream[m].part = size \/ (sent + 1 = stream[m].part + 1 /\ stream[m].part \in Int)
    <3>1. m > 0 => stream # <<>>
      BY DEF m
    <3> QED
      BY <1>2, <1>3, <3>1 DEF OrderInv, LastPart, m
  <2>2. \A i \in 1..m : i < m => \/ stream[m].part = stream[i].part + (m - i)
                                 \/ \E k \in i..(m - 1) : stream[k].part = size
    BY <1>2 DEF OrderInv, Contiguous, m
  <2>3. ASSUME NEW i \in 1..m
        PROVE  \/ sent + 1 = stream[i].part + ((m + 1) - i)
               \/ \E k \in i..m : stream[k].part = size
    <3>1. CASE i = m
      <4>1. m > 0 /\ m \in i..m
        BY <1>2, <3>1
      <4> QED
        BY <1>1, <2>1, <3>1, <4>1
    <3>2. CASE i < m
      <4>1. (i..m) = (i..(m - 1)) \cup {m} /\ m > 0 /\ m \in 1..m /\ m \in Int /\ i \in Int
        BY <1>2, <3>2
      <4>2. CASE \E k \in i..(m - 1) : stream[k].part = size
        BY <4>1, <4>2
      <4>3. CASE stream[m].part = stream[i].part + (m - i)
        BY <1>1, <1>3, <2>1, <4>1, <4>3
      <4> QED
        BY <2>2, <3>2, <4>2, <4>3
    <3> QED
      BY <1>2, <3>1, <3>2
  <2>4. ASSUME NEW i \in 1..(m + 1), NEW j \in 1..(m + 1), i < j
        PROVE  \/ stream'[j].part = stream'[i].part + (j - i)
               \/ \E k \in i..(j - 1) : stream'[k].part = size
    <3>1. CASE j = m + 1
      <4>1. i \in 1..m /\ j - 1 = m /\ stream'[j].part = sent + 1 /\ stream'[i] = stream[i]
            /\ \A k \in i..m : stream'[k] = stream[k]
        BY <1>2, <2>4, <3>1
      <4> QED
        BY <2>3, <3>1, <4>1
    <3>2. CASE j # m + 1
      <4>1. i \in 1..m /\ j \in 1..m
        BY <1>2, <2>4, <3>2
      <4>2. \/ stream[j].part = stream[i].part + (j - i)
            \/ \E k \in i..(j - 1) : stream[k].part = size
        BY <2>4, <4>1 DEF OrderInv, Contiguous, m
      <4>3. \A k \in i..(j - 1) : k \in 1..m
        BY <1>2, <4>1
      <4> QED
        BY <1>2, <4>1, <4>2, <4>3
    <3> QED
      BY <3>1, <3>2
  <2> QED
    BY <1>1, <1>2, <2>4 DEF Contiguous
<1>11. Known'
  <2>1. /\ \A i \in 1..m : stream[i].request <= Newest
        /\ \A i \in 1..Len(received) : received[i] <= Newest
    BY DEF OrderInv, Known, m
  <2>2. \A i \in 1..Len(received') : received'[i] <= Newest
    BY <1>2, <2>1
  <2>3. \A i \in 1..(m + 1) : stream'[i].request <= Newest
    BY <1>2, <1>4, <2>1
  <2> QED
    BY <1>1, <1>2, <2>2, <2>3 DEF Known, Newest
<1> QED
  BY <1>6, <1>7, <1>8, <1>9, <1>10, <1>11 DEF OrderInv

-----------------------------------------------------------------------------
\* No answer that is on its way, or is still to come, is older than this.
Oldest(request) ==
    /\ \A i \in 1..Len(stream) : stream[i].request >= request
    /\ \A i \in 1..Len(received) : received[i] >= request

\* The part recv will see first.
NextPart == IF stream # <<>> THEN stream[1].part ELSE sent + 1

\* A call that returns leaves no more answers behind than timed out.  A call that has
\* not seen the end of an answer has received no more parts than come before the next.
BehindInv ==
    /\ at = "idle" => Oldest(calls + 1 - timeouts)
    /\ at \in {"send", "recv"} => Oldest(calls - timeouts)
    /\ at = "recv" => total < NextPart \/ Oldest(calls + 1 - timeouts)

ReturnedInv == LagBound

\* The peer refuses what is sent to it only if a call timed out, or else in the very
\* call that sent it, which waits for ever.
BrokenInv ==
    peer = "broken" /\ timeouts = 0 => at = "recv" /\ stream = <<>> /\ received = <<>>

\* Recv takes a part, and a call that returns has seen the end of an answer.
LEMMA RecvBehindInv ==
    ASSUME TypeOK, OrderInv, BehindInv, Recv
    PROVE  BehindInv' /\ LagBound'
<1>1. /\ stream \in Seq(Parts) /\ size \in Nat \ {0} /\ sent \in Int
      /\ calls \in Int /\ timeouts \in Int
      /\ total \in Nat /\ sent < size
  BY ClientAssumption DEF TypeOK, ClientAssumption
<1>2. PICK n \in Nat :
         /\ Taken(n) /\ Left(n)
         /\ \/ Complete(SubSeq(stream, 1, n), total') /\ Return("SDK_SUCCESS", SubSeq(stream, 1, n))
            \/ ~Complete(SubSeq(stream, 1, n), total') /\ UNCHANGED <<at, rc, rsp, successes>>
  BY <1>1, RecvTakes
<1>3. UNCHANGED <<received, sent, size, calls, timeouts>> /\ at = "recv"
  BY DEF Recv, given
<1>4. /\ Len(stream) \in Nat /\ Len(stream') = Len(stream) - n /\ n \in 1..Len(stream)
      /\ \A i \in 1..Len(stream') : i + n \in 1..Len(stream) /\ stream'[i] = stream[i + n]
      /\ total' = total + n
      /\ DOMAIN SubSeq(stream, 1, n) = 1..n
      /\ \A i \in 1..n : SubSeq(stream, 1, n)[i] = stream[i]
  BY <1>1, <1>2 DEF Taken, Left
<1>5. /\ \A i \in 1..Len(stream) : stream[i].request >= calls - timeouts
      /\ \A i \in 1..Len(received) : received[i] >= calls - timeouts
  BY <1>3 DEF BehindInv, Oldest
<1>6. Oldest(calls - timeouts)'
  BY <1>3, <1>4, <1>5 DEF Oldest
<1>7. total < NextPart \/ Oldest(calls + 1 - timeouts)
  BY <1>3 DEF BehindInv
<1>8. ASSUME Oldest(calls + 1 - timeouts)
      PROVE  Oldest(calls + 1 - timeouts)'
  BY <1>3, <1>4, <1>8 DEF Oldest
<1>9. ASSUME NEW k \in 1..n, stream[k].part = size
      PROVE  Oldest(calls + 1 - timeouts)'
  <2>2. k \in 1..Len(stream) /\ stream[k].request >= calls - timeouts /\ stream[k].request \in Int
    BY <1>4, <1>5, Requests
  <2>3. \A i \in 1..Len(stream') : stream'[i].request > stream[k].request
    <3> SUFFICES ASSUME NEW i \in 1..Len(stream')
                 PROVE  stream[i + n].request > stream[k].request
      BY <1>4
    <3>1. i + n \in 1..Len(stream) /\ k < i + n
      BY <1>4
    <3> QED
      BY <1>9, <2>2, <3>1, Requests DEF OrderInv, StreamOrder
  <2>4. \A j \in 1..Len(received) : received[j] > stream[k].request
    BY <1>1, <1>9, <2>2, Requests DEF OrderInv, Between
  <2>5. /\ \A i \in 1..Len(stream') : stream'[i].request \in Int
        /\ \A j \in 1..Len(received) : received[j] \in Int
    BY <1>4, Requests
  <2>6. \A i \in 1..Len(stream') : stream'[i].request >= calls + 1 - timeouts
    BY <1>1, <2>2, <2>3, <2>5
  <2>7. \A j \in 1..Len(received) : received[j] >= calls + 1 - timeouts
    BY <1>1, <2>2, <2>4, <2>5
  <2> QED
    BY <1>3, <2>6, <2>7 DEF Oldest
<1>10. ASSUME total < NextPart, \A k \in 1..n : stream[k].part # size
       PROVE  total' < NextPart' /\ NextPart' <= size
  <2>1. /\ 1 \in 1..Len(stream) /\ stream # <<>>
        /\ NextPart = stream[1].part /\ stream[1].part \in 1..size
    BY <1>4, Requests DEF NextPart
  <2>2. CASE Len(stream) > n
    <3>1. n + 1 \in 1..Len(stream) /\ 1 < n + 1 /\ stream[n + 1].part \in 1..size
      BY <1>4, <2>2, Requests
    <3>2. stream[n + 1].part = stream[1].part + n
      <4>1. \/ stream[n + 1].part = stream[1].part + ((n + 1) - 1)
            \/ \E k \in 1..((n + 1) - 1) : stream[k].part = size
        BY <2>1, <3>1 DEF OrderInv, Contiguous
      <4>2. (n + 1) - 1 = n
        BY <1>4
      <4> QED
        BY <1>10, <4>1, <4>2
    <3>3. stream' # <<>> /\ stream'[1] = stream[n + 1]
      BY <1>4, <2>2
    <3>4. NextPart' = stream[1].part + n /\ NextPart' \in 1..size
      BY <3>1, <3>2, <3>3 DEF NextPart
    <3> QED
      BY <1>1, <1>4, <1>10, <2>1, <3>4
  <2>3. CASE Len(stream) = n
    <3>1. stream[n].part # size /\ n \in 1..Len(stream)
      BY <1>4, <1>10
    <3>2. stream[n].part = sent
      BY <2>1, <2>3, <3>1 DEF OrderInv, LastPart
    <3>3. stream[n].part = stream[1].part + (n - 1)
      <4>1. CASE n = 1
        BY <2>1, <4>1
      <4>2. CASE n > 1
        <5>1. \/ stream[n].part = stream[1].part + (n - 1)
              \/ \E k \in 1..(n - 1) : stream[k].part = size
          BY <2>1, <3>1, <4>2 DEF OrderInv, Contiguous
        <5>2. \A k \in 1..(n - 1) : k \in 1..n
          BY <3>1
        <5> QED
          BY <1>10, <5>1, <5>2
      <4> QED
        BY <1>4, <4>1, <4>2
    <3>4. stream' = <<>>
      BY <1>2, <1>4, <2>3, EmptySeq DEF Left
    <3>5. NextPart' = sent + 1
      BY <1>3, <3>4 DEF NextPart
    <3> QED
      <4>1. NextPart' = stream[1].part + n /\ NextPart' <= size
        <5>1. sent = stream[1].part + (n - 1) /\ n \in Nat /\ stream[1].part \in Int
          BY <2>1, <3>2, <3>3
        <5>2. sent + 1 = stream[1].part + n /\ sent + 1 <= size
          BY <1>1, <5>1
        <5> QED
          BY <3>5, <5>2, <1>3
      <4>2. total < stream[1].part /\ total' = total + n
        BY <1>4, <1>10, <2>1
      <4> QED
        BY <1>1, <2>1, <4>1, <4>2
  <2> QED
    BY <1>4, <2>2, <2>3
<1>11. ASSUME Complete(SubSeq(stream, 1, n), total'), \A k \in 1..n : stream[k].part # size
       PROVE  total' >= size
  <2>1. ~\E i \in DOMAIN SubSeq(stream, 1, n) : SubSeq(stream, 1, n)[i].part = size
    BY <1>4, <1>11
  <2>2. \E i \in 1..n : total' >= size + i - 1
    BY <1>4, <1>11, <2>1 DEF Complete
  <2> QED
    BY <1>1, <1>4, <2>2
<1>12. Complete(SubSeq(stream, 1, n), total') => Oldest(calls + 1 - timeouts)'
  <2>1. CASE \E k \in 1..n : stream[k].part = size
    BY <1>9, <2>1
  <2>2. CASE \A k \in 1..n : stream[k].part # size
    <3>1. Complete(SubSeq(stream, 1, n), total') => ~(total' < NextPart' /\ NextPart' <= size)
      <4>1. CASE stream' = <<>>
        BY <1>1, <1>3, <1>4, <1>11, <2>2, <4>1 DEF NextPart
      <4>2. CASE stream' # <<>>
        <5>1. Len(stream') \in Nat \ {0}
          BY <1>2, <4>2, EmptySeq DEF Left
        <5>2. stream'[1].part \in 1..size
          BY <1>4, <5>1, Requests
        <5> QED
          BY <1>1, <1>4, <1>11, <2>2, <4>2, <5>2 DEF NextPart
      <4> QED
        BY <4>1, <4>2
    <3> QED
      BY <1>7, <1>8, <1>10, <2>2, <3>1
  <2> QED
    BY <2>1, <2>2
<1>13. total' < NextPart' \/ Oldest(calls + 1 - timeouts)'
  BY <1>7, <1>8, <1>9, <1>10
<1>14. CASE Complete(SubSeq(stream, 1, n), total') /\ Return("SDK_SUCCESS", SubSeq(stream, 1, n))
  <2>1. at' = "idle" /\ rsp' = SubSeq(stream, 1, n)
    BY <1>14 DEF Return
  <2>2. BehindInv'
    BY <1>12, <1>14, <2>1 DEF BehindInv
  <2>3. \A i \in DOMAIN rsp' : rsp'[i].request + timeouts >= calls
    <3> SUFFICES ASSUME NEW i \in 1..n
                 PROVE  stream[i].request + timeouts >= calls
      BY <1>4, <2>1
    <3>1. i \in 1..Len(stream)
      BY <1>4
    <3> QED
      BY <1>1, <1>5, <3>1, Requests
  <2> QED
    BY <1>3, <2>2, <2>3 DEF LagBound
<1>15. CASE UNCHANGED <<at, rc, rsp, successes>>
  <2>1. at' = "recv"
    BY <1>3, <1>15
  <2> QED
    BY <1>6, <1>13, <2>1 DEF BehindInv, LagBound, Succeeded
<1> QED
  BY <1>2, <1>14, <1>15

\* A request that is sent is the newest.
LEMMA SendBehindInv ==
    ASSUME TypeOK, SocketInv, BehindInv, Send
    PROVE  BehindInv'
<1>1. /\ UNCHANGED <<stream, sent, size, calls, timeouts>> /\ at = "send" /\ at' = "recv"
      /\ total' = 0 /\ sent \in Nat /\ calls \in 1..MaxCalls /\ timeouts \in Nat
      /\ received \in Seq(1..MaxCalls) /\ MaxCalls \in Nat /\ size \in Nat /\ stream \in Seq(Parts)
  BY ClientAssumption DEF Send, given, TypeOK, SocketInv, ClientAssumption
<1>2. received' = received \/ received' = Append(received, calls)
  BY DEF Send
<1>3. \A i \in 1..Len(received') : received'[i] \in {received[i], calls} /\
                                   (received'[i] # calls => i \in 1..Len(received))
  <2>1. Len(received) \in Nat /\ Len(Append(received, calls)) = Len(received) + 1
        /\ \A i \in 1..Len(received) : Append(received, calls)[i] = received[i]
        /\ Append(received, calls)[Len(received) + 1] = calls
    BY <1>1, AppendProperties
  <2> QED
    BY <1>2, <2>1
<1>4. /\ \A i \in 1..Len(stream) : stream[i].request >= calls - timeouts
      /\ \A i \in 1..Len(received) : received[i] >= calls - timeouts
  BY <1>1 DEF BehindInv, Oldest
<1>5. calls >= calls - timeouts
  BY <1>1
<1>6. \A i \in 1..Len(received') : received'[i] >= calls - timeouts
  BY <1>3, <1>4, <1>5
<1>7. NextPart' > 0
  <2>1. CASE stream = <<>>
    BY <1>1, <2>1 DEF NextPart
  <2>2. CASE stream # <<>>
    <3>1. 1 \in 1..Len(stream)
      BY <1>1, <2>2, EmptySeq
    <3> QED
      BY <1>1, <2>2, <3>1, Requests DEF NextPart
  <2> QED
    BY <2>1, <2>2
<1> QED
  BY <1>1, <1>4, <1>6, <1>7 DEF BehindInv, Oldest

\* The part the server sends next belongs to a request that is on its way.
LEMMA AnswerBehindInv ==
    ASSUME TypeOK, BehindInv, Answer
    PROVE  BehindInv'
<1>1. UNCHANGED <<at, calls, timeouts, total>> /\ stream \in Seq(Parts) /\ sent \in Nat
  BY DEF Answer, TypeOK
<1>2. /\ 1 \in 1..Len(received) /\ Next1.request = received[1] /\ Next1.part = sent + 1
      /\ Len(stream) \in Nat /\ Len(stream') = Len(stream) + 1
      /\ stream'[Len(stream) + 1] = Next1
      /\ \A i \in 1..Len(stream) : stream'[i] = stream[i]
      /\ \A i \in 1..Len(received') : \E j \in 1..Len(received) : received'[i] = received[j]
  <2>1. /\ Len(received) \in Nat \ {0} /\ Next1.request = received[1] /\ Next1.part = sent + 1
        /\ Len(stream) \in Nat /\ Len(stream') = Len(stream) + 1
        /\ stream'[Len(stream) + 1] = Next1
        /\ \A i \in 1..Len(stream) : stream'[i] = stream[i]
        /\ sent + 1 = size =>
             /\ Len(received') = Len(received) - 1
             /\ \A i \in 1..Len(received') : received'[i] = received[i + 1]
        /\ sent + 1 # size => received' = received
    BY AnswerAdds
  <2>2. \A i \in 1..Len(received') : \E j \in 1..Len(received) : received'[i] = received[j]
    <3>1. CASE sent + 1 = size
      <4>1. \A i \in 1..Len(received') : i + 1 \in 1..Len(received)
        BY <2>1, <3>1
      <4> QED
        BY <2>1, <3>1, <4>1
    <3> QED
      BY <2>1, <3>1
  <2> QED
    BY <2>1, <2>2
<1>3. ASSUME NEW b, Oldest(b)
      PROVE  /\ \A i \in 1..Len(stream') : stream'[i].request >= b
             /\ \A i \in 1..Len(received') : received'[i] >= b
  BY <1>2, <1>3 DEF Oldest
<1>4. NextPart' = NextPart
  <2>1. stream' # <<>>
    BY <1>2
  <2>2. CASE stream = <<>>
    BY <1>2, <2>1, <2>2 DEF NextPart
  <2>3. CASE stream # <<>>
    <3>1. 1 \in 1..Len(stream)
      BY <1>1, <2>3, EmptySeq
    <3> QED
      BY <1>2, <2>1, <2>3, <3>1 DEF NextPart
  <2> QED
    BY <2>2, <2>3
<1>5. /\ at = "idle" => Oldest(calls + 1 - timeouts)'
      /\ at \in {"send", "recv"} => Oldest(calls - timeouts)'
      /\ at = "recv" => total < NextPart \/ Oldest(calls + 1 - timeouts)'
  BY <1>1, <1>3 DEF BehindInv, Oldest
<1> QED
  BY <1>1, <1>4, <1>5 DEF BehindInv

\* However late the answers are, they are not later than the calls that timed out.
LEMMA NextBehindInv ==
    ASSUME TypeOK, SocketInv, OrderInv, BehindInv, [Next]_vars
    PROVE  BehindInv'
<1> USE DEF given, connection, Return, NoConnection, BehindInv, Oldest
<1>1. CASE Call
  <2>1. calls' - timeouts' = calls + 1 - timeouts /\ at = "idle" /\ at' \in {"connect", "send"}
        /\ UNCHANGED <<stream, received>>
    BY <1>1 DEF Call, TypeOK
  <2> QED
    BY <2>1
<1>2. CASE SocketFails
  <2>1. stream = <<>> /\ received = <<>> /\ UNCHANGED <<stream, received>>
    BY <1>2 DEF SocketFails, SocketInv
  <2> QED
    BY <1>2, <2>1 DEF SocketFails, BehindInv, Oldest
<1>3. CASE NoServer
  <2>1. stream = <<>> /\ received = <<>> /\ UNCHANGED <<stream, received>>
    BY <1>3 DEF NoServer, SocketInv
  <2> QED
    BY <1>3, <2>1 DEF NoServer, BehindInv, Oldest
<1>4. CASE Connect
  BY <1>4 DEF Connect
<1>5. CASE ConnectFails
  <2>1. stream = <<>> /\ received = <<>> /\ UNCHANGED <<stream, received>>
    BY <1>5 DEF ConnectFails, SocketInv
  <2> QED
    BY <1>5, <2>1 DEF ConnectFails, BehindInv, Oldest
<1>6. CASE Send
  BY <1>6, SendBehindInv
<1>7. CASE SendFails
  BY <1>7 DEF SendFails
<1>8. CASE SendKills
  BY <1>8 DEF SendKills, NextPart
<1>9. CASE Recv
  BY <1>9, RecvBehindInv
<1>10. CASE RecvClose
  BY <1>10 DEF RecvClose
<1>11. CASE RecvTimeout
  <2>1. calls' + 1 - timeouts' = calls - timeouts /\ at = "recv" /\ at' = "idle"
        /\ UNCHANGED <<stream, received>>
    BY <1>11 DEF RecvTimeout, TypeOK
  <2> QED
    BY <2>1
<1>12. CASE Answer
  BY <1>12, AnswerBehindInv
<1>13. CASE Hangup
  BY <1>13 DEF Hangup, NextPart
<1>14. CASE UNCHANGED vars
  BY <1>14 DEF vars, NextPart
<1> QED
  BY <1>1, <1>2, <1>3, <1>4, <1>5, <1>6, <1>7, <1>8, <1>9, <1>10, <1>11, <1>12, <1>13,
     <1>14, NextCases

\* What a call returns is behind it by no more than timed out.
LEMMA NextLagBound ==
    ASSUME TypeOK, OrderInv, BehindInv, LagBound, [Next]_vars
    PROVE  LagBound'
<1> USE DEF given, connection, Return, NoConnection, LagBound, Succeeded
<1>1. CASE Call
  BY <1>1 DEF Call
<1>2. CASE SocketFails
  BY <1>2 DEF SocketFails
<1>3. CASE NoServer
  BY <1>3 DEF NoServer
<1>4. CASE Connect
  BY <1>4 DEF Connect
<1>5. CASE ConnectFails
  BY <1>5 DEF ConnectFails
<1>6. CASE Send
  BY <1>6 DEF Send
<1>7. CASE SendFails
  BY <1>7 DEF SendFails
<1>8. CASE SendKills
  BY <1>8 DEF SendKills
<1>9. CASE Recv
  BY <1>9, RecvBehindInv
<1>10. CASE RecvClose
  <2>1. stream \in Seq(Parts) /\ calls \in Int /\ timeouts \in Int /\ at = "recv"
        /\ UNCHANGED <<calls, timeouts>>
    BY <1>10 DEF RecvClose, TypeOK
  <2>2. PICK n \in Nat : Taken(n) /\ rsp' = SubSeq(stream, 1, n)
    BY <1>10, <2>1, RecvCloseTakes
  <2>3. /\ DOMAIN rsp' = 1..n /\ \A i \in 1..n : rsp'[i] = stream[i] /\ i \in 1..Len(stream)
    BY <2>1, <2>2 DEF Taken
  <2>4. \A i \in 1..Len(stream) : stream[i].request >= calls - timeouts
    BY <2>1 DEF BehindInv, Oldest
  <2> QED
    BY <2>1, <2>3, <2>4, Requests
<1>11. CASE RecvTimeout
  BY <1>11 DEF RecvTimeout
<1>12. CASE Answer
  BY <1>12 DEF Answer
<1>13. CASE Hangup
  BY <1>13 DEF Hangup
<1>14. CASE UNCHANGED vars
  BY <1>14 DEF vars
<1> QED
  BY <1>1, <1>2, <1>3, <1>4, <1>5, <1>6, <1>7, <1>8, <1>9, <1>10, <1>11, <1>12, <1>13,
     <1>14, NextCases

\* Only a connection on which a call timed out is used after the server has refused.
LEMMA NextBrokenInv ==
    ASSUME TypeOK, OrderInv, BehindInv, BrokenInv, [Next]_vars
    PROVE  BrokenInv'
<1> USE DEF given, connection, Return, NoConnection, BrokenInv
<1>1. CASE Call
  BY <1>1 DEF Call
<1>2. CASE SocketFails
  BY <1>2 DEF SocketFails
<1>3. CASE NoServer
  BY <1>3 DEF NoServer
<1>4. CASE Connect
  BY <1>4 DEF Connect
<1>5. CASE ConnectFails
  BY <1>5 DEF ConnectFails
<1>6. CASE Send
  <2>1. calls \in Int /\ timeouts \in Nat /\ at = "send" /\ at' = "recv"
        /\ UNCHANGED <<stream, calls, timeouts>> /\ stream \in Seq(Parts)
        /\ received \in Seq(1..MaxCalls) /\ (peer' = "broken" => received' = received)
    BY <1>6 DEF Send, TypeOK
  <2>2. timeouts = 0 => /\ ~\E i \in 1..Len(stream) : TRUE
                        /\ ~\E i \in 1..Len(received) : TRUE
    BY <2>1, Requests DEF OrderInv, Known, Newest, BehindInv, Oldest
  <2>3. timeouts = 0 => stream = <<>> /\ received = <<>>
    BY <2>1, <2>2, EmptySeq
  <2> QED
    BY <2>1, <2>3
<1>7. CASE SendFails
  BY <1>7 DEF SendFails
<1>8. CASE SendKills
  BY <1>8 DEF SendKills
<1>9. CASE Recv
  <2>1. \E n \in Nat : Taken(n)
    BY <1>9, RecvTakes DEF TypeOK
  <2>2. stream # <<>>
    BY <2>1 DEF Taken
  <2> QED
    BY <1>9, <2>2 DEF Recv
<1>10. CASE RecvClose
  BY <1>10 DEF RecvClose
<1>11. CASE RecvTimeout
  BY <1>11 DEF RecvTimeout
<1>12. CASE Answer
  BY <1>12 DEF Answer
<1>13. CASE Hangup
  BY <1>13 DEF Hangup
<1>14. CASE UNCHANGED vars
  BY <1>14 DEF vars
<1> QED
  BY <1>1, <1>2, <1>3, <1>4, <1>5, <1>6, <1>7, <1>8, <1>9, <1>10, <1>11, <1>12, <1>13,
     <1>14, NextCases

\* The order of what is on its way is kept.
LEMMA NextOrderInv ==
    ASSUME TypeOK, SocketInv, OrderInv, [Next]_vars
    PROVE  OrderInv'
<1> USE DEF given, connection, Return, NoConnection, Frame
<1>1. CASE Call
  BY <1>1, FrameOrderInv DEF Call, SocketInv, TypeOK, Newest
<1>2. CASE SocketFails
  BY <1>2, FrameOrderInv DEF SocketFails, SocketInv, TypeOK, Newest
<1>3. CASE NoServer
  BY <1>3, FrameOrderInv DEF NoServer, SocketInv, TypeOK, Newest
<1>4. CASE Connect
  BY <1>4, FrameOrderInv DEF Connect, SocketInv, TypeOK, Newest
<1>5. CASE ConnectFails
  BY <1>5, FrameOrderInv DEF ConnectFails, SocketInv, TypeOK, Newest
<1>6. CASE Send
  BY <1>6, SendOrderInv
<1>7. CASE SendFails
  BY <1>7, FrameOrderInv DEF SendFails, SocketInv, TypeOK, Newest
<1>8. CASE SendKills
  BY <1>8, FrameOrderInv DEF SendKills, SocketInv, TypeOK, Newest
<1>9. CASE Recv
  BY <1>9, RecvOrderInv
<1>10. CASE RecvClose
  BY <1>10, FrameOrderInv DEF RecvClose, SocketInv, TypeOK, Newest
<1>11. CASE RecvTimeout
  BY <1>11, FrameOrderInv DEF RecvTimeout, SocketInv, TypeOK, Newest
<1>12. CASE Answer
  BY <1>12, AnswerOrderInv
<1>13. CASE Hangup
  BY <1>13, FrameOrderInv DEF Hangup, SocketInv, TypeOK, Newest
<1>14. CASE UNCHANGED vars
  BY <1>14, FrameOrderInv DEF vars, TypeOK, Newest
<1> QED
  BY <1>1, <1>2, <1>3, <1>4, <1>5, <1>6, <1>7, <1>8, <1>9, <1>10, <1>11, <1>12, <1>13,
     <1>14, NextCases

-----------------------------------------------------------------------------
\* The answers of which the first part is on its way.
Firsts(parts) == {i \in 1..Len(parts) : parts[i].part = 1}

\* Every success has used up the first part of an answer.
AnswersInv == successes + Cardinality(Firsts(stream)) <= answered

\* They can be counted.
LEMMA FirstsFinite ==
    ASSUME stream \in Seq(Parts)
    PROVE  /\ IsFiniteSet(Firsts(stream)) /\ Cardinality(Firsts(stream)) \in Nat
           /\ Len(stream) \in Nat
<1>1. Len(stream) \in Nat
  BY LenProperties
<1>2. IsFiniteSet(1..Len(stream))
  BY <1>1, FS_Interval
<1>3. Firsts(stream) \in SUBSET (1..Len(stream))
  BY DEF Firsts
<1>4. IsFiniteSet(Firsts(stream))
  BY <1>2, <1>3, FS_Subset
<1> QED
  BY <1>1, <1>4, FS_CardinalityType

\* Recv uses up the first parts it takes.
LEMMA FirstsTaken ==
    ASSUME stream \in Seq(Parts), NEW n \in Nat, Taken(n), Left(n)
    PROVE  /\ Cardinality(Firsts(stream')) <= Cardinality(Firsts(stream))
           /\ Cardinality(Firsts(stream')) \in Nat
           /\ (\E i \in 1..n : stream[i].part = 1) =>
                Cardinality(Firsts(stream')) + 1 <= Cardinality(Firsts(stream))
<1> DEFINE F == Firsts(stream)
           R == {i \in F : i > n}
           shift == [i \in Firsts(stream') |-> i + n]
<1>1. /\ Len(stream) \in Nat /\ n \in 1..Len(stream) /\ Len(stream') = Len(stream) - n
      /\ \A i \in 1..Len(stream') : stream'[i] = stream[i + n]
  BY LenProperties DEF Taken, Left
<1>2. IsFiniteSet(F) /\ Cardinality(F) \in Nat
  BY FirstsFinite
<1>3. shift \in Bijection(Firsts(stream'), R)
  <2>1. \A i \in Firsts(stream') : i + n \in R
    BY <1>1 DEF Firsts
  <2>2. \A i, j \in Firsts(stream') : i + n = j + n => i = j
    BY <1>1 DEF Firsts
  <2>3. \A k \in R : k - n \in Firsts(stream') /\ (k - n) + n = k
    BY <1>1 DEF Firsts
  <2>4. shift \in [Firsts(stream') -> R]
    BY <2>1
  <2>5. \A k \in R : \E i \in Firsts(stream') : shift[i] = k
    BY <2>3
  <2> QED
    <3>1. \A i, j \in Firsts(stream') : shift[i] = shift[j] => i = j
      BY <2>2
    <3>2. shift \in Injection(Firsts(stream'), R)
      BY <2>4, <3>1 DEF Injection, IsInjective
    <3>3. shift \in Surjection(Firsts(stream'), R)
      BY <2>4, <2>5 DEF Surjection
    <3> QED
      BY <3>2, <3>3 DEF Bijection
<1>4. IsFiniteSet(R) /\ Cardinality(R) <= Cardinality(F) /\ Cardinality(R) \in Nat
  <2>1. R \subseteq F
    OBVIOUS
  <2> QED
    BY <1>2, <2>1, FS_Subset, FS_CardinalityType
<1>5. IsFiniteSet(Firsts(stream')) /\ Cardinality(Firsts(stream')) = Cardinality(R)
  <2>1. stream' \in Seq(Parts)
    BY DEF Left
  <2>2. IsFiniteSet(Firsts(stream'))
    <3>1. Len(stream') \in Nat
      BY <2>1, LenProperties
    <3>2. IsFiniteSet(1..Len(stream'))
      BY <3>1, FS_Interval
    <3>3. Firsts(stream') \in SUBSET (1..Len(stream'))
      BY DEF Firsts
    <3> QED
      BY <3>2, <3>3, FS_Subset
  <2>3. ExistsBijection(Firsts(stream'), R)
    BY <1>3 DEF ExistsBijection
  <2> QED
    BY <2>2, <2>3, FS_Bijection
<1>6. ASSUME NEW i \in 1..n, stream[i].part = 1
      PROVE  Cardinality(R) + 1 <= Cardinality(F)
  <2>1. i \in F /\ i \notin R
    BY <1>1, <1>6 DEF Firsts
  <2>2. R # F /\ R \in SUBSET F
    BY <2>1
  <2>3. Cardinality(R) < Cardinality(F)
    BY <1>2, <1>4, <2>2, FS_Subset
  <2> QED
    BY <1>2, <1>4, <2>3
<1> QED
  BY <1>2, <1>4, <1>5, <1>6

\* Only the first part of an answer adds to them.
LEMMA AnswerFirsts ==
    ASSUME TypeOK, Answer
    PROVE  /\ Cardinality(Firsts(stream')) \in Nat
           /\ sent # 0 => Cardinality(Firsts(stream')) = Cardinality(Firsts(stream))
           /\ Cardinality(Firsts(stream')) <= Cardinality(Firsts(stream)) + 1
<1>1. /\ Next1.part = sent + 1 /\ Len(stream) \in Nat /\ Len(stream') = Len(stream) + 1
      /\ stream'[Len(stream) + 1] = Next1 /\ sent \in Int
      /\ \A i \in 1..Len(stream) : stream'[i] = stream[i]
  BY AnswerAdds DEF TypeOK
<1>2. IsFiniteSet(Firsts(stream)) /\ Cardinality(Firsts(stream)) \in Nat
  BY FirstsFinite DEF TypeOK
<1>3. CASE sent = 0
  <2>1. Firsts(stream') = Firsts(stream) \cup {Len(stream) + 1}
    BY <1>1, <1>3 DEF Firsts
  <2>2. Len(stream) + 1 \notin Firsts(stream)
    BY <1>1 DEF Firsts
  <2> QED
    <3>1. Cardinality(Firsts(stream) \cup {Len(stream) + 1}) = Cardinality(Firsts(stream)) + 1
      BY <1>2, <2>2, FS_AddElement
    <3> QED
      BY <1>2, <1>3, <2>1, <3>1
<1>4. CASE sent # 0
  <2>1. Firsts(stream') = Firsts(stream)
    BY <1>1, <1>4 DEF Firsts
  <2> QED
    BY <1>2, <2>1
<1> QED
  BY <1>3, <1>4

\* A connection without parts has none.
LEMMA NoFirsts == Cardinality(Firsts(<<>>)) = 0
<1>1. Firsts(<<>>) = {}
  BY DEF Firsts
<1> QED
  BY <1>1, FS_EmptySet

\* The answer to a success is used up.
LEMMA RecvAnswersInv ==
    ASSUME TypeOK, AnswersInv, Recv
    PROVE  AnswersInv'
<1>1. stream \in Seq(Parts) /\ successes \in Nat /\ answered \in Nat
  BY DEF TypeOK
<1>2. PICK n \in Nat :
         /\ Taken(n) /\ Left(n)
         /\ \/ Return("SDK_SUCCESS", SubSeq(stream, 1, n))
            \/ UNCHANGED successes
  BY <1>1, RecvTakes
<1>3. \/ successes' = successes
      \/ successes' = successes + 1 /\ \E i \in 1..n : stream[i].part = 1
  BY <1>2 DEF Return, Taken
<1>4. answered' = answered
  BY DEF Recv
<1> QED
  BY <1>1, <1>2, <1>3, <1>4, FirstsTaken, FirstsFinite DEF AnswersInv

\* ... also if the connection is closed after it.
LEMMA RecvCloseAnswersInv ==
    ASSUME TypeOK, AnswersInv, RecvClose
    PROVE  AnswersInv'
<1>1. stream \in Seq(Parts) /\ successes \in Nat /\ answered \in Nat
  BY DEF TypeOK
<1>2. PICK n \in Nat : Taken(n) /\ Return("SDK_SUCCESS", SubSeq(stream, 1, n))
  BY <1>1, RecvCloseTakes
<1>3. \/ successes' = successes
      \/ successes' = successes + 1 /\ \E i \in 1..n : stream[i].part = 1
  BY <1>2 DEF Return, Taken
<1>4. answered' = answered /\ stream' = <<>>
  BY DEF RecvClose, NoConnection
<1>5. (\E i \in 1..n : stream[i].part = 1) => Cardinality(Firsts(stream)) # 0
  <2>1. (\E i \in 1..n : stream[i].part = 1) => Firsts(stream) # {}
    BY <1>2 DEF Taken, Firsts
  <2> QED
    BY <1>1, <2>1, FirstsFinite, FS_EmptySet
<1> QED
  BY <1>1, <1>3, <1>4, <1>5, FirstsFinite, NoFirsts DEF AnswersInv

\* No success without an answer of its own.
LEMMA NextAnswersInv ==
    ASSUME TypeOK, AnswersInv, [Next]_vars
    PROVE  AnswersInv'
<1> USE DEF given, connection, Return, NoConnection, AnswersInv
<1> DEFINE Known1 == successes \in Nat /\ answered \in Nat /\ Cardinality(Firsts(stream)) \in Nat
                     /\ Cardinality(Firsts(<<>>)) = 0
<1>0. Known1
  BY FirstsFinite, NoFirsts DEF TypeOK
<1>1. CASE Call
  <2>1. successes' = successes /\ answered' = answered /\ stream' \in {stream, <<>>}
    BY <1>1 DEF Call
  <2> QED
    BY <2>1, <1>0
<1>2. CASE SocketFails
  <2>1. successes' = successes /\ answered' = answered /\ stream' \in {stream, <<>>}
    BY <1>2 DEF SocketFails
  <2> QED
    BY <2>1, <1>0
<1>3. CASE NoServer
  <2>1. successes' = successes /\ answered' = answered /\ stream' \in {stream, <<>>}
    BY <1>3 DEF NoServer
  <2> QED
    BY <2>1, <1>0
<1>4. CASE Connect
  <2>1. successes' = successes /\ answered' = answered /\ stream' \in {stream, <<>>}
    BY <1>4 DEF Connect
  <2> QED
    BY <2>1, <1>0
<1>5. CASE ConnectFails
  <2>1. successes' = successes /\ answered' = answered /\ stream' \in {stream, <<>>}
    BY <1>5 DEF ConnectFails
  <2> QED
    BY <2>1, <1>0
<1>6. CASE Send
  <2>1. successes' = successes /\ answered' = answered /\ stream' \in {stream, <<>>}
    BY <1>6 DEF Send
  <2> QED
    BY <2>1, <1>0
<1>7. CASE SendFails
  <2>1. successes' = successes /\ answered' = answered /\ stream' \in {stream, <<>>}
    BY <1>7 DEF SendFails
  <2> QED
    BY <2>1, <1>0
<1>8. CASE SendKills
  <2>1. successes' = successes /\ answered' = answered /\ stream' \in {stream, <<>>}
    BY <1>8 DEF SendKills
  <2> QED
    BY <2>1, <1>0
<1>9. CASE Recv
  BY <1>9, RecvAnswersInv
<1>10. CASE RecvClose
  BY <1>10, RecvCloseAnswersInv
<1>11. CASE RecvTimeout
  <2>1. successes' = successes /\ answered' = answered /\ stream' \in {stream, <<>>}
    BY <1>11 DEF RecvTimeout
  <2> QED
    BY <2>1, <1>0
<1>12. CASE Answer
  <2>1. successes' = successes /\ answered' = IF sent = 0 THEN answered + 1 ELSE answered
    BY <1>12 DEF Answer
  <2> QED
    BY <1>12, <2>1, <1>0, AnswerFirsts
<1>13. CASE Hangup
  <2>1. successes' = successes /\ answered' = answered /\ stream' \in {stream, <<>>}
    BY <1>13 DEF Hangup
  <2> QED
    BY <2>1, <1>0
<1>14. CASE UNCHANGED vars
  BY <1>14, <1>0 DEF vars
<1> QED
  BY <1>1, <1>2, <1>3, <1>4, <1>5, <1>6, <1>7, <1>8, <1>9, <1>10, <1>11, <1>12, <1>13,
     <1>14, NextCases

-----------------------------------------------------------------------------
IInv == TypeOK /\ SocketInv /\ OrderInv /\ BehindInv /\ LagBound /\ BrokenInv /\ AnswersInv

\* At first there is no connection and no answer.
LEMMA InitIInv == Init => IInv
<1> SUFFICES ASSUME Init
             PROVE  IInv
  OBVIOUS
<1>1. stream = <<>> /\ received = <<>> /\ Len(stream) = 0 /\ Len(received) = 0 /\ sent = 0
      /\ at = "idle"
  BY DEF Init
<1>2. SocketInv /\ BehindInv /\ LagBound /\ BrokenInv
  BY <1>1 DEF Init, SocketInv, BehindInv, Oldest, LagBound, Succeeded, BrokenInv
<1>3. OrderInv
  BY <1>1 DEF OrderInv, StreamOrder, ReceivedOrder, Between, LastPart, Contiguous, Known
<1>4. AnswersInv
  BY <1>1, NoFirsts DEF Init, AnswersInv
<1> QED
  BY <1>2, <1>3, <1>4, InitTypeOK DEF IInv

\* What is known of the client, its connection and the answers that are late.
THEOREM Invariance == Spec => []IInv
<1>1. IInv /\ [Next]_vars => IInv'
  BY NextTypeOK, NextSocketInv, NextOrderInv, NextBehindInv, NextLagBound, NextBrokenInv,
     NextAnswersInv DEF IInv
<1> QED
  BY InitIInv, <1>1, PTL DEF Spec

\* Every variable keeps its type.
THEOREM TypeCorrectness == Spec => []TypeOK
<1>1. IInv => TypeOK
  BY DEF IInv
<1> QED
  BY <1>1, Invariance, PTL

\* However the parts of the answers arrive, an answer is behind the request it is
\* returned for by no more requests than timed out on the connection (tcp_iot, SendHttp).
THEOREM LagIsBounded == Spec => []LagBound
<1>1. IInv => LagBound
  BY DEF IInv
<1> QED
  BY <1>1, Invariance, PTL

\* TestCase_IOT never counts more successes than the server has answered.
THEOREM SuccessesAreAnswered == Spec => []SuccessesAnswered
<1>1. IInv => SuccessesAnswered
  <2> SUFFICES ASSUME IInv
               PROVE  successes <= answered
    BY DEF SuccessesAnswered
  <2>1. /\ successes \in Nat /\ answered \in Nat /\ Cardinality(Firsts(stream)) \in Nat
        /\ successes + Cardinality(Firsts(stream)) <= answered
    BY FirstsFinite DEF IInv, TypeOK, AnswersInv
  <2> QED
    BY <2>1
<1> QED
  BY <1>1, Invariance, PTL

\* SIGPIPE ends the process only without a server, or after a timeout.
THEOREM KillNeedsTimeout == Spec => []KilledOnlyAfterTimeout
<1>1. IInv => KilledOnlyAfterTimeout
  BY DEF IInv, TypeOK, SocketInv, BrokenInv, KilledOnlyAfterTimeout
<1> QED
  BY <1>1, Invariance, PTL
=============================================================================
