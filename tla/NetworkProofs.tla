---------------------------- MODULE NetworkProofs ----------------------------
(****************************************************************************)
(* Proofs about Network, for any number of clients, handler threads and     *)
(* calls.                                                                   *)
(*                                                                          *)
(* The shutdown of the server: what SignalFunc writes is final.             *)
(*                                                                          *)
(* Answers and their requests.  Messages carry no number.  A client that    *)
(* never timed out gets true answers all the same: it has at most one       *)
(* message in the whole system, on its way, queued, with one handler, or in *)
(* its receive buffer; and if that one is read in parts, its call never     *)
(* returns.  One that did time out gets its replies in order if there is    *)
(* one handler thread: whatever is further on its way is of an earlier call *)
(* or a later part.                                                         *)
(****************************************************************************)
EXTENDS Network, TLAPS

-----------------------------------------------------------------------------
(* The shutdown *)

\* hpc is a function on the handlers, so that a step of one of them moves that
\* one only.
Places == Working \cup {"top", "waiting", "repeating", "wedged", "ended", "exited"}
PlacesKnown == hpc \in [Handlers -> Places]

\* From the join on every handler thread has exited, and stays so.
JoinedForGood ==
  spc \in {"delete", "flush", "close", "exit", "done"} => \A h \in Handlers : hpc[h] = "exited"

\* After the close memory and disk agree, since nobody is left to put.
ClosedForGood == spc \in {"exit", "done"} => disk = store

\* The process only ends with exit behind the close.
ExitIsLast == process = "exited" => spc = "done"

ExitInv == PlacesKnown /\ JoinedForGood /\ ClosedForGood /\ ExitIsLast

LEMMA InitExit == Init => ExitInv
  BY DEF Init, InitServer, InitConnectHandler, ExitInv, PlacesKnown, JoinedForGood,
         ClosedForGood, ExitIsLast, Places, Working

\* A client touches nothing of the server.
LEMMA ClientExit ==
  ASSUME ExitInv, NEW c \in Clients, ClientNext(c) PROVE ExitInv'
<1>1. UNCHANGED <<process, hpc, spc, store, disk>>
  BY DEF ClientNext, Connect, Put, Get, ClientReturn, PutReturn, PutAssertFails,
         GetReturn, GetAborts, ReceivePart, DeleteClient, ClientStep, handlerVars, dataVars,
         tableVars
<1> QED BY <1>1 DEF ExitInv, PlacesKnown, JoinedForGood, ClosedForGood, ExitIsLast

\* The loop wakes handlers that wait; it never moves one that has exited.
LEMMA LoopExit ==
  ASSUME ExitInv, Loop \/ MainReturns PROVE ExitInv'
<1> USE DEF ExitInv, PlacesKnown, JoinedForGood, ClosedForGood, ExitIsLast, LoopStep,
            dataVars, tableVars, handlerVars, Places, Working
<1>1. CASE SignalHandler
  <2>1. UNCHANGED <<process, spc, store, disk>>
    BY <1>1 DEF SignalHandler
  <2>2. \/ hpc' = hpc
        \/ \E h \in Handlers : hpc[h] = "waiting" /\ hpc' = [hpc EXCEPT ![h] = "top"]
    BY <1>1 DEF SignalHandler
  <2> QED BY <2>1, <2>2
<1>2. CASE \E c \in Clients : EchoRead(c) \/ EchoReadPart(c)
  BY <1>2 DEF EchoRead, EchoReadPart, ReadPiece, QueueDestroyed, Up
<1>3. CASE MainReturns
  BY <1>3 DEF MainReturns
<1> QED BY <1>1, <1>2, <1>3 DEF Loop

\* A handler that still takes a step has not exited, so the join is not over.
LEMMA HandlerExits ==
  ASSUME ExitInv, NEW h \in Handlers, HandlerNext(h) \/ HandlerMay(h) PROVE ExitInv'
<1>1. /\ UNCHANGED <<spc, disk>>
      /\ process' # "exited"
  BY DEF HandlerNext, HandlerMay, HandlerExit, HandlerWait, GetWork, MsgHandler, PutForever,
         MsgHandlerDefault, MsgHandlerAssertFails, SendReply, SendBlocks, SelectReturns,
         SendReplyForever, SpuriousWakeup, HandlerStep, Up
<1>2. hpc[h] # "exited" /\ \E to \in Places : hpc' = [hpc EXCEPT ![h] = to]
  BY DEF HandlerNext, HandlerMay, HandlerExit, HandlerWait, GetWork, MsgHandler, PutForever,
         MsgHandlerDefault, MsgHandlerAssertFails, SendReply, SendBlocks, SelectReturns,
         SendReplyForever, SpuriousWakeup, HandlerStep, Places, Working
<1>3. spc \notin {"delete", "flush", "close", "exit", "done"}
  BY <1>2 DEF ExitInv, JoinedForGood
<1> QED BY <1>1, <1>2, <1>3 DEF ExitInv, PlacesKnown, JoinedForGood, ClosedForGood, ExitIsLast

\* The shutdown goes through the join before it closes the manager, and
\* through that before it exits.
LEMMA SignalExit ==
  ASSUME ExitInv, StopLoop \/ Signal PROVE ExitInv'
<1> USE DEF ExitInv, PlacesKnown, JoinedForGood, ClosedForGood, ExitIsLast, SignalStep, Up,
            tableVars, Places, Working
<1>1. CASE StopLoop BY <1>1 DEF StopLoop
<1>2. CASE StopHandler BY <1>2 DEF StopHandler
<1>3. CASE Broadcast BY <1>3 DEF Broadcast
<1>8. CASE DeleteLoop BY <1>8 DEF DeleteLoop
<1>9. CASE Close BY <1>9 DEF Close
<1>4. CASE JoinHandlers BY <1>4 DEF JoinHandlers
<1>5. CASE DeleteWorkList BY <1>5 DEF DeleteWorkList
<1>6. CASE Flush BY <1>6 DEF Flush
<1>7. CASE Exit BY <1>7 DEF Exit
<1> QED BY <1>1, <1>2, <1>3, <1>4, <1>5, <1>6, <1>7, <1>8, <1>9 DEF Signal

LEMMA NextExit == ExitInv /\ [Next]_vars => ExitInv'
<1> SUFFICES ASSUME ExitInv, [Next]_vars PROVE ExitInv'
  OBVIOUS
<1>1. ASSUME NEW c \in Clients, ClientNext(c) PROVE ExitInv'
  BY <1>1, ClientExit
<1>2. CASE Loop \/ MainReturns
  BY <1>2, LoopExit
<1>3. ASSUME NEW h \in Handlers, HandlerNext(h) \/ HandlerMay(h) PROVE ExitInv'
  BY <1>3, HandlerExits
<1>4. CASE StopLoop \/ Signal
  BY <1>4, SignalExit
<1>5. CASE UNCHANGED vars
  BY <1>5 DEF vars, handlerVars, dataVars, tableVars, ExitInv, PlacesKnown, JoinedForGood,
              ClosedForGood, ExitIsLast
<1> QED BY <1>1, <1>2, <1>3, <1>4, <1>5 DEF Next, Stopped

\* Whatever calls are in progress when the signal comes, every put a handler
\* made is on disk when SignalFunc reaches exit.
THEOREM ShutdownKeepsPuts == Spec => []ExitKeepsPuts
<1>1. ExitInv => ExitKeepsPuts
  BY DEF ExitInv, ClosedForGood, ExitIsLast, ExitKeepsPuts
<1> QED BY InitExit, NextExit, <1>1, PTL DEF Spec

-----------------------------------------------------------------------------
(* Answers *)

\* The four places of a message of client c.
AtServer(c)  == toServer[c] # <<>>
Queued(c, i) == i \in 1..Len(pWorkList) /\ pWorkList[i].client = c
InWork(c, h) == hpc[h] \in Working /\ hwork[h].client = c
AtClient(c)  == toClient[c] # <<>>

\* Reply r answers the last request of c, and truly.
Answers(r, c) ==
  /\ r.id = asked[c].id
  /\ r.type = asked[c].type
  /\ (r.type = "put" /\ r.nRet = 0) => asked[c].key \in store

\* In each place the message is the last request or its answer, and where one
\* is there is none elsewhere.
OneAtServer(c) ==
  AtServer(c) =>
    /\ toServer[c] = <<asked[c]>>
    /\ ~AtClient(c)
    /\ \A h \in Handlers : ~InWork(c, h)
    /\ \A i \in Nat : ~Queued(c, i)

OneQueued(c) ==
  \A i \in Nat : Queued(c, i) =>
    /\ pWorkList[i].reqs = <<asked[c]>>
    /\ ~AtClient(c)
    /\ \A h \in Handlers : ~InWork(c, h)
    /\ \A j \in Nat : Queued(c, j) => j = i

OneInWork(c) ==
  \A h \in Handlers : InWork(c, h) =>
    /\ hpc[h] = "handling" => hwork[h].reqs = <<asked[c]>>
    /\ hpc[h] # "handling" => reply[h] \in Reply /\ Answers(reply[h], c)
    /\ ~AtClient(c)
    /\ \A g \in Handlers : InWork(c, g) => g = h

OneAtClient(c) ==
  AtClient(c) => Len(toClient[c]) = 1 /\ Answers(toClient[c][1], c)

\* Only a client inside a call has a message anywhere.
NoneOutsideCalls(c) ==
  IF cpc[c] \in {"put", "get"}
  THEN asked[c] \in Request /\ asked[c].type = cpc[c] /\ asked[c].part = "whole"
  ELSE /\ ~AtServer(c) /\ ~AtClient(c)
       /\ \A h \in Handlers : ~InWork(c, h)
       /\ \A i \in Nat : ~Queued(c, i)

\* What it took last was the answer, and if that ended it, it was a get that
\* found nothing.
TookAnswer(c) ==
  /\ cpc[c] = "new" => answer[c] = NULL
  /\ cpc[c] = "idle" /\ answer[c] # NULL => Answers(answer[c], c)
  /\ cpc[c] = "aborted" =>
       answer[c].type = "get" /\ asked[c].type = "get" /\ ~answer[c].found

Served(c) ==
  /\ OneAtServer(c) /\ OneQueued(c) /\ OneInWork(c) /\ OneAtClient(c)
  /\ NoneOutsideCalls(c) /\ TookAnswer(c)

\* Of the message of a client only parts are left, or replies to them.
OnlyParts(c) ==
  /\ \A i \in 1..Len(toServer[c]) : toServer[c][i].part # "whole"
  /\ \A i \in Nat : Queued(c, i) => pWorkList[i].reqs[1].part # "whole"
  /\ \A h \in Handlers : InWork(c, h) =>
       /\ hpc[h] = "handling" => hwork[h].reqs[1].part # "whole"
       /\ hpc[h] # "handling" => reply[h].type = "kitty"
  /\ \A i \in 1..Len(toClient[c]) : toClient[c][i].type = "kitty"

\* Its call does not return.
Lost(c) == cpc[c] = "aborted" \/ (cpc[c] \in {"put", "get"} /\ OnlyParts(c))

AllServed == \A c \in Clients \ late : IF c \in split THEN Lost(c) ELSE Served(c)

ServerNeedsCause == process = "aborted" => late \cup split # {}

Inv == TypeOK /\ AllServed /\ ServerNeedsCause

-----------------------------------------------------------------------------
(* Types *)

LEMMA InitTypes == Init => TypeOK
<1> SUFFICES ASSUME Init PROVE TypeOK
  OBVIOUS
<1>1. <<>> \in Seq(Request) /\ <<>> \in Seq(Reply) /\ <<>> \in Seq(Work)
  OBVIOUS
<1> QED BY <1>1 DEF Init, InitServer, InitConnectHandler, InitClient, TypeOK, Working

\* A call that starts stays within the bound.
LEMMA Sends ==
  ASSUME TypeOK, NEW c \in Clients, Put(c) \/ Get(c)
  PROVE  /\ calls[c] + 1 \in Ids
         /\ UNCHANGED <<split, process, loopVars, bIsRunning, pWorkList, handlerVars, spc,
                        dataVars>>
         /\ cpc[c] = "idle"
         /\ \E request \in Request :
              /\ SendRequest(c, request) /\ cpc' = [cpc EXCEPT ![c] = request.type]
              /\ request.part = "whole" /\ request.id = calls[c] + 1
<1>1. calls[c] + 1 \in Ids
  <2>1. calls[c] \in Nat
    BY CallsAssumption DEF TypeOK, Ids
  <2>2. calls[c] < MaxCalls[c]
    BY DEF Put, Get, SendRequest
  <2>3. calls[c] + 1 \in 1..MaxCalls[c]
    BY <2>1, <2>2, CallsAssumption
  <2> QED BY <2>3 DEF Ids
<1>2. \E request \in Request :
        /\ SendRequest(c, request) /\ cpc' = [cpc EXCEPT ![c] = request.type]
        /\ request.part = "whole" /\ request.id = calls[c] + 1
  <2>1. ASSUME NEW k \in Keys
        PROVE  /\ PutRequest(k, calls[c] + 1) \in Request
               /\ PutRequest(k, calls[c] + 1).type = "put"
               /\ PutRequest(k, calls[c] + 1).part = "whole"
               /\ PutRequest(k, calls[c] + 1).id = calls[c] + 1
               /\ GetRequest(k, calls[c] + 1) \in Request
               /\ GetRequest(k, calls[c] + 1).type = "get"
               /\ GetRequest(k, calls[c] + 1).part = "whole"
               /\ GetRequest(k, calls[c] + 1).id = calls[c] + 1
    BY <1>1 DEF PutRequest, GetRequest, Request, Parts
  <2>2. CASE Put(c)
    <3>1. PICK k \in Keys : SendRequest(c, PutRequest(k, calls[c] + 1))
      BY <2>2 DEF Put
    <3> QED BY <3>1, <2>1, <2>2 DEF Put, ClientStep
  <2>3. CASE Get(c)
    <3>1. PICK k \in Keys : SendRequest(c, GetRequest(k, calls[c] + 1))
      BY <2>3 DEF Get
    <3> QED BY <3>1, <2>1, <2>3 DEF Get, ClientStep
  <2> QED BY <2>2, <2>3
<1> QED BY <1>1, <1>2 DEF Put, Get, ClientStep, SendRequest

LEMMA SendTypes ==
  ASSUME TypeOK, NEW c \in Clients, Put(c) \/ Get(c) PROVE TypeOK'
<1>1. PICK request \in Request :
        SendRequest(c, request) /\ cpc' = [cpc EXCEPT ![c] = request.type]
  BY Sends
<1>4. /\ calls[c] + 1 \in Ids
      /\ UNCHANGED <<split, process, loopVars, bIsRunning, pWorkList, handlerVars, spc, dataVars>>
  BY Sends
<1>2. Append(toServer[c], request) \in Seq(Request)
  BY DEF TypeOK
<1>3. request.type \in {"put", "get"}
  BY DEF Request
<1> QED BY <1>1, <1>2, <1>3, <1>4
        DEF TypeOK, SendRequest, loopVars, handlerVars, dataVars, tableVars

\* The two ways in which a call ends: with n replies, or with a part of one.
LEMMA Returns ==
  ASSUME NEW c \in Clients, ClientReturn(c)
  PROVE  /\ UNCHANGED <<process, loopVars, bIsRunning, pWorkList, handlerVars, spc, dataVars>>
         /\ cpc[c] \in {"put", "get"}
         /\ \E to \in {"idle", "aborted"} : cpc' = [cpc EXCEPT ![c] = to]
         /\ ReceivePart(c) \/ \E n \in 0..Len(toClient[c]) : Receive(c, n)
  BY DEF ClientReturn, PutReturn, PutAssertFails, GetReturn, GetAborts, ReceivePart, ClientStep

\* What is left behind the first n of a sequence.
LEMMA LeftOver ==
  ASSUME NEW S, NEW s \in Seq(S), NEW n \in 0..Len(s)
  PROVE  /\ SubSeq(s, n + 1, Len(s)) \in Seq(S)
         /\ Len(SubSeq(s, n + 1, Len(s))) = Len(s) - n
         /\ \A i \in 1..(Len(s) - n) : SubSeq(s, n + 1, Len(s))[i] = s[n + i]
<1>1. n \in Nat /\ n <= Len(s) /\ Len(s) \in Nat
  OBVIOUS
<1>2. ASSUME n = Len(s) PROVE SubSeq(s, n + 1, Len(s)) = <<>>
  BY <1>1, <1>2
<1>3. CASE n = Len(s)
  <2>1. <<>> \in Seq(S) /\ Len(<<>>) = 0 /\ Len(s) - n = 0
    BY <1>1, <1>3
  <2>2. 1..(Len(s) - n) = {}
    BY <1>1, <1>3
  <2> QED BY <1>2, <1>3, <2>1, <2>2
<1>4. CASE n < Len(s)
  <2>1. Len(SubSeq(s, n + 1, Len(s))) = Len(s) - n
    BY <1>1, <1>4
  <2>2. \A i \in 1..(Len(s) - n) : SubSeq(s, n + 1, Len(s))[i] = s[n + i]
    BY <1>1, <1>4
  <2> QED BY <1>1, <1>4, <2>1, <2>2
<1> QED BY <1>1, <1>3, <1>4

\* What is taken from its front.
LEMMA TakenFront ==
  ASSUME NEW S, NEW s \in Seq(S), NEW n \in 0..Len(s)
  PROVE  /\ SubSeq(s, 1, n) \in Seq(S)
         /\ Len(SubSeq(s, 1, n)) = n
         /\ \A i \in 1..n : SubSeq(s, 1, n)[i] = s[i]
<1>1. n \in Nat /\ n <= Len(s) /\ Len(s) \in Nat
  OBVIOUS
<1> QED BY <1>1

LEMMA ReturnTypes ==
  ASSUME TypeOK, NEW c \in Clients, ClientReturn(c) \/ Connect(c) \/ DeleteClient(c)
  PROVE TypeOK'
<1>1. /\ UNCHANGED <<process, loopVars, bIsRunning, pWorkList, handlerVars, spc, dataVars>>
      /\ \E to \in {"idle", "closed", "aborted"} : cpc' = [cpc EXCEPT ![c] = to]
      /\ \/ \E n \in 0..Len(toClient[c]) : Receive(c, n)
         \/ ReceivePart(c)
         \/ UNCHANGED <<toServer, toClient, calls, asked, answer, late, split>>
  BY Returns DEF Connect, DeleteClient, ClientStep
<1>2. toClient[c] \in Seq(Reply)
  BY DEF TypeOK
<1>3. cpc' \in [Clients -> {"new", "idle", "put", "get", "closed", "aborted"}]
  BY <1>1 DEF TypeOK
<1>4. /\ toServer' \in [Clients -> Seq(Request)]
      /\ calls' \in [Clients -> Ids \cup {0}]
      /\ asked' \in [Clients -> Request \cup {NULL}]
  BY <1>1 DEF TypeOK, Receive, ReceivePart
<1>6. toClient' \in [Clients -> Seq(Reply)]
  <2>1. <<>> \in Seq(Reply)
    OBVIOUS
  <2>2. ASSUME NEW n \in 0..Len(toClient[c])
        PROVE  SubSeq(toClient[c], n + 1, Len(toClient[c])) \in Seq(Reply)
    BY <1>2, LeftOver
  <2>3. \/ toClient' = toClient
        \/ \E s \in Seq(Reply) : toClient' = [toClient EXCEPT ![c] = s]
    <3>1. ASSUME NEW n \in 0..Len(toClient[c]), Receive(c, n)
          PROVE  \E s \in Seq(Reply) : toClient' = [toClient EXCEPT ![c] = s]
      BY <2>2, <3>1 DEF Receive
    <3>2. ASSUME ReceivePart(c)
          PROVE  \E s \in Seq(Reply) : toClient' = [toClient EXCEPT ![c] = s]
      BY <2>1, <3>2 DEF ReceivePart
    <3> QED BY <1>1, <3>1, <3>2
  <2> QED BY <2>3 DEF TypeOK
<1>7. late' \subseteq Clients /\ split' \subseteq Clients
  <2>1. (late' = late \/ late' = late \cup {c}) /\ (split' = split \/ split' = split \cup {c})
    BY <1>1 DEF Receive, ReceivePart
  <2> QED BY <2>1 DEF TypeOK
<1>5. answer' \in [Clients -> Reply \cup {NULL}]
  <2>1. answer' = answer \/ (toClient[c][1] \in Reply /\ answer' = [answer EXCEPT ![c] = toClient[c][1]])
    <3>1. ASSUME NEW n \in 0..Len(toClient[c]), Receive(c, n)
          PROVE  \/ answer' = [answer EXCEPT ![c] = @]
                 \/ toClient[c][1] \in Reply /\ answer' = [answer EXCEPT ![c] = toClient[c][1]]
      <4>1. n # 0 => toClient[c][1] \in Reply
        BY <1>2
      <4> QED BY <3>1, <4>1 DEF Receive
    <3> QED BY <1>1, <3>1 DEF ReceivePart, TypeOK
  <2> QED BY <2>1 DEF TypeOK
<1> QED BY <1>1, <1>3, <1>4, <1>5, <1>6, <1>7
        DEF TypeOK, loopVars, handlerVars, dataVars, tableVars

\* What the loop reads is divided between the piece and what is left: no byte
\* of the piece is behind one that is left.
CutBehind(messages, n, piece, left) ==
  /\ piece = SubSeq(messages, 1, n)
  /\ left = SubSeq(messages, n + 1, Len(messages))

CutInside(messages, n, piece, left) ==
  /\ messages[n].part = "whole"
  /\ piece = SubSeq(messages, 1, n - 1) \o <<[messages[n] EXCEPT !.part = "first"]>>
  /\ left = <<[messages[n] EXCEPT !.part = "rest"]>> \o SubSeq(messages, n + 1, Len(messages))

LEMMA Reads ==
  ASSUME NEW c \in Clients, EchoRead(c) \/ EchoReadPart(c)
  PROVE  \E n \in 1..Len(toServer[c]) : \E piece, left :
           /\ ReadPiece(c, piece, left)
           /\ \/ split' = split /\ CutBehind(toServer[c], n, piece, left)
              \/ split' = split \cup {c} /\ CutInside(toServer[c], n, piece, left)
  BY DEF EchoRead, EchoReadPart, CutBehind, CutInside

LEMMA Appended ==
  ASSUME NEW S, NEW s \in Seq(S), NEW e \in S, NEW n \in Nat, Len(s) = n - 1
  PROVE  /\ s \o <<e>> \in Seq(S) /\ Len(s \o <<e>>) = n /\ (s \o <<e>>)[n] = e
         /\ \A i \in 1..(n - 1) : (s \o <<e>>)[i] = s[i]
  OBVIOUS

\* The messages of a piece and those that are left.
EachOf(messages, n, piece, left) ==
  /\ \A i \in 1..n : piece[i] = messages[i]
  /\ \A i \in 1..(Len(messages) - n) : left[i] = messages[n + i]

LEMMA CutBehindIs ==
  ASSUME NEW messages \in Seq(Request), NEW n \in 1..Len(messages), NEW piece, NEW left,
         CutBehind(messages, n, piece, left)
  PROVE  /\ piece \in Seq(Request) /\ Len(piece) = n
         /\ left \in Seq(Request) /\ Len(left) = Len(messages) - n
         /\ piece[1] = messages[1]
         /\ EachOf(messages, n, piece, left)
<1>1. n \in 0..Len(messages)
  OBVIOUS
<1>2. /\ SubSeq(messages, n + 1, Len(messages)) \in Seq(Request)
      /\ Len(SubSeq(messages, n + 1, Len(messages))) = Len(messages) - n
      /\ \A i \in 1..(Len(messages) - n) : SubSeq(messages, n + 1, Len(messages))[i] = messages[n + i]
  BY <1>1, LeftOver
<1>3. /\ SubSeq(messages, 1, n) \in Seq(Request) /\ Len(SubSeq(messages, 1, n)) = n
      /\ \A i \in 1..n : SubSeq(messages, 1, n)[i] = messages[i]
  BY <1>1, TakenFront
<1> QED BY <1>2, <1>3 DEF CutBehind, EachOf

EachOther(messages, n, piece, left) ==
  /\ \A i \in 1..(n - 1) : piece[i] = messages[i]
  /\ \A i \in 2..(Len(messages) - n + 1) : left[i] = messages[n + i - 1]

LEMMA Preceded ==
  ASSUME NEW S, NEW s \in Seq(S), NEW z \in S
  PROVE  /\ <<z>> \o s \in Seq(S) /\ Len(<<z>> \o s) = Len(s) + 1
         /\ (<<z>> \o s)[1] = z
         /\ \A i \in 2..(Len(s) + 1) : (<<z>> \o s)[i] = s[i - 1]
  OBVIOUS

LEMMA CutInsideIs ==
  ASSUME NEW messages \in Seq(Request), NEW n \in 1..Len(messages), NEW piece, NEW left,
         CutInside(messages, n, piece, left)
  PROVE  /\ messages[n].part = "whole"
         /\ piece \in Seq(Request) /\ Len(piece) = n
         /\ left \in Seq(Request) /\ Len(left) = Len(messages) - n + 1
         /\ piece[n].part = "first" /\ piece[n].id = messages[n].id
         /\ left[1].part = "rest" /\ left[1].id = messages[n].id
         /\ EachOther(messages, n, piece, left)
<1>1. n \in 0..Len(messages) /\ n - 1 \in 0..Len(messages) /\ n \in Nat /\ Len(messages) \in Nat
      /\ messages[n] \in Request
  OBVIOUS
<1>2. PICK front, back : front = SubSeq(messages, 1, n - 1)
                         /\ back = SubSeq(messages, n + 1, Len(messages))
  OBVIOUS
<1>3. front \in Seq(Request) /\ Len(front) = n - 1 /\ \A i \in 1..(n - 1) : front[i] = messages[i]
  BY <1>1, <1>2, TakenFront
<1>4. back \in Seq(Request) /\ Len(back) = Len(messages) - n
      /\ \A i \in 1..(Len(messages) - n) : back[i] = messages[n + i]
  BY <1>1, <1>2, LeftOver
<1>5. PICK a, z : /\ a = [messages[n] EXCEPT !.part = "first"]
                  /\ z = [messages[n] EXCEPT !.part = "rest"]
  OBVIOUS
<1>6. a \in Request /\ a.part = "first" /\ a.id = messages[n].id
  BY <1>1, <1>5 DEF Request, Parts
<1>7. z \in Request /\ z.part = "rest" /\ z.id = messages[n].id
  BY <1>1, <1>5 DEF Request, Parts
<1>8. piece = front \o <<a>> /\ left = <<z>> \o back
  BY <1>2, <1>5 DEF CutInside
<1>9. piece \in Seq(Request) /\ Len(piece) = n /\ piece[n] = a
      /\ \A i \in 1..(n - 1) : piece[i] = messages[i]
  <2>1. /\ front \o <<a>> \in Seq(Request) /\ Len(front \o <<a>>) = n
        /\ (front \o <<a>>)[n] = a
        /\ \A i \in 1..(n - 1) : (front \o <<a>>)[i] = front[i]
    BY <1>1, <1>3, <1>6, Appended
  <2> QED BY ONLY <2>1, <1>3, <1>8
<1>10. left \in Seq(Request) /\ Len(left) = Len(messages) - n + 1 /\ left[1] = z
       /\ \A i \in 2..(Len(messages) - n + 1) : left[i] = back[i - 1]
  <2>1. /\ <<z>> \o back \in Seq(Request) /\ Len(<<z>> \o back) = Len(back) + 1
        /\ (<<z>> \o back)[1] = z
        /\ \A i \in 2..(Len(back) + 1) : (<<z>> \o back)[i] = back[i - 1]
    <3>1. back \in Seq(Request) /\ z \in Request
      BY <1>4, <1>7
    <3> QED BY ONLY <3>1, Preceded
  <2> QED BY ONLY <2>1, <1>4, <1>8
<1>11. \A i \in 2..(Len(messages) - n + 1) : left[i] = messages[n + i - 1]
  <2>1. \A i \in 2..(Len(messages) - n + 1) :
          i - 1 \in 1..(Len(messages) - n) /\ n + (i - 1) = n + i - 1
    BY <1>1
  <2> QED BY <1>4, <1>10, <2>1
<1>12. messages[n].part = "whole"
  BY DEF CutInside
<1> QED BY <1>6, <1>7, <1>9, <1>10, <1>11, <1>12 DEF EachOther

LEMMA LoopTypes ==
  ASSUME TypeOK, Loop \/ MainReturns PROVE TypeOK'
<1> USE DEF TypeOK, LoopStep, clientVars, dataVars, tableVars, handlerVars
<1>1. ASSUME NEW c \in Clients, EchoRead(c) \/ EchoReadPart(c) PROVE TypeOK'
  <2>1. PICK n \in 1..Len(toServer[c]) : \E piece, left :
          /\ ReadPiece(c, piece, left)
          /\ \/ split' = split /\ CutBehind(toServer[c], n, piece, left)
             \/ split' = split \cup {c} /\ CutInside(toServer[c], n, piece, left)
    BY <1>1, Reads
  <2>8. PICK piece, left :
          /\ ReadPiece(c, piece, left)
          /\ \/ split' = split /\ CutBehind(toServer[c], n, piece, left)
             \/ split' = split \cup {c} /\ CutInside(toServer[c], n, piece, left)
    BY <2>1
  <2>2. piece \in Seq(Request) /\ Len(piece) = n /\ left \in Seq(Request) /\ n # 0
    BY <2>8, CutBehindIs, CutInsideIs
  <2>3. piece # <<>>
    BY <2>2
  <2>4. [client |-> c, reqs |-> piece] \in Work
    BY <2>2, <2>3 DEF Work
  <2>5. pWorkList' \in Seq(Work)
    BY <2>8, <2>4 DEF ReadPiece, AddWork
  <2>6. split' \subseteq Clients
    BY <2>8
  <2>7. UNCHANGED <<toClient, clientVars, bIsRunning, spc, loopStop, dataVars, handlerVars>>
        /\ lpc' = "signal" /\ process' \in {process, "crashed"}
        /\ toServer' = [toServer EXCEPT ![c] = left]
    BY <2>8 DEF ReadPiece
  <2>9. toServer' \in [Clients -> Seq(Request)]
    BY <2>2, <2>7
  <2> QED BY <2>5, <2>6, <2>7, <2>9
<1>2. CASE SignalHandler
  BY <1>2 DEF SignalHandler, Working
<1>3. CASE MainReturns
  BY <1>3 DEF MainReturns
<1> QED BY <1>1, <1>2, <1>3 DEF Loop

LEMMA HandlerTypes ==
  ASSUME TypeOK, NEW h \in Handlers, HandlerNext(h) \/ HandlerMay(h) PROVE TypeOK'
<1> USE DEF TypeOK, HandlerStep, clientVars, loopVars, tableVars, Working
<1>1. CASE HandlerExit(h) BY <1>1 DEF HandlerExit
<1>2. CASE HandlerWait(h) BY <1>2 DEF HandlerWait
<1>3. CASE SpuriousWakeup(h) BY <1>3 DEF SpuriousWakeup
<1>4. CASE GetWork(h)
  <2>1. Head(pWorkList) \in Work /\ Tail(pWorkList) \in Seq(Work)
    BY <1>4 DEF GetWork
  <2>2. Head(pWorkList) # NULL
    BY <2>1, NullAssumption
  <2> QED BY <1>4, <2>1, <2>2 DEF GetWork
<1>5. CASE MsgHandler(h)
  <2>1. hwork[h] \in Work /\ hwork[h].reqs[1] \in Request
    BY <1>5 DEF MsgHandler, ParsesRequest, Work
  <2> DEFINE request == hwork[h].reqs[1]
  <2>4. PICK r : reply' = [reply EXCEPT ![h] = r] /\ r \in Reply
    <3>1. request.id \in Ids /\ request.key \in Keys
      BY <2>1 DEF Request
    <3>2. \A nRet \in {0, 1} : PutReply(nRet, request.id) \in Reply
      BY <3>1 DEF PutReply, Reply, Parts
    <3>3. GetReply(request.key \in store, request.id) \in Reply
      BY <3>1 DEF GetReply, Reply, Parts
    <3> QED BY <1>5, <3>2, <3>3 DEF MsgHandler, PutRequestHandler, GetRequestHandler
  <2>2. reply' \in [Handlers -> Reply \cup {NULL}] /\ reply'[h] # NULL
    BY <2>4, NullAssumption
  <2>3. store' \subseteq Keys /\ store \subseteq store'
    BY <1>5, <2>1 DEF MsgHandler, PutRequestHandler, GetRequestHandler, Request
  <2>5. head' \in {"NONE", "UNOPEN", "READ", "WRITE"}
    BY <1>5 DEF MsgHandler, PutRequestHandler, GetRequestHandler
  <2> QED BY <1>5, <2>2, <2>3, <2>4, <2>5 DEF MsgHandler
<1>6. CASE MsgHandlerAssertFails(h) BY <1>6 DEF MsgHandlerAssertFails
<1>7. CASE SendReply(h)
  <2>1. hwork[h] \in Work /\ hwork[h].client \in Clients /\ reply[h] \in Reply
    BY <1>7 DEF SendReply, Work
  <2> QED BY <1>7, <2>1 DEF SendReply
<1>8. CASE SendReplyForever(h) BY <1>8 DEF SendReplyForever
<1>9. CASE PutForever(h) BY <1>9 DEF PutForever
<1>10. CASE MsgHandlerDefault(h)
  <2>1. hwork[h] \in Work /\ hwork[h].reqs[1] \in Request
    BY <1>10 DEF MsgHandlerDefault, Work
  <2>2. KittyReply(hwork[h].reqs[1]) \in Reply
    BY <2>1 DEF KittyReply, Reply, Request
  <2>3. reply' \in [Handlers -> Reply \cup {NULL}] /\ reply'[h] # NULL
    BY <1>10, <2>2, NullAssumption DEF MsgHandlerDefault
  <2> QED BY <1>10, <2>3 DEF MsgHandlerDefault
<1>11. CASE SendBlocks(h) BY <1>11 DEF SendBlocks
<1>12. CASE SelectReturns(h) BY <1>12 DEF SelectReturns
<1> QED BY <1>1, <1>2, <1>3, <1>4, <1>5, <1>6, <1>7, <1>8, <1>9, <1>10, <1>11, <1>12
        DEF HandlerNext, HandlerMay

LEMMA SignalTypes ==
  ASSUME TypeOK, StopLoop \/ Signal PROVE TypeOK'
<1> USE DEF TypeOK, SignalStep, clientVars, tableVars, Working
<1>1. CASE StopLoop BY <1>1 DEF StopLoop
<1>2. CASE StopHandler BY <1>2 DEF StopHandler
<1>3. CASE DeleteLoop BY <1>3 DEF DeleteLoop
<1>4. CASE Broadcast BY <1>4 DEF Broadcast
<1>5. CASE JoinHandlers BY <1>5 DEF JoinHandlers
<1>6. CASE DeleteWorkList
  <2>1. pWorkList' \in Seq(Work)
    BY <1>6 DEF DeleteWorkList
  <2> QED BY <1>6, <2>1 DEF DeleteWorkList
<1>7. CASE Flush BY <1>7 DEF Flush
<1>8. CASE Close BY <1>8 DEF Close
<1>9. CASE Exit BY <1>9 DEF Exit
<1> QED BY <1>1, <1>2, <1>3, <1>4, <1>5, <1>6, <1>7, <1>8, <1>9 DEF Signal

LEMMA NextTypes == TypeOK /\ [Next]_vars => TypeOK'
<1> SUFFICES ASSUME TypeOK, [Next]_vars PROVE TypeOK'
  OBVIOUS
<1>1. ASSUME NEW c \in Clients, ClientNext(c) PROVE TypeOK'
  BY <1>1, SendTypes, ReturnTypes DEF ClientNext
<1>2. CASE UNCHANGED vars
  BY <1>2 DEF vars, clientVars, loopVars, handlerVars, dataVars, tableVars, TypeOK
<1> QED BY <1>1, <1>2, LoopTypes, HandlerTypes, SignalTypes DEF Next, Stopped

\* Every variable keeps its type in every behaviour of the server and its
\* clients; a handler has work while it works and a reply while it sends.
THEOREM TypeCorrect == Spec => []TypeOK
<1> QED BY InitTypes, NextTypes, PTL DEF Spec


-----------------------------------------------------------------------------
(* Steps and the messages of a client *)

\* What the step does not touch of client c: it may drop messages of c from the
\* queue or the hands of a handler, and shift the queue by d.
Undisturbed(c, d) ==
  /\ cpc'[c] = cpc[c] /\ asked'[c] = asked[c] /\ answer'[c] = answer[c]
  /\ toServer'[c] = toServer[c] /\ toClient'[c] = toClient[c] /\ store \subseteq store'
  /\ \A h \in Handlers : InWork(c, h)' =>
       /\ InWork(c, h)
       /\ (hpc'[h] = "handling") <=> (hpc[h] = "handling")
       /\ hwork'[h] = hwork[h] /\ reply'[h] = reply[h]
  /\ \A i \in Nat : Queued(c, i)' => Queued(c, i + d) /\ pWorkList'[i] = pWorkList[i + d]

LEMMA ElsewhereServed ==
  ASSUME NEW c \in Clients, Served(c), NEW d \in {0, 1}, Undisturbed(c, d)
  PROVE Served(c)'
<1> USE DEF Served, Answers, AtServer, AtClient
<1>0. /\ cpc'[c] = cpc[c] /\ asked'[c] = asked[c] /\ answer'[c] = answer[c]
      /\ toServer'[c] = toServer[c] /\ toClient'[c] = toClient[c] /\ store \subseteq store'
      /\ \A h \in Handlers : InWork(c, h)' =>
           /\ InWork(c, h)
           /\ (hpc'[h] = "handling") <=> (hpc[h] = "handling")
           /\ hwork'[h] = hwork[h] /\ reply'[h] = reply[h]
      /\ \A i \in Nat : Queued(c, i)' => Queued(c, i + d) /\ pWorkList'[i] = pWorkList[i + d]
  BY DEF Undisturbed
<1>1. OneAtServer(c)'
  <2>1. \A i \in Nat : i + d \in Nat
    OBVIOUS
  <2> QED BY <1>0, <2>1 DEF OneAtServer
<1>2. OneQueued(c)'
  <2>1. SUFFICES ASSUME NEW i \in Nat, Queued(c, i)'
                 PROVE /\ pWorkList'[i].reqs = <<asked'[c]>>
                       /\ ~AtClient(c)'
                       /\ \A h \in Handlers : ~InWork(c, h)'
                       /\ \A j \in Nat : Queued(c, j)' => j = i
    BY DEF OneQueued
  <2>2. i + d \in Nat /\ \A j \in Nat : j + d \in Nat /\ (j + d = i + d => j = i)
    OBVIOUS
  <2>3. Queued(c, i + d) /\ pWorkList'[i] = pWorkList[i + d]
    BY <1>0, <2>1
  <2> QED BY <1>0, <2>2, <2>3 DEF OneQueued
<1>3. OneInWork(c)'
  BY <1>0 DEF OneInWork
<1>4. OneAtClient(c)'
  BY <1>0 DEF OneAtClient
<1>5. NoneOutsideCalls(c)'
  <2>1. \A i \in Nat : i + d \in Nat
    OBVIOUS
  <2> QED BY <1>0, <2>1 DEF NoneOutsideCalls
<1>6. TookAnswer(c)'
  BY <1>0 DEF TookAnswer
<1> QED BY <1>1, <1>2, <1>3, <1>4, <1>5, <1>6

LEMMA ElsewhereLost ==
  ASSUME NEW c \in Clients, Lost(c), NEW d \in {0, 1}, Undisturbed(c, d)
  PROVE Lost(c)'
<1>1. CASE cpc[c] = "aborted"
  BY <1>1 DEF Lost, Undisturbed
<1>2. CASE cpc[c] \in {"put", "get"} /\ OnlyParts(c)
  <2>1. \A i \in Nat : i + d \in Nat
    OBVIOUS
  <2>2. OnlyParts(c)'
    BY <1>2, <2>1 DEF OnlyParts, Undisturbed
  <2> QED BY <1>2, <2>2 DEF Lost, Undisturbed
<1> QED BY <1>1, <1>2 DEF Lost

\* A client that never timed out, as the messages it sent and gets are.
Treated(c) == IF c \in split THEN Lost(c) ELSE Served(c)

LEMMA ElsewhereTreated ==
  ASSUME NEW c \in Clients, Treated(c), NEW d \in {0, 1}, Undisturbed(c, d),
         c \in split' <=> c \in split
  PROVE Treated(c)'
BY ElsewhereServed, ElsewhereLost DEF Treated

\* A call starts: the request is the only message.
LEMMA SendTreated ==
  ASSUME TypeOK, NEW c \in Clients, Treated(c), Put(c) \/ Get(c) PROVE Treated(c)'
<1>1. PICK request \in Request :
        /\ SendRequest(c, request) /\ cpc' = [cpc EXCEPT ![c] = request.type]
        /\ request.part = "whole"
  BY Sends
<1>5. /\ cpc[c] = "idle"
      /\ UNCHANGED <<split, process, loopVars, bIsRunning, pWorkList, handlerVars, spc, dataVars>>
  BY Sends
<1>7. c \notin split /\ Served(c)
  BY <1>5 DEF Treated, Lost
<1>6. toServer[c] = <<>> /\ toClient[c] = <<>>
  BY <1>5, <1>7 DEF Served, NoneOutsideCalls, AtServer, AtClient
<1>2. /\ toServer'[c] = <<request>> /\ asked'[c] = request
      /\ toClient'[c] = <<>> /\ cpc'[c] = request.type
  BY <1>1, <1>6 DEF SendRequest, TypeOK
<1>3. request.type \in {"put", "get"}
  BY DEF Request
<1>4. (\A h \in Handlers : ~InWork(c, h)') /\ \A i \in Nat : ~Queued(c, i)'
  BY <1>5, <1>7 DEF Served, NoneOutsideCalls, InWork, Queued, handlerVars
<1>8. Served(c)'
  BY <1>1, <1>2, <1>3, <1>4 DEF Served, OneAtServer, OneQueued, OneInWork, OneAtClient,
     NoneOutsideCalls, TookAnswer, AtServer, AtClient
<1> QED BY <1>5, <1>7, <1>8 DEF Treated

\* How a call returns that found some reply.
LEMMA ReturnCases ==
  ASSUME TypeOK, NEW c \in Clients \ late', ClientReturn(c)
  PROVE  \/ ReceivePart(c) /\ cpc'[c] = "aborted"
         \/ \E n \in 1..Len(toClient[c]) :
              /\ Receive(c, n)
              /\ \/ cpc[c] = "put" /\ cpc'[c] = "idle" /\ ParsesPutReply(Received(c, n))
                 \/ cpc[c] = "put" /\ cpc'[c] = "aborted" /\ ~ParsesPutReply(Received(c, n))
                 \/ cpc[c] = "get" /\ cpc'[c] = "idle" /\ ParsesGetReply(Received(c, n))
                 \/ cpc[c] = "get" /\ cpc'[c] = "aborted" /\ ~ParsesGetReply(Received(c, n))
<1>1. ASSUME NEW n \in 0..Len(toClient[c]), Receive(c, n) PROVE n \in 1..Len(toClient[c])
  <2>1. n # 0
    BY <1>1 DEF Receive
  <2>2. Len(toClient[c]) \in Nat
    BY DEF TypeOK
  <2> QED BY <2>1, <2>2
<1>7. ASSUME NEW n \in 1..Len(toClient[c]) PROVE n \in 0..Len(toClient[c])
  OBVIOUS
<1>2. CASE PutReturn(c)
  BY <1>1, <1>2 DEF PutReturn, ClientStep, TypeOK, Receive
<1>3. CASE PutAssertFails(c)
  BY <1>3 DEF PutAssertFails, ClientStep, TypeOK
<1>4. CASE GetReturn(c)
  BY <1>4 DEF GetReturn, ClientStep, TypeOK
<1>5. CASE GetAborts(c)
  BY <1>1, <1>5 DEF GetAborts, ClientStep, TypeOK
<1>6. CASE ReceivePart(c)
  BY <1>6 DEF ReceivePart, ClientStep, TypeOK
<1> QED BY <1>2, <1>3, <1>4, <1>5, <1>6 DEF ClientReturn

\* A call returns with the answer, or fails on a get that found nothing.
LEMMA ReturnServed ==
  ASSUME TypeOK, NEW c \in Clients, Served(c), ClientReturn(c),
         NEW n \in 1..Len(toClient[c]), Receive(c, n),
         \/ cpc[c] = "put" /\ cpc'[c] = "idle" /\ ParsesPutReply(Received(c, n))
         \/ cpc[c] = "put" /\ cpc'[c] = "aborted" /\ ~ParsesPutReply(Received(c, n))
         \/ cpc[c] = "get" /\ cpc'[c] = "idle" /\ ParsesGetReply(Received(c, n))
         \/ cpc[c] = "get" /\ cpc'[c] = "aborted" /\ ~ParsesGetReply(Received(c, n))
  PROVE Served(c)'
<1>1. /\ UNCHANGED <<process, loopVars, bIsRunning, pWorkList, handlerVars, spc, dataVars>>
      /\ cpc[c] \in {"put", "get"}
  BY Returns
<1>2. toClient[c] # <<>>
  OBVIOUS
<1>3. /\ Len(toClient[c]) = 1 /\ Answers(toClient[c][1], c)
      /\ ~AtServer(c) /\ (\A h \in Handlers : ~InWork(c, h))
      /\ \A i \in Nat : ~Queued(c, i)
      /\ asked[c].type = cpc[c]
  BY <1>1, <1>2 DEF Served, OneAtServer, OneQueued, OneInWork, OneAtClient, AtClient,
                    NoneOutsideCalls
<1>8. n = 1 /\ toClient[c] \in Seq(Reply)
  BY <1>3 DEF TypeOK
<1>9. /\ SubSeq(toClient[c], n + 1, Len(toClient[c])) = <<>>
      /\ Len(Received(c, n)) = 1 /\ Received(c, n)[1] = toClient[c][1]
  BY <1>3, <1>8 DEF Received
<1>4. /\ toClient'[c] = <<>> /\ toServer'[c] = <<>> /\ answer'[c] = toClient[c][1]
      /\ asked' = asked
  BY <1>8, <1>3, <1>9 DEF Receive, TypeOK, AtServer
<1>5. \/ cpc'[c] = "idle"
      \/ cpc'[c] = "aborted" /\ cpc[c] = "get" /\ ~toClient[c][1].found
  BY <1>3, <1>9 DEF ParsesPutReply, ParsesGetReply, Answers
<1>6. (\A h \in Handlers : ~InWork(c, h)') /\ \A i \in Nat : ~Queued(c, i)'
  BY <1>1, <1>3 DEF InWork, Queued, handlerVars
<1>7. TookAnswer(c)'
  BY <1>1, <1>3, <1>4, <1>5 DEF TookAnswer, Answers, dataVars, tableVars
<1> QED BY <1>4, <1>5, <1>6, <1>7 DEF Served, OneAtServer, OneQueued, OneInWork, OneAtClient,
           NoneOutsideCalls, AtServer, AtClient

LEMMA ReturnTreated ==
  ASSUME TypeOK, NEW c \in Clients \ late', Treated(c), ClientReturn(c) PROVE Treated(c)'
<1>1. CASE ReceivePart(c) /\ cpc'[c] = "aborted"
  BY <1>1 DEF ReceivePart, Treated, Lost
<1>2. ASSUME NEW n \in 1..Len(toClient[c]), Receive(c, n),
             \/ cpc[c] = "put" /\ cpc'[c] = "idle" /\ ParsesPutReply(Received(c, n))
             \/ cpc[c] = "put" /\ cpc'[c] = "aborted" /\ ~ParsesPutReply(Received(c, n))
             \/ cpc[c] = "get" /\ cpc'[c] = "idle" /\ ParsesGetReply(Received(c, n))
             \/ cpc[c] = "get" /\ cpc'[c] = "aborted" /\ ~ParsesGetReply(Received(c, n))
      PROVE  Treated(c)'
  <2>1. split' = split
    BY <1>2 DEF Receive
  <2>2. CASE c \notin split
    BY <1>2, <2>1, <2>2, ReturnServed DEF Treated
  <2>3. CASE c \in split
    <3>1. OnlyParts(c)
      BY <1>2, <2>3 DEF Treated, Lost
    <3>2. toClient[c] \in Seq(Reply) /\ 1 \in 1..Len(toClient[c])
      BY DEF TypeOK
    <3>3. toClient[c][1].type = "kitty"
      BY <3>1, <3>2 DEF OnlyParts
    <3>4. Received(c, n)[1] = toClient[c][1]
      BY <3>2 DEF Received
    <3>5. cpc'[c] = "aborted"
      BY <1>2, <3>3, <3>4 DEF ParsesPutReply, ParsesGetReply
    <3> QED BY <2>1, <2>3, <3>5 DEF Treated, Lost
  <2> QED BY <2>2, <2>3
<1> QED BY <1>1, <1>2, ReturnCases

LEMMA ConnectionTreated ==
  ASSUME TypeOK, NEW c \in Clients, Treated(c), Connect(c) \/ DeleteClient(c)
  PROVE Treated(c)'
<1>1. /\ cpc[c] \in {"new", "idle"}
      /\ (cpc[c] = "new" /\ cpc'[c] = "idle") \/ cpc'[c] = "closed"
      /\ UNCHANGED <<pWorkList, handlerVars, store, toServer, toClient, asked, answer, split>>
  BY DEF Connect, DeleteClient, ClientStep, TypeOK, dataVars, tableVars
<1>4. c \notin split /\ Served(c)
  BY <1>1 DEF Treated, Lost
<1>2. \A h \in Handlers : ~InWork(c, h)'
  BY <1>1, <1>4 DEF Served, NoneOutsideCalls, InWork, handlerVars
<1>3. \A i \in Nat : ~Queued(c, i)'
  BY <1>1, <1>4 DEF Served, NoneOutsideCalls, Queued
<1>5. Served(c)'
  BY <1>1, <1>2, <1>3, <1>4 DEF Served, OneAtServer, OneQueued, OneInWork, OneAtClient,
     NoneOutsideCalls, TookAnswer, AtServer, AtClient
<1> QED BY <1>1, <1>4, <1>5 DEF Treated

LEMMA OneElement ==
  ASSUME NEW S, NEW s \in Seq(S)
  PROVE  (Len(s) = 1 => s = <<s[1]>>) /\ (Len(s) = 0 => s = <<>>)
  OBVIOUS

\* The loop queues what it read from one client, which may be a part of its
\* message.
LEMMA ReadTreated ==
  ASSUME TypeOK, NEW c \in Clients, Treated(c), NEW b \in Clients,
         EchoRead(b) \/ EchoReadPart(b)
  PROVE  Treated(c)'
<1>11. PICK n \in 1..Len(toServer[b]) : \E piece, left :
         /\ ReadPiece(b, piece, left)
         /\ \/ split' = split /\ CutBehind(toServer[b], n, piece, left)
            \/ split' = split \cup {b} /\ CutInside(toServer[b], n, piece, left)
  BY Reads
<1>12. PICK piece, left :
         /\ ReadPiece(b, piece, left)
         /\ \/ split' = split /\ CutBehind(toServer[b], n, piece, left)
            \/ split' = split \cup {b} /\ CutInside(toServer[b], n, piece, left)
  BY <1>11
<1>14. toServer[b] \in Seq(Request)
  BY DEF TypeOK
<1>15. PICK q : q = toServer[b]
  OBVIOUS
<1>16. q \in Seq(Request) /\ n \in 1..Len(q)
  BY <1>14, <1>15
<1>1. /\ toServer' = [toServer EXCEPT ![b] = left]
      /\ pWorkList' = Append(pWorkList, [client |-> b, reqs |-> piece])
      /\ UNCHANGED <<toClient, cpc, asked, answer, store, hpc, hwork, reply>>
  BY <1>12 DEF ReadPiece, LoopStep, AddWork, clientVars, dataVars, tableVars, handlerVars
<1>13. piece \in Seq(Request) /\ Len(piece) = n /\ left \in Seq(Request) /\ n \in Nat
  BY <1>12, <1>14, CutBehindIs, CutInsideIs
<1> DEFINE l == Len(pWorkList) + 1
<1>2. /\ l \in Nat /\ Len(pWorkList') = l
      /\ pWorkList'[l] = [client |-> b, reqs |-> piece]
      /\ \A i \in 1..Len(pWorkList) : pWorkList'[i] = pWorkList[i]
  BY <1>1 DEF TypeOK
<1> HIDE DEF l
<1>3. \A i \in Nat : Queued(c, i)' =>
        (Queued(c, i) /\ pWorkList'[i] = pWorkList[i]) \/ (i = l /\ b = c)
  BY <1>2 DEF Queued, l
<1>4. \A h \in Handlers : InWork(c, h)' <=> InWork(c, h)
  BY <1>1 DEF InWork
<1>5. CASE b # c
  <2>1. \A i \in Nat : Queued(c, i)' => Queued(c, i + 0) /\ pWorkList'[i] = pWorkList[i + 0]
    BY <1>3, <1>5
  <2>2. toServer'[c] = toServer[c]
    BY <1>1, <1>5 DEF TypeOK
  <2>3. Undisturbed(c, 0)
    BY <1>1, <1>4, <2>1, <2>2 DEF Undisturbed
  <2>4. c \in split' <=> c \in split
    BY <1>5, <1>12
  <2> QED BY <2>3, <2>4, ElsewhereTreated
<1>6. CASE b = c /\ c \notin split
  <2>1. /\ toServer[c] = <<asked[c]>> /\ ~AtClient(c)
        /\ (\A h \in Handlers : ~InWork(c, h)) /\ \A i \in Nat : ~Queued(c, i)
    BY <1>6 DEF Treated, Served, OneAtServer, AtServer
  <2>2. cpc[c] \in {"put", "get"}
    BY <1>6 DEF Treated, Served, NoneOutsideCalls, AtServer
  <2>3. n = 1 /\ Len(toServer[c]) = 1 /\ toServer[c][1] = asked[c]
    BY <1>6, <2>1
  <2>5. toServer'[c] = left
    BY <1>1, <1>6 DEF TypeOK
  <2>4. CASE split' = split /\ CutBehind(toServer[b], n, piece, left)
    <3>1. piece = <<asked[c]>> /\ left = <<>>
      <4>1. /\ Len(piece) = 1 /\ piece[1] = asked[c] /\ piece \in Seq(Request)
            /\ Len(left) = 0 /\ left \in Seq(Request)
        <5>1. CutBehind(q, n, piece, left)
          BY <1>6, <1>15, <2>4
        <5>2. /\ piece \in Seq(Request) /\ Len(piece) = n
              /\ left \in Seq(Request) /\ Len(left) = Len(q) - n /\ piece[1] = q[1]
          BY ONLY <1>16, <5>1, CutBehindIs
        <5>3. n = 1 /\ Len(q) = 1 /\ q[1] = asked[c]
          BY <1>6, <1>15, <2>3
        <5> QED BY ONLY <5>2, <5>3
      <4> QED BY <4>1, OneElement
    <3>4. OneQueued(c)'
      BY <1>1, <1>2, <1>3, <1>4, <1>6, <2>1, <3>1 DEF OneQueued, AtClient
    <3>5. Served(c)'
      BY <1>1, <1>4, <1>6, <2>1, <2>2, <2>5, <3>1, <3>4 DEF Treated, Served, OneAtServer,
         OneInWork, OneAtClient, NoneOutsideCalls, TookAnswer, AtServer, AtClient
    <3> QED BY <1>6, <2>4, <3>5 DEF Treated
  <2>6. CASE split' = split \cup {b} /\ CutInside(toServer[b], n, piece, left)
    <3>1. piece[1].part = "first" /\ Len(left) = 1 /\ left[1].part = "rest"
      BY <1>6, <1>14, <2>3, <2>6, CutInsideIs
    <3>3. piece[1].part # "whole" /\ \A i \in 1..Len(left) : left[i].part # "whole"
      BY <3>1
    <3>4. OnlyParts(c)'
      BY <1>1, <1>2, <1>3, <1>4, <1>6, <2>1, <2>5, <3>3 DEF OnlyParts, AtClient
    <3> QED BY <1>1, <1>6, <2>2, <2>6, <3>4 DEF Treated, Lost
  <2> QED BY <1>12, <2>4, <2>6
<1>7. CASE b = c /\ c \in split
  <2>1. c \in split'
    BY <1>7, <1>12
  <2>2. CASE cpc[c] = "aborted"
    BY <1>1, <2>1, <2>2 DEF Treated, Lost
  <2>3. CASE cpc[c] \in {"put", "get"} /\ OnlyParts(c)
    <3>1. \A i \in 1..Len(toServer[c]) : toServer[c][i].part # "whole"
      BY <2>3 DEF OnlyParts
    <3>2. /\ \A i \in 1..n : piece[i].part # "whole"
          /\ \A i \in 1..Len(left) : left[i].part # "whole"
      <4>1. CutBehind(toServer[b], n, piece, left)
        <5>1. toServer[b][n].part # "whole"
          BY <1>7, <3>1
        <5>2. ASSUME CutInside(toServer[b], n, piece, left) PROVE toServer[b][n].part = "whole"
          BY <5>2 DEF CutInside
        <5> QED BY <1>12, <5>1, <5>2
      <4>2. /\ Len(left) = Len(toServer[b]) - n
            /\ EachOf(toServer[b], n, piece, left)
        <5>1. CutBehind(q, n, piece, left)
          BY <1>15, <4>1
        <5>2. Len(left) = Len(q) - n /\ EachOf(q, n, piece, left)
          BY ONLY <1>16, <5>1, CutBehindIs
        <5> QED BY <1>15, <5>2
      <4>3. /\ \A i \in 1..n : i \in 1..Len(toServer[b])
            /\ \A i \in 1..(Len(toServer[b]) - n) : n + i \in 1..Len(toServer[b])
        BY <1>14
      <4> QED BY <1>7, <3>1, <4>2, <4>3 DEF EachOf
    <3>3. OnlyParts(c)'
      <4>1. toServer'[c] = left
        BY <1>1, <1>7 DEF TypeOK
      <4>2. 1 \in 1..n
        BY <1>13
      <4>3. \A i \in Nat : Queued(c, i)' => pWorkList'[i].reqs[1].part # "whole"
        <5>1. piece[1].part # "whole" /\ pWorkList'[l].reqs = piece
          BY <1>2, <3>2, <4>2
        <5> QED BY <1>3, <2>3, <5>1 DEF OnlyParts
      <4>4. \A h \in Handlers : InWork(c, h)' =>
              /\ hpc'[h] = "handling" => hwork'[h].reqs[1].part # "whole"
              /\ hpc'[h] # "handling" => reply'[h].type = "kitty"
        BY <1>1, <1>4, <2>3 DEF OnlyParts
      <4>5. \A i \in 1..Len(toClient'[c]) : toClient'[c][i].type = "kitty"
        BY <1>1, <2>3 DEF OnlyParts
      <4> QED BY <3>2, <4>1, <4>3, <4>4, <4>5 DEF OnlyParts
    <3> QED BY <1>1, <2>1, <2>3, <3>3 DEF Treated, Lost
  <2> QED BY <1>7, <2>2, <2>3 DEF Treated, Lost
<1> QED BY <1>5, <1>6, <1>7

\* A handler takes the first piece of work; the rest moves up.
LEMMA GetWorkTreated ==
  ASSUME TypeOK, NEW c \in Clients, Treated(c), NEW h \in Handlers, GetWork(h)
  PROVE  Treated(c)'
<1>1. /\ hpc[h] = "top" /\ hpc' = [hpc EXCEPT ![h] = "handling"]
      /\ pWorkList # <<>> /\ pWorkList' = Tail(pWorkList)
      /\ hwork' = [hwork EXCEPT ![h] = Head(pWorkList)]
      /\ UNCHANGED <<toServer, toClient, cpc, asked, answer, store, reply, split>>
  BY DEF GetWork, HandlerStep, clientVars, tableVars
<1>2. /\ Len(pWorkList) \in Nat /\ Len(pWorkList) >= 1
      /\ Len(pWorkList') = Len(pWorkList) - 1 /\ Head(pWorkList) = pWorkList[1]
      /\ \A i \in 1..Len(pWorkList') : pWorkList'[i] = pWorkList[i + 1]
  BY <1>1 DEF TypeOK
<1>3. \A i \in Nat : Queued(c, i)' => Queued(c, i + 1) /\ pWorkList'[i] = pWorkList[i + 1]
  BY <1>2 DEF Queued
<1>4. /\ hpc'[h] = "handling" /\ hwork'[h] = pWorkList[1]
      /\ \A g \in Handlers \ {h} : hpc'[g] = hpc[g] /\ hwork'[g] = hwork[g]
  BY <1>1, <1>2 DEF TypeOK
<1>5. CASE pWorkList[1].client # c
  <2>1. Undisturbed(c, 1)
    BY <1>1, <1>3, <1>4, <1>5 DEF Undisturbed, InWork
  <2> QED BY <1>1, <2>1, ElsewhereTreated
<1>6. CASE pWorkList[1].client = c
  <2>1. Queued(c, 1)
    BY <1>2, <1>6 DEF Queued
  <2>7. CASE c \notin split
    <3>2. /\ pWorkList[1].reqs = <<asked[c]>> /\ ~AtClient(c) /\ ~AtServer(c)
          /\ \A g \in Handlers : ~InWork(c, g)
          /\ \A j \in Nat : Queued(c, j) => j = 1
      BY <2>1, <2>7 DEF Treated, Served, OneQueued, OneAtServer
    <3>3. cpc[c] \in {"put", "get"}
      BY <2>1, <2>7 DEF Treated, Served, NoneOutsideCalls
    <3>4. \A i \in Nat : ~Queued(c, i)'
      <4>1. SUFFICES ASSUME NEW i \in Nat, Queued(c, i)' PROVE FALSE
        OBVIOUS
      <4>2. i + 1 \in Nat /\ Queued(c, i + 1) /\ i >= 1
        BY <1>3, <4>1 DEF Queued
      <4> QED BY <4>2, <3>2
    <3>5. \A g \in Handlers : InWork(c, g)' => g = h
      BY <1>4, <3>2 DEF InWork
    <3>6. OneInWork(c)'
      BY <1>1, <1>4, <3>2, <3>5 DEF OneInWork, AtClient
    <3>7. Served(c)'
      BY <1>1, <2>7, <3>2, <3>3, <3>4, <3>6 DEF Treated, Served, OneAtServer, OneQueued,
         OneAtClient, NoneOutsideCalls, TookAnswer, AtServer, AtClient
    <3> QED BY <1>1, <2>7, <3>7 DEF Treated
  <2>8. CASE c \in split
    <3>1. OnlyParts(c) => OnlyParts(c)'
      <4> HAVE OnlyParts(c)
      <4>1. \A i \in Nat : i + 1 \in Nat
        OBVIOUS
      <4>2. pWorkList[1].reqs[1].part # "whole"
        BY <2>1 DEF OnlyParts
      <4>3. \A i \in Nat : Queued(c, i)' => pWorkList'[i].reqs[1].part # "whole"
        BY <1>3, <4>1 DEF OnlyParts
      <4>4. \A g \in Handlers : InWork(c, g)' =>
              /\ hpc'[g] = "handling" => hwork'[g].reqs[1].part # "whole"
              /\ hpc'[g] # "handling" => reply'[g].type = "kitty"
        BY <1>1, <1>4, <4>2 DEF OnlyParts, InWork
      <4> QED BY <1>1, <4>3, <4>4 DEF OnlyParts
    <3> QED BY <1>1, <2>8, <3>1 DEF Treated, Lost
  <2> QED BY <2>7, <2>8
<1> QED BY <1>5, <1>6

\* The reply the handler makes is the answer.
LEMMA MsgHandlerTreated ==
  ASSUME TypeOK, NEW c \in Clients, Treated(c), NEW h \in Handlers, MsgHandler(h)
  PROVE  Treated(c)'
<1> DEFINE request == hwork[h].reqs[1]
<1>1. /\ hpc[h] = "handling" /\ hpc' = [hpc EXCEPT ![h] = "sending"]
      /\ UNCHANGED <<toServer, toClient, cpc, asked, answer, pWorkList, hwork, split>>
      /\ hpc'[h] = "sending"
      /\ \A g \in Handlers \ {h} : hpc'[g] = hpc[g]
      /\ request.part = "whole"
  BY DEF MsgHandler, HandlerStep, clientVars, TypeOK, ParsesRequest
<1>2. /\ store \subseteq store'
      /\ \A g \in Handlers \ {h} : reply'[g] = reply[g]
      /\ reply'[h].id = request.id /\ reply'[h].type = request.type
      /\ (reply'[h].type = "put" /\ reply'[h].nRet = 0) => request.key \in store'
  BY DEF MsgHandler, PutRequestHandler, GetRequestHandler, PutReply, GetReply, TypeOK
<1>3. reply'[h] \in Reply
  <2>1. TypeOK'
    BY HandlerTypes DEF HandlerNext
  <2> QED BY <1>1, <2>1 DEF TypeOK
<1>4. CASE hwork[h].client # c
  <2>1. \A i \in Nat : Queued(c, i)' => Queued(c, i + 0) /\ pWorkList'[i] = pWorkList[i + 0]
    BY <1>1 DEF Queued
  <2>2. Undisturbed(c, 0)
    BY <1>1, <1>2, <1>4, <2>1 DEF Undisturbed, InWork
  <2> QED BY <1>1, <2>2, ElsewhereTreated
<1>5. CASE hwork[h].client = c /\ c \notin split
  <2>1. InWork(c, h)
    BY <1>1, <1>5 DEF InWork, Working
  <2>2. /\ hwork[h].reqs = <<asked[c]>> /\ ~AtClient(c) /\ ~AtServer(c)
        /\ \A g \in Handlers : InWork(c, g) => g = h
        /\ \A i \in Nat : ~Queued(c, i)
    BY <2>1, <1>1, <1>5 DEF Treated, Served, OneInWork, OneQueued, OneAtServer
  <2>3. cpc[c] \in {"put", "get"}
    BY <2>1, <1>5 DEF Treated, Served, NoneOutsideCalls
  <2>4. request = asked[c]
    BY <2>2
  <2>5. Answers(reply[h], c)'
    BY <1>1, <1>2, <2>4 DEF Answers
  <2>6. \A g \in Handlers : InWork(c, g)' => g = h
    BY <1>1, <2>2 DEF InWork
  <2>7. OneInWork(c)'
    BY <1>1, <1>3, <2>2, <2>5, <2>6 DEF OneInWork, AtClient
  <2>8. \A i \in Nat : ~Queued(c, i)'
    BY <1>1, <2>2 DEF Queued
  <2>9. TookAnswer(c)'
    BY <1>1, <2>3 DEF TookAnswer
  <2>10. Served(c)'
    BY <1>1, <1>5, <2>2, <2>3, <2>7, <2>8, <2>9 DEF Treated, Served, OneAtServer, OneQueued,
       OneAtClient, NoneOutsideCalls, AtServer, AtClient
  <2> QED BY <1>1, <1>5, <2>10 DEF Treated
<1>6. CASE hwork[h].client = c /\ c \in split
  <2>1. InWork(c, h)
    BY <1>1, <1>6 DEF InWork, Working
  <2>2. cpc[c] = "aborted"
    BY <1>1, <1>6, <2>1 DEF Treated, Lost, OnlyParts
  <2> QED BY <1>1, <1>6, <2>2 DEF Treated, Lost
<1> QED BY <1>4, <1>5, <1>6

\* Only a part of a message is greeted.
LEMMA DefaultTreated ==
  ASSUME TypeOK, NEW c \in Clients, Treated(c), NEW h \in Handlers, MsgHandlerDefault(h)
  PROVE  Treated(c)'
<1>1. /\ hpc[h] = "handling" /\ hpc' = [hpc EXCEPT ![h] = "sending"]
      /\ UNCHANGED <<toServer, toClient, cpc, asked, answer, pWorkList, hwork, split, store>>
      /\ hpc'[h] = "sending"
      /\ \A g \in Handlers \ {h} : hpc'[g] = hpc[g]
      /\ hwork[h].reqs[1].part # "whole"
  BY DEF MsgHandlerDefault, HandlerStep, clientVars, tableVars, TypeOK
<1>2. /\ \A g \in Handlers \ {h} : reply'[g] = reply[g]
      /\ reply'[h].type = "kitty"
  BY DEF MsgHandlerDefault, KittyReply, TypeOK
<1>7. InWork(c, h) \/ hwork[h].client # c
  BY <1>1 DEF InWork, Working
<1>4. CASE hwork[h].client # c
  <2>1. \A i \in Nat : Queued(c, i)' => Queued(c, i + 0) /\ pWorkList'[i] = pWorkList[i + 0]
    BY <1>1 DEF Queued
  <2>2. Undisturbed(c, 0)
    BY <1>1, <1>2, <1>4, <2>1 DEF Undisturbed, InWork
  <2> QED BY <1>1, <2>2, ElsewhereTreated
<1>5. CASE hwork[h].client = c /\ c \notin split
  <2>1. hwork[h].reqs = <<asked[c]>> /\ cpc[c] \in {"put", "get"}
    BY <1>1, <1>5, <1>7 DEF Treated, Served, OneInWork, NoneOutsideCalls
  <2>2. asked[c].part = "whole"
    BY <1>5, <2>1 DEF Treated, Served, NoneOutsideCalls
  <2>3. hwork[h].reqs[1] = asked[c]
    BY <2>1
  <2> QED BY <1>1, <2>2, <2>3
<1>6. CASE hwork[h].client = c /\ c \in split
  <2>1. OnlyParts(c) => OnlyParts(c)'
    BY <1>1, <1>2 DEF OnlyParts, InWork, Queued
  <2> QED BY <1>1, <1>6, <2>1 DEF Treated, Lost
<1> QED BY <1>4, <1>5, <1>6

\* The reply reaches its client, which waits for it.
LEMMA SendReplyTreated ==
  ASSUME TypeOK, NEW c \in Clients, Treated(c), NEW h \in Handlers, SendReply(h)
  PROVE  Treated(c)'
<1> DEFINE b == hwork[h].client
<1>1. /\ hpc[h] = "sending" /\ hpc' = [hpc EXCEPT ![h] = "top"]
      /\ toClient' = [toClient EXCEPT ![b] = IF Open(b) THEN Append(@, reply[h]) ELSE @]
      /\ hwork' = [hwork EXCEPT ![h] = NULL] /\ reply' = [reply EXCEPT ![h] = NULL]
      /\ UNCHANGED <<toServer, cpc, asked, answer, pWorkList, store, split>>
  BY DEF SendReply, HandlerStep, clientVars, tableVars
<1>2. b \in Clients /\ reply[h] \in Reply
  BY <1>1 DEF TypeOK, Work, Working
<1>3. \A g \in Handlers : InWork(c, g)' =>
        g # h /\ InWork(c, g) /\ hpc'[g] = hpc[g] /\ hwork'[g] = hwork[g] /\ reply'[g] = reply[g]
  BY <1>1 DEF InWork, TypeOK, Working
<1>4. \A i \in Nat : Queued(c, i)' <=> Queued(c, i)
  BY <1>1 DEF Queued
<1>8. b = c => InWork(c, h)
  BY <1>1 DEF InWork, Working
<1> HIDE DEF b
<1>5. CASE b # c
  <2>1. \A i \in Nat : Queued(c, i)' => Queued(c, i + 0) /\ pWorkList'[i] = pWorkList[i + 0]
    BY <1>1, <1>4
  <2>2. toClient'[c] = toClient[c]
    BY <1>1, <1>2, <1>5 DEF TypeOK
  <2>3. Undisturbed(c, 0)
    BY <1>1, <1>3, <2>1, <2>2 DEF Undisturbed
  <2> QED BY <1>1, <2>3, ElsewhereTreated
<1>6. CASE b = c /\ c \notin split
  <2>2. /\ Answers(reply[h], c) /\ ~AtClient(c) /\ ~AtServer(c)
        /\ \A g \in Handlers : InWork(c, g) => g = h
        /\ \A i \in Nat : ~Queued(c, i)
    BY <1>8, <1>1, <1>6 DEF Treated, Served, OneInWork, OneQueued, OneAtServer
  <2>3. cpc[c] \in {"put", "get"}
    BY <1>8, <1>6 DEF Treated, Served, NoneOutsideCalls
  <2>4. toClient'[c] = <<reply[h]>>
    <3>1. toClient[c] = <<>>
      BY <2>2 DEF AtClient
    <3> QED BY <1>1, <1>2, <1>6, <2>3, <3>1 DEF Open, TypeOK
  <2>5. \A g \in Handlers : ~InWork(c, g)'
    BY <1>3, <2>2
  <2>6. OneAtClient(c)'
    <3>1. Len(toClient'[c]) = 1 /\ toClient'[c][1] = reply[h]
      BY <2>4
    <3>2. Answers(toClient[c][1], c)'
      BY <1>1, <2>2, <3>1 DEF Answers
    <3> QED BY <3>1, <3>2 DEF OneAtClient
  <2>7. TookAnswer(c)'
    BY <1>1, <2>3 DEF TookAnswer
  <2>8. NoneOutsideCalls(c)' /\ ~AtServer(c)'
    BY <1>1, <1>6, <2>2, <2>3 DEF Treated, Served, NoneOutsideCalls, AtServer
  <2>9. Served(c)'
    BY <1>4, <2>2, <2>5, <2>6, <2>7, <2>8 DEF Served, OneAtServer, OneQueued, OneInWork
  <2> QED BY <1>1, <1>6, <2>9 DEF Treated
<1>7. CASE b = c /\ c \in split
  <2>1. ASSUME OnlyParts(c) PROVE OnlyParts(c)'
    <3>1. reply[h].type = "kitty" /\ \A i \in 1..Len(toClient[c]) : toClient[c][i].type = "kitty"
      BY <1>1, <1>7, <1>8, <2>1 DEF OnlyParts
    <3>2. \A i \in 1..Len(toClient'[c]) : toClient'[c][i].type = "kitty"
      <4>1. toClient'[c] = toClient[c] \/ toClient'[c] = Append(toClient[c], reply[h])
        BY <1>1, <1>7 DEF TypeOK
      <4>2. toClient[c] \in Seq(Reply)
        BY DEF TypeOK
      <4>3. CASE toClient'[c] = Append(toClient[c], reply[h])
        <5>1. PICK s, r : s = toClient[c] /\ r = reply[h]
          OBVIOUS
        <5>2. s \in Seq(Reply) /\ r \in Reply /\ r.type = "kitty"
              /\ \A i \in 1..Len(s) : s[i].type = "kitty"
          BY <1>2, <3>1, <4>2, <5>1
        <5>3. \A i \in 1..Len(Append(s, r)) : Append(s, r)[i].type = "kitty"
          BY ONLY <5>2
        <5> QED BY <4>3, <5>1, <5>3
      <4> QED BY <3>1, <4>1, <4>3
    <3>3. \A g \in Handlers : InWork(c, g)' =>
            /\ hpc'[g] = "handling" => hwork'[g].reqs[1].part # "whole"
            /\ hpc'[g] # "handling" => reply'[g].type = "kitty"
      BY <1>3, <2>1 DEF OnlyParts
    <3> QED BY <1>1, <1>4, <2>1, <3>2, <3>3 DEF OnlyParts
  <2> QED BY <1>1, <1>7, <2>1 DEF Treated, Lost
<1> QED BY <1>5, <1>6, <1>7

\* The other steps of the server at most drop work.
Quiet ==
  \/ SignalHandler \/ MainReturns \/ StopLoop \/ Signal \/ UNCHANGED vars
  \/ \E h \in Handlers :
       \/ HandlerExit(h) \/ HandlerWait(h) \/ SpuriousWakeup(h) \/ PutForever(h)
       \/ MsgHandlerAssertFails(h) \/ SendBlocks(h) \/ SelectReturns(h) \/ SendReplyForever(h)

LEMMA QuietSteps ==
  ASSUME TypeOK, Quiet
  PROVE  /\ UNCHANGED <<toServer, toClient, clientVars, split, hwork, reply, store>>
         /\ pWorkList' \in {pWorkList, <<>>}
         /\ \A g \in Handlers : hpc'[g] \in Working =>
              hpc[g] \in Working /\ ((hpc'[g] = "handling") <=> (hpc[g] = "handling"))
<1>1. CASE SignalHandler
  <2>1. hpc' = hpc \/ \E h \in Handlers : hpc' = [hpc EXCEPT ![h] = "top"]
    BY <1>1 DEF SignalHandler
  <2>2. \A g \in Handlers : hpc'[g] \in Working =>
              hpc[g] \in Working /\ ((hpc'[g] = "handling") <=> (hpc[g] = "handling"))
    BY <2>1 DEF TypeOK, Working
  <2> QED BY <1>1, <2>2 DEF SignalHandler, LoopStep, dataVars, tableVars
<1>2. CASE MainReturns
  BY <1>2 DEF MainReturns, LoopStep, dataVars, tableVars, handlerVars
<1>3. CASE StopLoop \/ Signal
  <2>1. /\ UNCHANGED <<toServer, toClient, clientVars, split, hwork, reply, store>>
        /\ pWorkList' \in {pWorkList, <<>>}
        /\ hpc' = hpc \/ hpc' = [h \in Handlers |-> IF hpc[h] = "waiting" THEN "top" ELSE hpc[h]]
    BY <1>3 DEF StopLoop, Signal, StopHandler, DeleteLoop, Broadcast, JoinHandlers,
           DeleteWorkList, Flush, Close, Exit, SignalStep, tableVars
  <2> QED BY <2>1 DEF Working
<1>4. CASE UNCHANGED vars
  BY <1>4 DEF vars, handlerVars, dataVars, tableVars
<1>5. ASSUME NEW h \in Handlers,
             \/ HandlerExit(h) \/ HandlerWait(h) \/ SpuriousWakeup(h) \/ PutForever(h)
             \/ MsgHandlerAssertFails(h) \/ SendBlocks(h) \/ SelectReturns(h)
             \/ SendReplyForever(h)
      PROVE  /\ UNCHANGED <<toServer, toClient, clientVars, split, hwork, reply, store>>
             /\ pWorkList' = pWorkList
             /\ \E to \in Places : hpc' = [hpc EXCEPT ![h] = to] /\
                  (to \in Working =>
                     hpc[h] \in Working /\ ((to = "handling") <=> (hpc[h] = "handling")))
  BY <1>5 DEF HandlerExit, HandlerWait, SpuriousWakeup, PutForever, MsgHandlerAssertFails,
     SendBlocks, SelectReturns, SendReplyForever, HandlerStep, tableVars, Places, Working
<1>6. ASSUME NEW h \in Handlers,
             \/ HandlerExit(h) \/ HandlerWait(h) \/ SpuriousWakeup(h) \/ PutForever(h)
             \/ MsgHandlerAssertFails(h) \/ SendBlocks(h) \/ SelectReturns(h)
             \/ SendReplyForever(h)
      PROVE  \A g \in Handlers : hpc'[g] \in Working =>
              hpc[g] \in Working /\ ((hpc'[g] = "handling") <=> (hpc[g] = "handling"))
  BY <1>5, <1>6 DEF TypeOK
<1> QED BY <1>1, <1>2, <1>3, <1>4, <1>5, <1>6 DEF Quiet

LEMMA QuietTreated ==
  ASSUME TypeOK, NEW c \in Clients, Treated(c), Quiet PROVE Treated(c)'
<1>1. /\ UNCHANGED <<toServer, toClient, clientVars, split, hwork, reply, store>>
      /\ pWorkList' \in {pWorkList, <<>>}
      /\ \A g \in Handlers : hpc'[g] \in Working =>
           hpc[g] \in Working /\ ((hpc'[g] = "handling") <=> (hpc[g] = "handling"))
  BY QuietSteps
<1>2. \A i \in Nat : Queued(c, i)' => Queued(c, i + 0) /\ pWorkList'[i] = pWorkList[i + 0]
  BY <1>1 DEF Queued
<1>3. Undisturbed(c, 0)
  BY <1>1, <1>2 DEF Undisturbed, InWork, clientVars
<1> QED BY <1>1, <1>3, ElsewhereTreated

\* A step of one client does not touch another.
LEMMA OtherClientTreated ==
  ASSUME TypeOK, NEW c \in Clients, Treated(c), NEW b \in Clients \ {c}, ClientNext(b)
  PROVE  Treated(c)'
<1>1. UNCHANGED <<pWorkList, hpc, hwork, reply, store>> /\ cpc'[c] = cpc[c]
  BY DEF ClientNext, Connect, Put, Get, ClientReturn, PutReturn, PutAssertFails, GetReturn,
         GetAborts, ReceivePart, DeleteClient, ClientStep, handlerVars, dataVars, tableVars, TypeOK
<1>2. /\ asked'[c] = asked[c] /\ answer'[c] = answer[c]
      /\ toServer'[c] = toServer[c] /\ toClient'[c] = toClient[c]
      /\ c \in split' <=> c \in split
  <2>1. \/ \E request : SendRequest(b, request)
        \/ ReceivePart(b)
        \/ \E n \in 0..Len(toClient[b]) : Receive(b, n)
        \/ UNCHANGED <<toServer, toClient, asked, answer, split>>
    BY Returns DEF ClientNext, Connect, Put, Get, DeleteClient
  <2> QED BY <2>1 DEF SendRequest, Receive, ReceivePart, TypeOK
<1>3. \A h \in Handlers : InWork(c, h)' => InWork(c, h)
  BY <1>1 DEF InWork
<1>4. \A i \in Nat : Queued(c, i)' => Queued(c, i + 0) /\ pWorkList'[i] = pWorkList[i + 0]
  BY <1>1 DEF Queued
<1>5. Undisturbed(c, 0)
  BY <1>1, <1>2, <1>3, <1>4 DEF Undisturbed
<1> QED BY <1>2, <1>5, ElsewhereTreated

\* Nobody is taken off the two lists of causes.
LEMMA CausesGrow == ASSUME TypeOK, Next PROVE late \subseteq late' /\ split \subseteq split'
<1>1. ASSUME NEW c \in Clients, ClientNext(c) PROVE late \subseteq late' /\ split \subseteq split'
  <2>1. \/ \E request : SendRequest(c, request)
        \/ ReceivePart(c)
        \/ \E n \in 0..Len(toClient[c]) : Receive(c, n)
        \/ UNCHANGED <<late, split>>
    BY <1>1, Returns DEF ClientNext, Connect, Put, Get, DeleteClient
  <2> QED BY <2>1 DEF SendRequest, Receive, ReceivePart
<1>2. ASSUME NEW c \in Clients, EchoRead(c) \/ EchoReadPart(c)
      PROVE  late \subseteq late' /\ split \subseteq split'
  BY <1>2 DEF EchoRead, EchoReadPart, ReadPiece, LoopStep, clientVars
<1>3. ASSUME NEW h \in Handlers,
             GetWork(h) \/ MsgHandler(h) \/ MsgHandlerDefault(h) \/ SendReply(h)
      PROVE  late \subseteq late' /\ split \subseteq split'
  BY <1>3 DEF GetWork, MsgHandler, MsgHandlerDefault, SendReply, HandlerStep, clientVars
<1>4. CASE Quiet
  BY <1>4, QuietSteps DEF clientVars
<1> QED BY <1>1, <1>2, <1>3, <1>4 DEF Next, Loop, HandlerNext, HandlerMay, Stopped, Quiet

LEMMA NextTreated ==
  ASSUME TypeOK, [Next]_vars, NEW c \in Clients \ late', Treated(c) PROVE Treated(c)'
<1>1. ASSUME NEW b \in Clients, ClientNext(b) PROVE Treated(c)'
  <2>1. CASE b = c
    BY <1>1, <2>1, SendTreated, ReturnTreated, ConnectionTreated DEF ClientNext
  <2>2. CASE b # c
    BY <1>1, <2>2, OtherClientTreated
  <2> QED BY <2>1, <2>2
<1>2. ASSUME NEW b \in Clients, EchoRead(b) \/ EchoReadPart(b) PROVE Treated(c)'
  BY <1>2, ReadTreated
<1>3. ASSUME NEW h \in Handlers,
             GetWork(h) \/ MsgHandler(h) \/ MsgHandlerDefault(h) \/ SendReply(h)
      PROVE  Treated(c)'
  BY <1>3, GetWorkTreated, MsgHandlerTreated, DefaultTreated, SendReplyTreated
<1>4. CASE Quiet
  BY <1>4, QuietTreated
<1> QED BY <1>1, <1>2, <1>3, <1>4 DEF Next, Loop, HandlerNext, HandlerMay, Stopped, Quiet

\* An assertion of the server fails only on several requests in one read, or on
\* a part of one.
LEMMA AbortNeedsCause ==
  ASSUME TypeOK, AllServed, Next, process # "aborted", process' = "aborted"
  PROVE  late' \cup split' # {}
<1>1. PICK h \in Handlers : MsgHandlerAssertFails(h)
  <2>1. ASSUME NEW c \in Clients, ClientNext(c) PROVE process' = process
    BY <2>1 DEF ClientNext, Connect, Put, Get, ClientReturn, PutReturn, PutAssertFails,
       GetReturn, GetAborts, ReceivePart, DeleteClient, ClientStep
  <2>2. ASSUME Loop \/ MainReturns \/ StopLoop \/ Signal \/ Stopped
        PROVE  process' \in {process, "crashed", "returned", "exited"}
    BY <2>2 DEF Loop, SignalHandler, EchoRead, EchoReadPart, ReadPiece, MainReturns, StopLoop,
       Signal, StopHandler, DeleteLoop, Broadcast, JoinHandlers, DeleteWorkList, Flush, Close,
       Exit, Stopped, vars
  <2>3. ASSUME NEW h \in Handlers, HandlerNext(h) \/ HandlerMay(h), ~MsgHandlerAssertFails(h)
        PROVE  process' = process
    BY <2>3 DEF HandlerNext, HandlerMay, HandlerExit, HandlerWait, GetWork, MsgHandler,
       PutForever, MsgHandlerDefault, SendReply, SendBlocks, SelectReturns, SpuriousWakeup,
       SendReplyForever
  <2> QED BY <2>1, <2>2, <2>3 DEF Next
<1>2. hpc[h] = "handling" /\ ~ParsesRequest(hwork[h].reqs) /\ UNCHANGED <<late, split>>
  BY <1>1 DEF MsgHandlerAssertFails, HandlerStep, clientVars
<1> DEFINE c == hwork[h].client
<1>3. c \in Clients
  BY <1>2 DEF TypeOK, Work, Working
<1>4. InWork(c, h)
  BY <1>2 DEF InWork, Working
<1> HIDE DEF c
<1>5. ASSUME c \notin late \cup split PROVE FALSE
  <2>1. hwork[h].reqs = <<asked[c]>> /\ asked[c].part = "whole"
    BY <1>2, <1>3, <1>4, <1>5 DEF AllServed, Served, OneInWork, NoneOutsideCalls
  <2> QED BY <2>1, <1>2 DEF ParsesRequest
<1> QED BY <1>2, <1>5

-----------------------------------------------------------------------------
(* The theorems *)

LEMMA InitInv == Init => Inv
<1> SUFFICES ASSUME Init PROVE Inv
  OBVIOUS
<1>1. TypeOK
  BY InitTypes
<1>2. ASSUME NEW c \in Clients PROVE Served(c)
  <2>1. /\ toServer[c] = <<>> /\ toClient[c] = <<>> /\ cpc[c] = "new" /\ answer[c] = NULL
        /\ Len(pWorkList) = 0 /\ \A h \in Handlers : hpc[h] = "top"
    BY DEF Init, InitConnectHandler, InitClient
  <2> QED BY <2>1 DEF Served, OneAtServer, OneQueued, OneInWork, OneAtClient, NoneOutsideCalls,
             TookAnswer, AtServer, Queued, InWork, AtClient, Working
<1>3. split = {} /\ process = "up"
  BY DEF Init, InitClient, InitServer
<1> QED BY <1>1, <1>2, <1>3 DEF Inv, AllServed, ServerNeedsCause

LEMMA NextInv == Inv /\ [Next]_vars => Inv'
<1> SUFFICES ASSUME Inv, [Next]_vars PROVE Inv'
  OBVIOUS
<1>1. TypeOK'
  BY NextTypes DEF Inv
<1>2. late \subseteq late' /\ split \subseteq split'
  BY CausesGrow DEF Inv, vars, clientVars
<1>3. AllServed'
  BY <1>2, NextTreated DEF Inv, AllServed, Treated
<1>4. ServerNeedsCause'
  <2>1. CASE Next
    BY <1>2, <2>1, AbortNeedsCause DEF Inv, ServerNeedsCause
  <2>2. CASE UNCHANGED vars
    BY <2>2 DEF Inv, ServerNeedsCause, vars, clientVars
  <2> QED BY <2>1, <2>2
<1> QED BY <1>1, <1>3, <1>4 DEF Inv

LEMMA InvAnswers == Inv => AnswersAreTrue /\ AssertsNeedCause
<1> SUFFICES ASSUME Inv PROVE AnswersAreTrue /\ AssertsNeedCause
  OBVIOUS
<1>1. ASSUME NEW c \in Clients \ late, c \notin split PROVE TookAnswer(c)
  BY <1>1 DEF Inv, AllServed, Served
<1>2. ASSUME NEW c \in Clients \ late, c \in split PROVE cpc[c] # "idle"
  BY <1>2 DEF Inv, AllServed, Lost
<1> QED BY <1>1, <1>2 DEF Inv, ServerNeedsCause, TookAnswer, Answers, AnswersAreTrue,
        AssertsNeedCause

\* Whatever the other clients do, when messages are late or come in parts and when the
\* server is told to stop: a client that never timed out holds the reply of its own last
\* request, and a put that returned 0 left its data in a table.
THEOREM AnswersStayTrue == Spec => []AnswersAreTrue
<1> QED BY InitInv, NextInv, InvAnswers, PTL DEF Spec

\* However reads cut what is sent, no parser of Message.c fails an assertion but for a
\* timeout before, a message that was read in parts, or a get that found nothing.
THEOREM AssertsHaveCause == Spec => []AssertsNeedCause
<1> QED BY InitInv, NextInv, InvAnswers, PTL DEF Spec

-----------------------------------------------------------------------------
(* The order of replies *)

(****************************************************************************)
(* The bytes of the messages of a client along their way: the reply it took *)
(* last (1), its receive buffer (2), with a handler thread (3), in the      *)
(* queue (4), on its way to the server (5).  What is further on comes       *)
(* first.  This needs one handler thread: two could finish in the other     *)
(* order.  A message n has two points, 2 * n in its first part and          *)
(* 2 * n + 1 in the rest, so that its parts are in order too.               *)
(****************************************************************************)
OneHandler == \A g, h \in Handlers : g = h

Covers(message, p) ==
  \/ message.part # "rest" /\ p = 2 * message.id
  \/ message.part # "first" /\ p = 2 * message.id + 1

Has(messages, p) == \E i \in 1..Len(messages) : Covers(messages[i], p)

Grows(messages) ==
  \A i, j \in 1..Len(messages) : \A p, q \in Nat :
    i < j /\ Covers(messages[i], p) /\ Covers(messages[j], q) => p < q

WorksOn(c, h, p) ==
  /\ InWork(c, h)
  /\ hpc[h] = "handling" => Has(hwork[h].reqs, p)
  /\ hpc[h] # "handling" => Covers(reply[h], p)

QueuedPoint(c, i, p) == Queued(c, i) /\ Has(pWorkList[i].reqs, p)

At(c, stage, p) ==
  \/ stage = 1 /\ answer[c] # NULL /\ Covers(answer[c], p)
  \/ stage = 2 /\ Has(toClient[c], p)
  \/ stage = 3 /\ \E h \in Handlers : WorksOn(c, h, p)
  \/ stage = 4 /\ \E i \in 1..Len(pWorkList) : QueuedPoint(c, i, p)
  \/ stage = 5 /\ Has(toServer[c], p)

StagesInOrder(c) ==
  \A s, t \in 1..5 : \A p, q \in Nat : s < t /\ At(c, s, p) /\ At(c, t, q) => p < q

QueueGrows(c) ==
  \A i, j \in 1..Len(pWorkList) : \A p, q \in Nat :
    i < j /\ QueuedPoint(c, i, p) /\ QueuedPoint(c, j, q) => p < q

PointsCalled(c) == \A s \in 1..5 : \A p \in Nat : At(c, s, p) => p <= 2 * calls[c] + 1

InOrder(c) ==
  /\ StagesInOrder(c) /\ PointsCalled(c)
  /\ QueueGrows(c) /\ Grows(toClient[c]) /\ Grows(toServer[c])

OrderInv == \A c \in Clients : InOrder(c)

\* A step moves points at most from one stage to the one before.
LEMMA MovesOn ==
  ASSUME NEW c \in Clients, InOrder(c), NEW k \in 1..4, calls'[c] = calls[c],
         \A s \in 1..5 : \A p \in Nat :
           At(c, s, p)' => At(c, s, p) \/ (s = k /\ At(c, k + 1, p)),
         \A p, q \in Nat : At(c, k, p)' /\ At(c, k + 1, q)' => p < q
  PROVE  StagesInOrder(c)' /\ PointsCalled(c)'
<1>1. StagesInOrder(c)'
  <2>1. SUFFICES ASSUME NEW s \in 1..5, NEW t \in 1..5, NEW p \in Nat, NEW q \in Nat,
                        s < t, At(c, s, p)', At(c, t, q)'
                 PROVE  p < q
    BY DEF StagesInOrder
  <2>2. CASE s = k /\ t = k + 1
    BY <2>1, <2>2
  <2>3. CASE ~(s = k /\ t = k + 1)
    <3>1. PICK u \in 1..5 : At(c, u, p) /\ (u = s \/ (s = k /\ u = k + 1))
      BY <2>1
    <3>2. PICK v \in 1..5 : At(c, v, q) /\ (v = t \/ (t = k /\ v = k + 1))
      BY <2>1
    <3>3. u < v
      BY <2>1, <2>3, <3>1, <3>2
    <3> QED BY <3>1, <3>2, <3>3 DEF InOrder, StagesInOrder
  <2> QED BY <2>2, <2>3
<1>2. PointsCalled(c)'
  <2>1. SUFFICES ASSUME NEW s \in 1..5, NEW p \in Nat, At(c, s, p)'
                 PROVE p <= 2 * calls'[c] + 1
    BY DEF PointsCalled
  <2>2. PICK u \in 1..5 : At(c, u, p)
    BY <2>1
  <2> QED BY <2>2 DEF InOrder, PointsCalled
<1> QED BY <1>1, <1>2

\* A step that adds nothing of c to the queue, and may shift it by one.
LEMMA QueueShifts ==
  ASSUME NEW c \in Clients, QueueGrows(c), NEW d \in {0, 1},
         Len(pWorkList) \in Nat, Len(pWorkList') \in Nat,
         \A i \in 1..Len(pWorkList') : \A p \in Nat :
           QueuedPoint(c, i, p)' => QueuedPoint(c, i + d, p)
  PROVE  QueueGrows(c)'
<1>1. SUFFICES ASSUME NEW i \in 1..Len(pWorkList'), NEW j \in 1..Len(pWorkList'),
                      NEW p \in Nat, NEW q \in Nat,
                      i < j, QueuedPoint(c, i, p)', QueuedPoint(c, j, q)'
               PROVE  p < q
  BY DEF QueueGrows
<1>2. QueuedPoint(c, i + d, p) /\ QueuedPoint(c, j + d, q) /\ i + d < j + d
  BY <1>1
<1>3. i + d \in 1..Len(pWorkList) /\ j + d \in 1..Len(pWorkList)
  BY <1>2 DEF QueuedPoint, Queued
<1> QED BY <1>2, <1>3 DEF QueueGrows

\* A step that leaves the queue as it is.
LEMMA QueueStays ==
  ASSUME TypeOK, NEW c \in Clients, QueueGrows(c), pWorkList' = pWorkList
  PROVE  /\ QueueGrows(c)'
         /\ \A i \in 1..Len(pWorkList') : \A p \in Nat :
              QueuedPoint(c, i, p)' => QueuedPoint(c, i, p)
<1>1. \A i \in 1..Len(pWorkList') : \A p \in Nat :
        QueuedPoint(c, i, p)' => QueuedPoint(c, i, p)
  BY DEF QueuedPoint, Queued, Has
<1>2. \A i \in 1..Len(pWorkList') : \A p \in Nat :
        QueuedPoint(c, i, p)' => QueuedPoint(c, i + 0, p)
  BY <1>1
<1>3. Len(pWorkList) \in Nat /\ Len(pWorkList') \in Nat
  BY DEF TypeOK
<1> QED BY <1>1, <1>2, <1>3, QueueShifts

LEMMA ElsewhereInOrder ==
  ASSUME TypeOK, NEW c \in Clients, InOrder(c), Len(pWorkList') \in Nat,
         answer'[c] = answer[c], toClient'[c] = toClient[c], toServer'[c] = toServer[c],
         calls'[c] = calls[c],
         \A h \in Handlers : \A p \in Nat : WorksOn(c, h, p)' => WorksOn(c, h, p),
         \A i \in 1..Len(pWorkList') : \A p \in Nat :
           QueuedPoint(c, i, p)' => QueuedPoint(c, i, p)
  PROVE  InOrder(c)'
<1>1. \A i \in 1..Len(pWorkList') : \A p \in Nat :
        QueuedPoint(c, i, p)' => QueuedPoint(c, i, p) /\ i \in 1..Len(pWorkList)
  BY DEF QueuedPoint, Queued
<1>2. \A s \in 1..5 : \A p \in Nat : At(c, s, p)' => At(c, s, p)
  <2>1. \A p \in Nat : /\ Has(toClient[c], p)' <=> Has(toClient[c], p)
                       /\ Has(toServer[c], p)' <=> Has(toServer[c], p)
    BY DEF Has
  <2> QED BY <1>1, <2>1 DEF At
<1>3. \A p, q \in Nat : At(c, 1, p)' /\ At(c, 1 + 1, q)' => p < q
  BY <1>2 DEF InOrder, StagesInOrder
<1>4. StagesInOrder(c)' /\ PointsCalled(c)'
  BY <1>2, <1>3, MovesOn
<1>5. QueueGrows(c)'
  <2>1. \A i \in 1..Len(pWorkList') : \A p \in Nat :
          QueuedPoint(c, i, p)' => QueuedPoint(c, i + 0, p)
    OBVIOUS
  <2>2. QueueGrows(c) /\ Len(pWorkList) \in Nat
    BY DEF InOrder, TypeOK
  <2> QED BY <2>1, <2>2, QueueShifts
<1>6. Grows(toClient[c])' /\ Grows(toServer[c])'
  BY DEF InOrder, Grows
<1> QED BY <1>4, <1>5, <1>6 DEF InOrder

\* What is appended comes behind all that is there.
LEMMA AppendGrows ==
  ASSUME NEW S, NEW messages \in Seq(S), NEW e \in S, Grows(messages),
         \A p, q \in Nat : Has(messages, p) /\ Covers(e, q) => p < q
  PROVE  /\ Grows(Append(messages, e))
         /\ \A p \in Nat : Has(Append(messages, e), p) => Has(messages, p) \/ Covers(e, p)
<1> DEFINE l == Len(messages)
           longer == Append(messages, e)
<1>1. /\ l \in Nat /\ Len(longer) = l + 1 /\ longer[l + 1] = e
      /\ \A i \in 1..l : longer[i] = messages[i]
      /\ \A i \in 1..(l + 1) : i \in 1..l \/ i = l + 1
  OBVIOUS
<1> HIDE DEF longer, l
<1>2. \A p \in Nat : Has(longer, p) => Has(messages, p) \/ Covers(e, p)
  BY <1>1 DEF Has, l
<1>3. ASSUME NEW i \in 1..Len(longer), NEW j \in 1..Len(longer), NEW p \in Nat, NEW q \in Nat,
             i < j, Covers(longer[i], p), Covers(longer[j], q)
      PROVE  p < q
  <2>1. i \in 1..l /\ Covers(messages[i], p)
    BY <1>1, <1>3
  <2>2. CASE j \in 1..l
    BY <1>1, <1>3, <2>1, <2>2 DEF Grows, l
  <2>3. CASE j = l + 1
    <3>1. Has(messages, p) /\ Covers(e, q)
      BY <1>1, <1>3, <2>1, <2>3 DEF Has, l
    <3> QED BY <3>1
  <2> QED BY <1>1, <1>3, <2>2, <2>3
<1>4. Grows(longer)
  BY <1>3 DEF Grows
<1> QED BY <1>2, <1>4 DEF longer

\* What is left behind the first n.
LEMMA BackGrows ==
  ASSUME NEW S, NEW messages \in Seq(S), NEW n \in 0..Len(messages), Grows(messages),
         NEW back, back = SubSeq(messages, n + 1, Len(messages))
  PROVE  /\ Grows(back)
         /\ \A p \in Nat : Has(back, p) => \E i \in 1..Len(messages) :
              n < i /\ Covers(messages[i], p)
<1>1. /\ Len(back) = Len(messages) - n
      /\ \A i \in 1..(Len(messages) - n) : back[i] = messages[n + i]
  BY LeftOver
<1>2. \A i \in 1..Len(back) : n + i \in 1..Len(messages) /\ n < n + i /\ back[i] = messages[n + i]
  BY <1>1
<1>3. \A i, j \in 1..Len(back) : i < j => n + i < n + j
  BY <1>1
<1> QED BY <1>2, <1>3 DEF Grows, Has

\* Whoever answers bytes further back comes later.
LEMMA PointsBefore ==
  ASSUME NEW r \in Reply, NEW s \in Reply, \A n \in Ids : n \in Nat,
         \A p, q \in Nat : Covers(r, p) /\ Covers(s, q) => p < q
  PROVE  Before(r, s)
<1>1. r.id \in Nat /\ s.id \in Nat /\ r.part \in Parts /\ s.part \in Parts
  BY DEF Reply
<1>2. PICK m, n : m = r.id /\ n = s.id
  OBVIOUS
<1>3. m \in Nat /\ n \in Nat /\ 2 * m \in Nat /\ 2 * m + 1 \in Nat /\ 2 * n \in Nat
      /\ 2 * n + 1 \in Nat
  BY <1>1, <1>2
<1>4. /\ r.part # "rest" => Covers(r, 2 * m)
      /\ r.part # "first" => Covers(r, 2 * m + 1)
      /\ s.part # "rest" => Covers(s, 2 * n)
      /\ s.part # "first" => Covers(s, 2 * n + 1)
  BY <1>2 DEF Covers
<1>5. /\ r.part # "rest" /\ s.part # "rest" => 2 * m < 2 * n
      /\ r.part # "first" /\ s.part # "rest" => 2 * m + 1 < 2 * n
      /\ r.part # "rest" /\ s.part # "first" => 2 * m < 2 * n + 1
      /\ r.part # "first" /\ s.part # "first" => 2 * m + 1 < 2 * n + 1
  BY <1>3, <1>4
<1>6. m < n \/ (m = n /\ r.part = "first" /\ s.part = "rest")
  BY <1>1, <1>3, <1>5 DEF Parts
<1> QED BY <1>2, <1>6 DEF Before

\* What a read takes comes before what it leaves, and both are of what was there.
Divided(messages, piece, left) ==
  /\ \A p \in Nat : Has(piece, p) \/ Has(left, p) => Has(messages, p)
  /\ \A p, q \in Nat : Has(piece, p) /\ Has(left, q) => p < q
  /\ Grows(left)

LEMMA CutGrows ==
  ASSUME NEW messages \in Seq(Request), NEW n \in 1..Len(messages), NEW piece, NEW left,
         \A m \in Ids : m \in Nat, Grows(messages),
         CutBehind(messages, n, piece, left) \/ CutInside(messages, n, piece, left)
  PROVE  Divided(messages, piece, left)
<1>1. n \in Nat /\ Len(messages) \in Nat
  OBVIOUS
<1>2. CASE CutBehind(messages, n, piece, left)
  <2>1. Len(piece) = n /\ Len(left) = Len(messages) - n /\ EachOf(messages, n, piece, left)
    BY <1>2, CutBehindIs
  <2>2. \A i \in 1..Len(piece) : i \in 1..Len(messages) /\ i <= n /\ piece[i] = messages[i]
    BY <1>1, <2>1 DEF EachOf
  <2>3. \A i \in 1..Len(left) :
          n + i \in 1..Len(messages) /\ n < n + i /\ left[i] = messages[n + i]
    BY <1>1, <2>1 DEF EachOf
  <2>4. \A i, j \in 1..Len(left) : i < j => n + i < n + j
    BY <1>1, <2>1
  <2>5. \A i \in 1..Len(piece), j \in 1..Len(left) : i < n + j
    BY <1>1, <2>1
  <2>6. Grows(left)
    BY <2>3, <2>4 DEF Grows
  <2>7. \A p \in Nat : Has(piece, p) \/ Has(left, p) => Has(messages, p)
    BY <2>2, <2>3 DEF Has
  <2>8. \A p, q \in Nat : Has(piece, p) /\ Has(left, q) => p < q
    BY <2>2, <2>3, <2>5 DEF Has, Grows
  <2> QED BY <2>6, <2>7, <2>8 DEF Divided
<1>3. CASE CutInside(messages, n, piece, left)
  <2>1. /\ messages[n].part = "whole" /\ Len(piece) = n /\ Len(left) = Len(messages) - n + 1
        /\ piece[n].part = "first" /\ piece[n].id = messages[n].id
        /\ left[1].part = "rest" /\ left[1].id = messages[n].id
        /\ EachOther(messages, n, piece, left)
    BY <1>3, CutInsideIs
  <2>9. messages[n].id \in Nat
    <3>1. messages[n] \in Request
      OBVIOUS
    <3> QED BY <3>1 DEF Request
  <2>2. ASSUME NEW i \in 1..Len(piece), NEW p \in Nat, Covers(piece[i], p)
        PROVE  i \in 1..Len(messages) /\ i <= n /\ Covers(messages[i], p)
               /\ (i = n => p = 2 * messages[n].id)
    <3>1. i \in 1..n
      BY <2>1
    <3>2. CASE i = n
      BY <1>1, <2>1, <2>2, <3>2 DEF Covers
    <3>3. CASE i # n
      <4>1. i \in 1..(n - 1) /\ i \in 1..Len(messages) /\ i <= n
        BY <1>1, <3>1, <3>3
      <4> QED BY <2>1, <2>2, <3>3, <4>1 DEF EachOther
    <3> QED BY <3>2, <3>3
  <2>3. ASSUME NEW j \in 1..Len(left), NEW q \in Nat, Covers(left[j], q)
        PROVE  n + j - 1 \in 1..Len(messages) /\ n <= n + j - 1 /\ Covers(messages[n + j - 1], q)
               /\ (n + j - 1 = n => q = 2 * messages[n].id + 1)
    <3>1. j \in 1..(Len(messages) - n + 1)
      BY <2>1
    <3>2. CASE j = 1
      <4>1. n + j - 1 = n
        BY <1>1, <3>2
      <4>2. Covers(messages[n], q) /\ q = 2 * messages[n].id + 1
        BY <2>1, <2>3, <3>2 DEF Covers
      <4> QED BY <1>1, <4>1, <4>2
    <3>3. CASE j # 1
      <4>1. j \in 2..(Len(messages) - n + 1) /\ n + j - 1 \in 1..Len(messages)
            /\ n <= n + j - 1 /\ n + j - 1 # n
        BY <1>1, <3>1, <3>3
      <4> QED BY <2>1, <2>3, <4>1 DEF EachOther
    <3> QED BY <3>2, <3>3
  <2>6. Grows(left)
    <3>1. SUFFICES ASSUME NEW i \in 1..Len(left), NEW j \in 1..Len(left), NEW p \in Nat,
                          NEW q \in Nat, i < j, Covers(left[i], p), Covers(left[j], q)
                   PROVE  p < q
      BY DEF Grows
    <3>2. /\ n + i - 1 \in 1..Len(messages) /\ Covers(messages[n + i - 1], p)
          /\ n + j - 1 \in 1..Len(messages) /\ Covers(messages[n + j - 1], q)
      BY <2>3, <3>1
    <3>3. n + i - 1 < n + j - 1
      BY <1>1, <2>1, <3>1
    <3> QED BY <3>2, <3>3 DEF Grows
  <2>7. \A p \in Nat : Has(piece, p) \/ Has(left, p) => Has(messages, p)
    BY <2>2, <2>3 DEF Has
  <2>8. ASSUME NEW p \in Nat, NEW q \in Nat, Has(piece, p), Has(left, q) PROVE p < q
    <3>1. PICK i \in 1..Len(piece) : Covers(piece[i], p)
      BY <2>8 DEF Has
    <3>2. PICK j \in 1..Len(left) : Covers(left[j], q)
      BY <2>8 DEF Has
    <3>3. /\ i \in 1..Len(messages) /\ i <= n /\ Covers(messages[i], p)
          /\ i = n => p = 2 * messages[n].id
      BY <2>2, <3>1
    <3>4. /\ n + j - 1 \in 1..Len(messages) /\ n <= n + j - 1 /\ Covers(messages[n + j - 1], q)
          /\ n + j - 1 = n => q = 2 * messages[n].id + 1
      BY <2>3, <3>2
    <3>5. i < n + j - 1 \/ (i = n /\ n + j - 1 = n)
      BY <1>1, <3>3, <3>4
    <3>6. CASE i < n + j - 1
      BY <3>3, <3>4, <3>6 DEF Grows
    <3>7. CASE i = n /\ n + j - 1 = n
      BY <2>9, <3>3, <3>4, <3>7
    <3> QED BY <3>5, <3>6, <3>7
  <2> QED BY <2>6, <2>7, <2>8 DEF Divided
<1> QED BY <1>2, <1>3

LEMMA IdsAreNumbers == \A n \in Ids : n \in Nat
BY CallsAssumption DEF Ids

\* A call gets the next number.
LEMMA SendInOrder ==
  ASSUME TypeOK, NEW c \in Clients, InOrder(c), Put(c) \/ Get(c) PROVE InOrder(c)'
<1>1. PICK request \in Request :
        SendRequest(c, request) /\ request.part = "whole" /\ request.id = calls[c] + 1
  BY Sends
<1>2. /\ UNCHANGED <<pWorkList, hpc, hwork, reply, toClient, answer>>
      /\ calls'[c] = calls[c] + 1 /\ calls[c] \in Nat
      /\ toServer'[c] = Append(toServer[c], request) /\ toServer[c] \in Seq(Request)
  <2>1. calls[c] \in Nat
    BY CallsAssumption DEF TypeOK, Ids
  <2>2. UNCHANGED <<pWorkList, hpc, hwork, reply>>
    BY Sends DEF handlerVars
  <2> QED BY <1>1, <2>1, <2>2 DEF SendRequest, TypeOK
<1>3. \A q \in Nat : Covers(request, q) => q > 2 * calls[c] + 1 /\ q <= 2 * calls'[c] + 1
  BY <1>1, <1>2 DEF Covers
<1>4. \A p \in Nat : Has(toServer[c], p) => p <= 2 * calls[c] + 1
  BY DEF InOrder, PointsCalled, At
<1>5. /\ Grows(toServer[c])'
      /\ \A p \in Nat : Has(toServer[c], p)' => Has(toServer[c], p) \/ Covers(request, p)
  <2>1. \A p, q \in Nat : Has(toServer[c], p) /\ Covers(request, q) => p < q
    BY <1>2, <1>3, <1>4
  <2>2. PICK s : s = toServer[c]
    OBVIOUS
  <2>3. Grows(s) /\ s \in Seq(Request) /\ \A p, q \in Nat : Has(s, p) /\ Covers(request, q) => p < q
    BY <1>2, <2>1, <2>2 DEF InOrder
  <2>4. /\ Grows(Append(s, request))
        /\ \A p \in Nat : Has(Append(s, request), p) => Has(s, p) \/ Covers(request, p)
    BY ONLY <2>3, AppendGrows
  <2>5. toServer'[c] = Append(s, request)
    BY <1>2, <2>2
  <2>6. PICK t : t = toServer'[c]
    OBVIOUS
  <2>7. Grows(t) /\ \A p \in Nat : Has(t, p) => Has(s, p) \/ Covers(request, p)
    BY <2>4, <2>5, <2>6
  <2> QED BY <2>2, <2>6, <2>7 DEF Grows, Has
<1>6. \A s \in 1..5 : \A p \in Nat : At(c, s, p)' => At(c, s, p) \/ (s = 5 /\ Covers(request, p))
  <2>1. \A p \in Nat : Has(toClient[c], p)' <=> Has(toClient[c], p)
    BY <1>2 DEF Has
  <2>2. \A h \in Handlers : \A p \in Nat : WorksOn(c, h, p)' <=> WorksOn(c, h, p)
    BY <1>2 DEF WorksOn, InWork, Has
  <2>3. \A i \in 1..Len(pWorkList) : \A p \in Nat : QueuedPoint(c, i, p)' <=> QueuedPoint(c, i, p)
    BY <1>2 DEF QueuedPoint, Queued, Has
  <2> QED BY <1>2, <1>5, <2>1, <2>2, <2>3 DEF At
<1>7. PointsCalled(c)'
  <2>1. SUFFICES ASSUME NEW s \in 1..5, NEW p \in Nat, At(c, s, p)'
                 PROVE p <= 2 * calls'[c] + 1
    BY DEF PointsCalled
  <2>2. CASE At(c, s, p)
    <3>1. p <= 2 * calls[c] + 1
      BY <2>2 DEF InOrder, PointsCalled
    <3> QED BY <1>2, <3>1
  <2> QED BY <1>3, <1>6, <2>1, <2>2
<1>8. StagesInOrder(c)'
  <2>1. SUFFICES ASSUME NEW s \in 1..5, NEW t \in 1..5, NEW p \in Nat, NEW q \in Nat,
                        s < t, At(c, s, p)', At(c, t, q)'
                 PROVE  p < q
    BY DEF StagesInOrder
  <2>2. At(c, s, p) /\ p <= 2 * calls[c] + 1
    BY <1>6, <2>1 DEF InOrder, PointsCalled
  <2>3. CASE At(c, t, q)
    BY <2>1, <2>2, <2>3 DEF InOrder, StagesInOrder
  <2>4. CASE Covers(request, q)
    BY <1>2, <1>3, <2>2, <2>4
  <2> QED BY <1>6, <2>1, <2>3, <2>4
<1>9. QueueGrows(c)' /\ Grows(toClient[c])'
  BY <1>2, QueueStays DEF InOrder, Grows
<1> QED BY <1>5, <1>7, <1>8, <1>9 DEF InOrder

\* What is taken for the answer is the oldest reply; the others taken with it
\* are thrown away.
LEMMA ReturnInOrder ==
  ASSUME TypeOK, NEW c \in Clients, InOrder(c), ClientReturn(c) PROVE InOrder(c)'
<1>1. UNCHANGED <<pWorkList, hpc, hwork, reply>>
  BY Returns DEF handlerVars
<1>2. /\ calls' = calls /\ toServer' = toServer
      /\ \/ /\ answer'[c] = answer[c]
            /\ toClient'[c] = <<>> \/ toClient'[c] = SubSeq(toClient[c], 0 + 1, Len(toClient[c]))
         \/ \E n \in 1..Len(toClient[c]) :
              /\ answer'[c] = toClient[c][1]
              /\ toClient'[c] = SubSeq(toClient[c], n + 1, Len(toClient[c]))
  <2>1. toClient[c] \in Seq(Reply) /\ Len(toClient[c]) \in Nat
    BY DEF TypeOK
  <2>2. CASE ReceivePart(c)
    BY <2>2 DEF ReceivePart, TypeOK
  <2>3. ASSUME NEW n \in 0..Len(toClient[c]), Receive(c, n)
        PROVE  /\ calls' = calls /\ toServer' = toServer
               /\ answer'[c] = IF n = 0 THEN answer[c] ELSE toClient[c][1]
               /\ toClient'[c] = SubSeq(toClient[c], n + 1, Len(toClient[c]))
    BY <2>3 DEF Receive, TypeOK
  <2>4. \A n \in 0..Len(toClient[c]) : n = 0 \/ n \in 1..Len(toClient[c])
    BY <2>1
  <2> QED BY <2>2, <2>3, <2>4, Returns
<1>3. toClient[c] \in Seq(Reply) /\ Len(toClient[c]) \in Nat /\ Grows(toClient[c])
  BY DEF TypeOK, InOrder
<1>4. /\ \A p \in Nat : Has(toClient[c], p)' => Has(toClient[c], p)
      /\ Grows(toClient[c])'
      /\ \A p, q \in Nat : At(c, 1, p)' /\ Has(toClient[c], q)' => p < q
      /\ \A p \in Nat : At(c, 1, p)' => At(c, 1, p) \/ At(c, 1 + 1, p)
  <2>1. PICK s, t : s = toClient[c] /\ t = toClient'[c]
    OBVIOUS
  <2>2. CASE t = <<>>
    BY <1>2, <1>3, <2>1, <2>2 DEF At, Has, Grows
  <2>5. s \in Seq(Reply) /\ Len(s) \in Nat /\ Grows(s) /\ 0 \in 0..Len(s)
    BY <1>3, <2>1
  <2>3. CASE answer'[c] = answer[c] /\ t = SubSeq(s, 0 + 1, Len(s))
    <3>1. Grows(t) /\ \A p \in Nat : Has(t, p) => \E i \in 1..Len(s) : 0 < i /\ Covers(s[i], p)
      BY ONLY <2>3, <2>5, BackGrows
    <3>2. \A p \in Nat : Has(t, p) => Has(s, p)
      BY <3>1 DEF Has
    <3>3. /\ \A p \in Nat : Has(toClient[c], p)' => Has(toClient[c], p)
          /\ Grows(toClient[c])'
      BY <2>1, <3>1, <3>2 DEF Has, Grows
    <3>4. \A p \in Nat : At(c, 1, p)' => At(c, 1, p)
      BY <2>3 DEF At
    <3>5. \A q \in Nat : Has(toClient[c], q)' => At(c, 2, q)
      BY <3>3 DEF At
    <3>6. \A p, q \in Nat : At(c, 1, p)' /\ Has(toClient[c], q)' => p < q
      BY <3>4, <3>5 DEF InOrder, StagesInOrder
    <3> QED BY <3>3, <3>4, <3>6
  <2>4. CASE \E n \in 1..Len(s) : answer'[c] = s[1] /\ t = SubSeq(s, n + 1, Len(s))
    <3>1. PICK n \in 1..Len(s) : answer'[c] = s[1] /\ t = SubSeq(s, n + 1, Len(s))
      BY <2>4
    <3>2. n \in 0..Len(s) /\ 1 \in 1..Len(s) /\ n >= 1 /\ n \in Nat
      BY <2>5
    <3>3. Grows(t) /\ \A p \in Nat : Has(t, p) => \E i \in 1..Len(s) : n < i /\ Covers(s[i], p)
      BY <2>5, <3>1, <3>2, BackGrows
    <3>4. /\ \A p \in Nat : Has(toClient[c], p)' => Has(toClient[c], p)
          /\ Grows(toClient[c])'
      BY <2>1, <3>3 DEF Has, Grows
    <3>5. \A p \in Nat : At(c, 1, p)' => Covers(s[1], p)
      BY <3>1 DEF At
    <3>6. \A p \in Nat : At(c, 1, p)' => At(c, 1 + 1, p)
      BY <2>1, <3>2, <3>5 DEF At, Has
    <3>7. ASSUME NEW p \in Nat, NEW q \in Nat, At(c, 1, p)', Has(toClient[c], q)' PROVE p < q
      <4>1. PICK i \in 1..Len(s) : n < i /\ Covers(s[i], q)
        BY <2>1, <3>3, <3>7 DEF Has
      <4>2. 1 < i /\ Covers(s[1], p)
        BY <3>2, <3>5, <3>7, <4>1
      <4> QED BY <2>5, <3>2, <4>1, <4>2 DEF Grows
    <3> QED BY <3>4, <3>6, <3>7
  <2> QED BY <1>2, <2>1, <2>2, <2>3, <2>4
<1>5. \A s \in 3..5 : \A p \in Nat : At(c, s, p)' => At(c, s, p)
  <2>1. \A p \in Nat : Has(toServer[c], p)' <=> Has(toServer[c], p)
    BY <1>2 DEF Has
  <2>2. \A h \in Handlers : \A p \in Nat : WorksOn(c, h, p)' <=> WorksOn(c, h, p)
    BY <1>1 DEF WorksOn, InWork, Has
  <2>3. \A i \in 1..Len(pWorkList) : \A p \in Nat : QueuedPoint(c, i, p)' <=> QueuedPoint(c, i, p)
    BY <1>1 DEF QueuedPoint, Queued, Has
  <2> QED BY <1>1, <2>1, <2>2, <2>3 DEF At
<1>6. StagesInOrder(c)' /\ PointsCalled(c)'
  <2>1. \A s \in 1..5 : \A p \in Nat :
          At(c, s, p)' => At(c, s, p) \/ (s = 1 /\ At(c, 1 + 1, p))
    <3>1. \A s \in 1..5 : s = 1 \/ s = 1 + 1 \/ s \in 3..5
      OBVIOUS
    <3>2. \A p \in Nat : At(c, 1 + 1, p)' => At(c, 1 + 1, p)
      BY <1>4 DEF At
    <3> QED BY <1>4, <1>5, <3>1, <3>2
  <2>2. \A p, q \in Nat : At(c, 1, p)' /\ At(c, 1 + 1, q)' => p < q
    BY <1>4 DEF At
  <2> QED BY <1>2, <2>1, <2>2, MovesOn
<1>7. QueueGrows(c)' /\ Grows(toServer[c])'
  BY <1>1, <1>2, QueueStays DEF InOrder, Grows
<1> QED BY <1>4, <1>6, <1>7 DEF InOrder

\* Connecting and closing move no message.
LEMMA ConnectionInOrder ==
  ASSUME TypeOK, NEW c \in Clients, InOrder(c), NEW b \in Clients, Connect(b) \/ DeleteClient(b)
  PROVE InOrder(c)'
<1>1. UNCHANGED <<pWorkList, hpc, hwork, reply, toServer, toClient, answer, calls>>
  BY DEF Connect, DeleteClient, ClientStep, handlerVars
<1>2. \A h \in Handlers : \A p \in Nat : WorksOn(c, h, p)' <=> WorksOn(c, h, p)
  BY <1>1 DEF WorksOn, InWork, Has
<1>3. \A i \in 1..Len(pWorkList') : \A p \in Nat : QueuedPoint(c, i, p)' => QueuedPoint(c, i, p)
  BY <1>1 DEF QueuedPoint, Queued, Has
<1>4. Len(pWorkList') \in Nat
  BY <1>1 DEF TypeOK
<1> QED BY <1>1, <1>2, <1>3, <1>4, ElsewhereInOrder

LEMMA OtherClientInOrder ==
  ASSUME TypeOK, NEW c \in Clients, InOrder(c), NEW b \in Clients \ {c},
         Put(b) \/ Get(b) \/ ClientReturn(b)
  PROVE  InOrder(c)'
<1>1. UNCHANGED <<pWorkList, hpc, hwork, reply>>
  BY Returns, Sends DEF handlerVars
<1>2. /\ answer'[c] = answer[c] /\ calls'[c] = calls[c]
      /\ toServer'[c] = toServer[c] /\ toClient'[c] = toClient[c]
  <2>1. \/ \E request : SendRequest(b, request)
        \/ ReceivePart(b)
        \/ \E n \in 0..Len(toClient[b]) : Receive(b, n)
    BY Returns, Sends
  <2> QED BY <2>1 DEF SendRequest, Receive, ReceivePart, TypeOK
<1>3. \A h \in Handlers : \A p \in Nat : WorksOn(c, h, p)' <=> WorksOn(c, h, p)
  BY <1>1 DEF WorksOn, InWork, Has
<1>4. \A i \in 1..Len(pWorkList') : \A p \in Nat : QueuedPoint(c, i, p)' => QueuedPoint(c, i, p)
  BY <1>1 DEF QueuedPoint, Queued, Has
<1>5. Len(pWorkList') \in Nat
  BY <1>1 DEF TypeOK
<1> QED BY <1>1, <1>2, <1>3, <1>4, <1>5, ElsewhereInOrder

\* What the loop reads goes behind all that is queued.
LEMMA ReadInOrder ==
  ASSUME TypeOK, NEW c \in Clients, InOrder(c), NEW b \in Clients,
         EchoRead(b) \/ EchoReadPart(b)
  PROVE  InOrder(c)'
<1>11. PICK n \in 1..Len(toServer[b]) : \E piece, left :
         /\ ReadPiece(b, piece, left)
         /\ CutBehind(toServer[b], n, piece, left) \/ CutInside(toServer[b], n, piece, left)
  BY Reads
<1>12. PICK piece, left :
         /\ ReadPiece(b, piece, left)
         /\ CutBehind(toServer[b], n, piece, left) \/ CutInside(toServer[b], n, piece, left)
  BY <1>11
<1>1. /\ toServer' = [toServer EXCEPT ![b] = left]
      /\ pWorkList' = Append(pWorkList, [client |-> b, reqs |-> piece])
      /\ UNCHANGED <<toClient, answer, calls, hpc, hwork, reply>>
  BY <1>12 DEF ReadPiece, LoopStep, AddWork, clientVars, handlerVars
<1>13. b = c => Divided(toServer[c], piece, left)
  <2>1. toServer[b] \in Seq(Request)
    BY DEF TypeOK
  <2> QED BY <1>12, <2>1, CutGrows, IdsAreNumbers DEF InOrder
<1>2. PICK l \in Nat : l = Len(pWorkList)
  BY DEF TypeOK
<1>3. /\ Len(pWorkList') = l + 1
      /\ pWorkList'[l + 1] = [client |-> b, reqs |-> piece]
      /\ \A i \in 1..l : pWorkList'[i] = pWorkList[i]
  BY <1>1, <1>2 DEF TypeOK
<1>4. \A i \in 1..l : \A p \in Nat : QueuedPoint(c, i, p)' <=> QueuedPoint(c, i, p)
  BY <1>3, <1>2 DEF QueuedPoint, Queued, Has
<1>5. \A p \in Nat : QueuedPoint(c, l + 1, p)' => b = c /\ Has(piece, p)
  BY <1>3 DEF QueuedPoint, Queued, Has
<1>6. \A h \in Handlers : \A p \in Nat : WorksOn(c, h, p)' <=> WorksOn(c, h, p)
  BY <1>1 DEF WorksOn, InWork, Has
<1>7. /\ b = c => toServer'[c] = left
      /\ b # c => toServer'[c] = toServer[c]
  BY <1>1 DEF TypeOK
<1>8. \A i \in 1..Len(pWorkList') : i \in 1..l \/ i = l + 1
  BY <1>3
<1>14. \A p \in Nat : /\ b = c => (Has(toServer[c], p)' <=> Has(left, p))
                      /\ b # c => (Has(toServer[c], p)' <=> Has(toServer[c], p))
  BY <1>7 DEF Has
<1>9. StagesInOrder(c)' /\ PointsCalled(c)'
  <2>1. \A p \in Nat : At(c, 4, p)' => At(c, 4, p) \/ (b = c /\ Has(piece, p))
    BY <1>4, <1>5, <1>8, <1>2 DEF At
  <2>7. \A p \in Nat : b = c /\ Has(piece, p) => At(c, 4 + 1, p)
    BY <1>13 DEF Divided, At
  <2>2. \A p \in Nat : At(c, 4 + 1, p)' => At(c, 4 + 1, p)
    BY <1>13, <1>14 DEF Divided, At
  <2>3. \A s \in 1..3 : \A p \in Nat : At(c, s, p)' => At(c, s, p)
    <3>1. \A p \in Nat : Has(toClient[c], p)' <=> Has(toClient[c], p)
      BY <1>1 DEF Has
    <3> QED BY <1>1, <1>6, <3>1 DEF At
  <2>4. \A s \in 1..5 : s \in 1..3 \/ s = 4 \/ s = 4 + 1
    OBVIOUS
  <2>5. \A s \in 1..5 : \A p \in Nat : At(c, s, p)' => At(c, s, p) \/ (s = 4 /\ At(c, 4 + 1, p))
    BY <2>1, <2>2, <2>3, <2>4, <2>7
  <2>6. \A p, q \in Nat : At(c, 4, p)' /\ At(c, 4 + 1, q)' => p < q
    <3>1. SUFFICES ASSUME NEW p \in Nat, NEW q \in Nat, At(c, 4, p)', At(c, 4 + 1, q)'
                   PROVE  p < q
      OBVIOUS
    <3>2. CASE At(c, 4, p)
      BY <2>2, <3>1, <3>2 DEF InOrder, StagesInOrder
    <3>3. CASE b = c /\ Has(piece, p)
      <4>1. Has(left, q)
        BY <1>14, <3>1, <3>3 DEF At
      <4> QED BY <1>13, <3>3, <4>1 DEF Divided
    <3> QED BY <2>1, <3>1, <3>2, <3>3
  <2> QED BY <1>1, <2>5, <2>6, MovesOn
<1>10. QueueGrows(c)'
  <2>1. SUFFICES ASSUME NEW i \in 1..Len(pWorkList'), NEW j \in 1..Len(pWorkList'),
                        NEW p \in Nat, NEW q \in Nat,
                        i < j, QueuedPoint(c, i, p)', QueuedPoint(c, j, q)'
                 PROVE  p < q
    BY DEF QueueGrows
  <2>2. i \in 1..l /\ QueuedPoint(c, i, p)
    <3>1. i \in 1..l
      BY <2>1, <1>3
    <3> QED BY <3>1, <2>1, <1>4
  <2>3. CASE j \in 1..l
    BY <2>1, <2>2, <2>3, <1>4, <1>2 DEF InOrder, QueueGrows
  <2>4. CASE j = l + 1
    <3>1. b = c /\ Has(piece, q)
      BY <1>5, <2>1, <2>4
    <3>2. At(c, 4, p) /\ At(c, 5, q)
      BY <1>2, <1>13, <2>2, <3>1 DEF At, Divided
    <3> QED BY <3>2 DEF InOrder, StagesInOrder
  <2> QED BY <2>3, <2>4, <1>8
<1>15. Grows(toServer[c])'
  <2>1. CASE b = c
    BY <1>7, <1>13, <2>1 DEF Divided, Grows
  <2>2. CASE b # c
    BY <1>7, <2>2 DEF InOrder, Grows
  <2> QED BY <2>1, <2>2
<1>16. Grows(toClient[c])'
  BY <1>1 DEF InOrder, Grows
<1> QED BY <1>9, <1>10, <1>15, <1>16 DEF InOrder

\* The handler takes the oldest piece of work.
LEMMA GetWorkInOrder ==
  ASSUME TypeOK, NEW c \in Clients, InOrder(c), NEW h \in Handlers, OneHandler, GetWork(h)
  PROVE  InOrder(c)'
<1>1. /\ hpc'[h] = "handling" /\ hwork'[h] = Head(pWorkList)
      /\ pWorkList # <<>> /\ pWorkList' = Tail(pWorkList)
      /\ UNCHANGED <<toServer, toClient, answer, calls>>
  BY DEF GetWork, HandlerStep, clientVars, TypeOK
<1>2. /\ Len(pWorkList) \in Nat /\ Len(pWorkList) >= 1 /\ Len(pWorkList') \in Nat
      /\ Len(pWorkList') = Len(pWorkList) - 1 /\ Head(pWorkList) = pWorkList[1]
      /\ \A i \in 1..Len(pWorkList') : pWorkList'[i] = pWorkList[i + 1]
  BY <1>1 DEF TypeOK
<1>3. \A i \in 1..Len(pWorkList') : \A p \in Nat :
        QueuedPoint(c, i, p)' => QueuedPoint(c, i + 1, p)
  <2>1. ASSUME NEW i \in 1..Len(pWorkList'), NEW p \in Nat, QueuedPoint(c, i, p)'
        PROVE  QueuedPoint(c, i + 1, p)
    <3>1. i + 1 \in 1..Len(pWorkList) /\ pWorkList'[i] = pWorkList[i + 1]
      BY <1>2
    <3> QED BY <2>1, <3>1 DEF QueuedPoint, Queued, Has
  <2> QED BY <2>1
<1>4. \A p \in Nat : WorksOn(c, h, p)' => QueuedPoint(c, 1, p)
  BY <1>1, <1>2 DEF WorksOn, InWork, QueuedPoint, Queued, Has
<1>5. QueueGrows(c)'
  BY <1>2, <1>3, QueueShifts DEF InOrder
<1>6. \A p \in Nat : At(c, 3, p)' => QueuedPoint(c, 1, p)
  BY <1>4 DEF At, OneHandler
<1>7. \A p \in Nat : At(c, 4, p)' => \E i \in 2..Len(pWorkList) : QueuedPoint(c, i, p)
  <2>1. \A i \in 1..Len(pWorkList') : i + 1 \in 2..Len(pWorkList)
    BY <1>2
  <2> QED BY <1>3, <2>1 DEF At
<1>8. \A s \in 1..5 : \A p \in Nat : At(c, s, p)' => At(c, s, p) \/ (s = 3 /\ At(c, 3 + 1, p))
  <2>1. \A p \in Nat : At(c, 3, p)' => At(c, 3 + 1, p)
    BY <1>2, <1>6 DEF At
  <2>2. \A p \in Nat : At(c, 4, p)' => At(c, 4, p)
    BY <1>2, <1>7 DEF At
  <2>3. \A s \in {1, 2, 5} : \A p \in Nat : At(c, s, p)' => At(c, s, p)
    <3>1. \A p \in Nat : /\ Has(toClient[c], p)' <=> Has(toClient[c], p)
                         /\ Has(toServer[c], p)' <=> Has(toServer[c], p)
      BY <1>1 DEF Has
    <3> QED BY <1>1, <3>1 DEF At
  <2>4. \A s \in 1..5 : s \in {1, 2, 5} \/ s = 3 \/ s = 4
    OBVIOUS
  <2> QED BY <2>1, <2>2, <2>3, <2>4
<1>9. \A p, q \in Nat : At(c, 3, p)' /\ At(c, 3 + 1, q)' => p < q
  <2>1. SUFFICES ASSUME NEW p \in Nat, NEW q \in Nat, At(c, 3, p)', At(c, 4, q)' PROVE p < q
    OBVIOUS
  <2>2. PICK i \in 2..Len(pWorkList) : QueuedPoint(c, i, q)
    BY <1>7, <2>1
  <2>3. QueuedPoint(c, 1, p) /\ 1 \in 1..Len(pWorkList) /\ i \in 1..Len(pWorkList) /\ 1 < i
    BY <1>2, <1>6, <2>1
  <2> QED BY <2>2, <2>3 DEF InOrder, QueueGrows
<1>10. StagesInOrder(c)' /\ PointsCalled(c)'
  BY <1>1, <1>8, <1>9, MovesOn
<1>11. Grows(toClient[c])' /\ Grows(toServer[c])'
  BY <1>1 DEF InOrder, Grows
<1> QED BY <1>5, <1>10, <1>11 DEF InOrder

\* The reply covers bytes of the request.
LEMMA ReplyInOrder ==
  ASSUME TypeOK, NEW c \in Clients, InOrder(c), NEW h \in Handlers, OneHandler,
         MsgHandler(h) \/ MsgHandlerDefault(h)
  PROVE  InOrder(c)'
<1>1. /\ hpc[h] = "handling" /\ hpc'[h] = "sending"
      /\ UNCHANGED <<toServer, toClient, calls, answer, pWorkList, hwork>>
  BY DEF MsgHandler, MsgHandlerDefault, HandlerStep, clientVars, TypeOK
<1>2. PICK r : r = hwork[h].reqs[1]
  OBVIOUS
<1>3. 1 \in 1..Len(hwork[h].reqs)
  BY <1>1 DEF TypeOK, Work, Working
<1>4. reply'[h].id = r.id /\ reply'[h].part = r.part
  BY <1>2 DEF MsgHandler, MsgHandlerDefault, PutRequestHandler, GetRequestHandler, PutReply,
     GetReply, KittyReply, ParsesRequest, TypeOK
<1>5. \A p \in Nat : WorksOn(c, h, p)' => WorksOn(c, h, p)
  <2>1. \A p \in Nat : Covers(reply'[h], p) => Covers(r, p)
    BY <1>4 DEF Covers
  <2>2. \A p \in Nat : Covers(r, p) => Has(hwork[h].reqs, p)
    BY <1>2, <1>3 DEF Has
  <2>3. \A p \in Nat : WorksOn(c, h, p)' => Covers(reply'[h], p) /\ hwork[h].client = c
    BY <1>1 DEF WorksOn, InWork, Covers
  <2> QED BY <1>1, <2>1, <2>2, <2>3 DEF WorksOn, InWork, Working
<1>6. \A g \in Handlers : \A p \in Nat : WorksOn(c, g, p)' => WorksOn(c, g, p)
  BY <1>5 DEF OneHandler
<1>7. \A i \in 1..Len(pWorkList') : \A p \in Nat : QueuedPoint(c, i, p)' => QueuedPoint(c, i, p)
  BY <1>1 DEF QueuedPoint, Queued, Has
<1>8. Len(pWorkList') \in Nat
  BY <1>1 DEF TypeOK
<1> QED BY <1>1, <1>6, <1>7, <1>8, ElsewhereInOrder

\* The reply goes behind those its client has not taken.
LEMMA SendReplyInOrder ==
  ASSUME TypeOK, NEW c \in Clients, InOrder(c), NEW h \in Handlers, OneHandler, SendReply(h)
  PROVE  InOrder(c)'
<1> DEFINE b == hwork[h].client
           r == reply[h]
<1>1. /\ hpc[h] = "sending" /\ hpc'[h] = "top" /\ b \in Clients /\ r \in Reply
      /\ UNCHANGED <<toServer, calls, answer, pWorkList>>
      /\ toClient' = [toClient EXCEPT ![b] = IF Open(b) THEN Append(@, r) ELSE @]
  BY DEF SendReply, HandlerStep, clientVars, TypeOK, Work, Working
<1>2. toClient'[c] = toClient[c] \/ (b = c /\ toClient'[c] = Append(toClient[c], r))
  BY <1>1 DEF TypeOK
<1>3. b = c => \A p \in Nat : Covers(r, p) => At(c, 3, p)
  BY <1>1 DEF WorksOn, InWork, Working, At
<1> HIDE DEF b, r
<1>4. \A p \in Nat : ~At(c, 3, p)'
  BY <1>1 DEF At, WorksOn, InWork, OneHandler, Working
<1>5. /\ \A p \in Nat : At(c, 2, p)' => At(c, 2, p) \/ At(c, 3, p)
      /\ Grows(toClient[c])'
  <2>1. CASE toClient'[c] = toClient[c]
    <3>1. Grows(toClient[c])'
      BY <2>1 DEF Grows, InOrder
    <3>2. \A p \in Nat : Has(toClient[c], p)' => Has(toClient[c], p)
      BY <2>1 DEF Has
    <3> QED BY <3>1, <3>2 DEF At
  <2>2. CASE b = c /\ toClient'[c] = Append(toClient[c], r)
    <3>1. PICK s : s = toClient[c]
      OBVIOUS
    <3>2. s \in Seq(Reply) /\ Grows(s) /\ r \in Reply
      BY <1>1, <3>1 DEF TypeOK, InOrder
    <3>3. \A p \in Nat : Has(s, p) => At(c, 2, p)
      BY <3>1 DEF At
    <3>4. \A p, q \in Nat : Has(s, p) /\ Covers(r, q) => p < q
      BY <1>3, <2>2, <3>3 DEF InOrder, StagesInOrder
    <3>5. /\ Grows(Append(s, r))
          /\ \A p \in Nat : Has(Append(s, r), p) => Has(s, p) \/ Covers(r, p)
      BY ONLY <3>2, <3>4, AppendGrows
    <3>6. PICK t : t = toClient'[c]
      OBVIOUS
    <3>7. Grows(t) /\ \A p \in Nat : Has(t, p) => Has(s, p) \/ Covers(r, p)
      BY <2>2, <3>1, <3>5, <3>6
    <3>8. Grows(toClient[c])' /\ \A p \in Nat : Has(toClient[c], p)' => Has(t, p)
      BY <3>6, <3>7 DEF Grows, Has
    <3>9. \A p \in Nat : At(c, 2, p)' => Has(t, p)
      BY <3>8 DEF At
    <3> QED BY <1>3, <2>2, <3>3, <3>7, <3>8, <3>9
  <2> QED BY <1>2, <2>1, <2>2
<1>7. StagesInOrder(c)' /\ PointsCalled(c)'
  <2>1. \A s \in {1, 4, 5} : \A p \in Nat : At(c, s, p)' => At(c, s, p)
    <3>1. \A p \in Nat : Has(toServer[c], p)' <=> Has(toServer[c], p)
      BY <1>1 DEF Has
    <3>2. \A i \in 1..Len(pWorkList') : \A p \in Nat :
            QueuedPoint(c, i, p)' => QueuedPoint(c, i, p)
      BY <1>1 DEF QueuedPoint, Queued, Has
    <3> QED BY <1>1, <3>1, <3>2 DEF At
  <2>2. \A s \in 1..5 : s \in {1, 4, 5} \/ s = 2 \/ s = 2 + 1
    OBVIOUS
  <2>3. \A s \in 1..5 : \A p \in Nat : At(c, s, p)' => At(c, s, p) \/ (s = 2 /\ At(c, 2 + 1, p))
    BY <1>4, <1>5, <2>1, <2>2
  <2>4. \A p \in Nat : ~At(c, 2 + 1, p)'
    BY <1>4
  <2> QED BY <1>1, <2>3, <2>4, MovesOn
<1>8. QueueGrows(c)' /\ Grows(toServer[c])'
  BY <1>1, QueueStays DEF InOrder, Grows
<1> QED BY <1>5, <1>7, <1>8 DEF InOrder

\* The other steps of the server at most drop work.
LEMMA QuietInOrder ==
  ASSUME TypeOK, NEW c \in Clients, InOrder(c), Quiet PROVE InOrder(c)'
<1>1. /\ UNCHANGED <<toServer, toClient, clientVars, split, hwork, reply, store>>
      /\ pWorkList' \in {pWorkList, <<>>}
      /\ \A g \in Handlers : hpc'[g] \in Working =>
           hpc[g] \in Working /\ ((hpc'[g] = "handling") <=> (hpc[g] = "handling"))
  BY QuietSteps
<1>2. \A g \in Handlers : \A p \in Nat : WorksOn(c, g, p)' => WorksOn(c, g, p)
  BY <1>1 DEF WorksOn, InWork, Has, Covers
<1>4. \A i \in 1..Len(pWorkList') : \A p \in Nat : QueuedPoint(c, i, p)' => QueuedPoint(c, i, p)
  BY <1>1 DEF QueuedPoint, Queued, Has
<1>5. Len(pWorkList') \in Nat
  BY <1>1 DEF TypeOK
<1> QED BY <1>1, <1>2, <1>4, <1>5, ElsewhereInOrder DEF clientVars

LEMMA NextInOrder ==
  ASSUME TypeOK, OneHandler, OrderInv, [Next]_vars PROVE OrderInv'
<1> SUFFICES ASSUME NEW c \in Clients, InOrder(c) PROVE InOrder(c)'
  BY DEF OrderInv
<1>1. ASSUME NEW b \in Clients, ClientNext(b) PROVE InOrder(c)'
  <2>1. CASE Connect(b) \/ DeleteClient(b)
    BY <2>1, ConnectionInOrder
  <2>2. CASE Put(b) \/ Get(b) \/ ClientReturn(b)
    BY <2>2, SendInOrder, ReturnInOrder, OtherClientInOrder
  <2> QED BY <1>1, <2>1, <2>2 DEF ClientNext
<1>2. ASSUME NEW b \in Clients, EchoRead(b) \/ EchoReadPart(b) PROVE InOrder(c)'
  BY <1>2, ReadInOrder
<1>3. ASSUME NEW h \in Handlers,
             GetWork(h) \/ MsgHandler(h) \/ MsgHandlerDefault(h) \/ SendReply(h)
      PROVE  InOrder(c)'
  BY <1>3, GetWorkInOrder, ReplyInOrder, SendReplyInOrder
<1>4. CASE Quiet
  BY <1>4, QuietInOrder
<1> QED BY <1>1, <1>2, <1>3, <1>4 DEF Next, Loop, HandlerNext, HandlerMay, Stopped, Quiet

LEMMA InitInOrder == Init => OrderInv
<1> SUFFICES ASSUME Init, NEW c \in Clients PROVE InOrder(c)
  BY DEF OrderInv
<1>1. /\ Len(toServer[c]) = 0 /\ Len(toClient[c]) = 0 /\ Len(pWorkList) = 0
      /\ answer[c] = NULL /\ \A h \in Handlers : hpc[h] = "top"
  BY DEF Init, InitConnectHandler, InitClient
<1>2. \A s \in 1..5 : \A p \in Nat : ~At(c, s, p)
  BY <1>1 DEF At, Has, WorksOn, InWork, Working
<1> QED BY <1>1, <1>2 DEF InOrder, StagesInOrder, Grows, QueueGrows, PointsCalled

LEMMA InvReplies == TypeOK /\ OrderInv => RepliesInOrder
<1> SUFFICES ASSUME TypeOK, OrderInv, NEW c \in Clients, NEW i \in 1..Len(toClient[c])
             PROVE  /\ answer[c] # NULL => Before(answer[c], toClient[c][i])
                    /\ \A j \in 1..(i - 1) : Before(toClient[c][j], toClient[c][i])
  BY DEF RepliesInOrder
<1>1. \A j \in 1..Len(toClient[c]) : toClient[c][j] \in Reply
  BY DEF TypeOK
<1>2. StagesInOrder(c) /\ Grows(toClient[c])
  BY DEF OrderInv, InOrder
<1>3. ASSUME answer[c] # NULL PROVE Before(answer[c], toClient[c][i])
  <2>1. answer[c] \in Reply
    BY <1>3 DEF TypeOK
  <2>2. \A q \in Nat : Covers(toClient[c][i], q) => At(c, 2, q)
    BY DEF At, Has
  <2>3. \A p \in Nat : Covers(answer[c], p) => At(c, 1, p)
    BY <1>3 DEF At
  <2>4. \A p, q \in Nat : Covers(answer[c], p) /\ Covers(toClient[c][i], q) => p < q
    BY <1>2, <2>2, <2>3 DEF StagesInOrder
  <2> QED BY <1>1, <2>1, <2>4, PointsBefore, IdsAreNumbers
<1>4. ASSUME NEW j \in 1..(i - 1) PROVE Before(toClient[c][j], toClient[c][i])
  <2>1. j \in 1..Len(toClient[c]) /\ j < i
    BY DEF TypeOK
  <2>2. \A p, q \in Nat : Covers(toClient[c][j], p) /\ Covers(toClient[c][i], q) => p < q
    BY <1>2, <2>1 DEF Grows
  <2> QED BY <1>1, <2>1, <2>2, PointsBefore, IdsAreNumbers
<1> QED BY <1>3, <1>4

\* With the one handler thread of ln_ServerInit, the replies of a connection come back
\* in the order of its requests and of their parts, none twice and none older than what
\* the client took before, whatever the clients give up on and whenever the server is
\* told to stop.
THEOREM RepliesComeInOrder ==
  ASSUME OneHandler PROVE Spec => []RepliesInOrder
<1>1. TypeOK /\ OrderInv /\ [Next]_vars => OrderInv'
  BY NextInOrder
<1> QED BY InitTypes, NextTypes, InitInOrder, <1>1, InvReplies, PTL DEF Spec
===============================================================================
