-------------------------------- MODULE Network --------------------------------
(****************************************************************************)
(* The server (libnet) and its clients (client/, common/Message.c).         *)
(*                                                                          *)
(* In the server the event loop reads requests and queues them              *)
(* (ConnectHandler.c), handler threads take them from the queue, call the   *)
(* table manager and send the reply, and a signal starts the shutdown of    *)
(* smain.c in a thread of its own while the other two still run.  A client  *)
(* sends a request, waits two seconds at most, and takes whatever its       *)
(* connection then holds for the reply: messages carry no number.           *)
(*                                                                          *)
(* Between the two, a connection is one sequence of messages each way.  A   *)
(* reader gets what has arrived, which may be several messages, and may end *)
(* inside one: a message is read whole, or in two parts.  The field id of a *)
(* message is not in the code: it says which call of its client it belongs  *)
(* to, and no action reads it; part says whether the bytes are all of it.   *)
(* The table manager is the set of keys it holds in memory and on disk, and *)
(* the status of the first table of its list, which says whether a put      *)
(* returns (SSTManager has the rest).  The mutex of the queue is left out:  *)
(* what a thread does while it holds it is one step.                        *)
(* Assertions are compiled in, as in the Debug build: a failed one ends the *)
(* process.                                                                 *)
(****************************************************************************)
EXTENDS Integers, Sequences, FiniteSets

CONSTANTS
  Clients,   \* client processes, each with its connection
  Handlers,  \* the handler threads; ln_ServerInit makes one
  Keys,
  MaxCalls,  \* bound: how many calls each client makes
  NULL

ASSUME CallsAssumption == MaxCalls \in [Clients -> Nat]

VARIABLES
  toServer, toClient,  \* of each connection: messages on their way
  cpc,                 \* of each client: where it is
  calls, asked,        \* of each client: calls made, its last request
  answer,              \* of each client: the last reply it took
  late,                \* history: clients that found no reply when they looked
  split,               \* history: clients with a message that was read in parts
  process,             \* of the server: up, or how it ended
  lpc, loopStop,       \* the loop thread, and the flag of uv_stop
  bIsRunning,          \* the flag the handler threads watch
  pWorkList,           \* the work queued
  hpc, hwork, reply,   \* of each handler thread: place, its work, its reply
  spc,                 \* the thread of the signal handler
  store, disk,         \* the keys the table manager holds, the keys in its files
  head                 \* the status of the first table of its list, or none

clientVars == <<cpc, calls, asked, answer, late>>
loopVars == <<lpc, loopStop>>
handlerVars == <<hpc, hwork, reply>>
tableVars == <<store, head>>
dataVars == <<tableVars, disk>>
vars == <<toServer, toClient, clientVars, split, process, loopVars, bIsRunning,
          pWorkList, handlerVars, spc, dataVars>>

Up == process = "up"

-----------------------------------------------------------------------------
(* Message.c *)

Ids == UNION {1..MaxCalls[c] : c \in Clients}
Parts == {"whole", "first", "rest"}
PutRequest(k, n) == [type |-> "put", key |-> k, id |-> n, part |-> "whole"]
GetRequest(k, n) == [type |-> "get", key |-> k, id |-> n, part |-> "whole"]
Request == [type : {"put", "get"}, key : Keys, id : Ids, part : Parts]

\* Mutant of PutReply: the type is that of the function it was copied from.
PutReplyOfGet(nRet, n) ==
  [type |-> "get", nRet |-> nRet, found |-> FALSE, id |-> n, part |-> "whole"]

\* Mutant of PutReply: success whatever the put returned, as for a get.
PutReplyZero(nRet, n) ==
  [type |-> "put", nRet |-> 0, found |-> FALSE, id |-> n, part |-> "whole"]

PutReply(nRet, n) ==
  [type |-> "put", nRet |-> nRet, found |-> FALSE, id |-> n, part |-> "whole"]

\* A get that finds nothing is packed without data and with nRet 0 like any other.
GetReply(found, n) ==
  [type |-> "get", nRet |-> 0, found |-> found, id |-> n, part |-> "whole"]

\* "hello kitty", to what begins like no request; id and part are those of
\* the bytes it answers
KittyReply(request) ==
  [type |-> "kitty", nRet |-> 0, found |-> FALSE, id |-> request.id, part |-> request.part]

Reply == [type : {"put", "get", "kitty"}, nRet : {0, 1}, found : BOOLEAN, id : Ids,
          part : Parts]

\* One request fills the buffer, or an assertion fails.
ParsesRequest(buf) == Len(buf) = 1 /\ buf[1].part = "whole"

\* One reply of the type that is expected fills the buffer, or an assertion fails.
ParsesPutReply(buf) == Len(buf) = 1 /\ buf[1].type = "put"

\* nRet 0 announces data: a reply without them is shorter than what is read.
ParsesGetReply(buf) ==
  /\ Len(buf) = 1
  /\ buf[1].type = "get"
  /\ buf[1].nRet = 0 => buf[1].found

\* A piece of work in the queue of the server: what one read gave.  Its last
\* message may be a first part, and the next piece begins with the rest of it.
Work == [client : Clients, reqs : Seq(Request) \ {<<>>}]

ASSUME NullAssumption == NULL \notin Reply /\ NULL \notin Work

-----------------------------------------------------------------------------
(* The running server, before its first connection *)

\* InitMsgHandler reloads what an earlier run left; tables listed in the
\* Manifest are not open yet.
InitServer ==
  /\ process = "up"
  /\ lpc = "poll"
  /\ loopStop = FALSE
  /\ spc = "none"
  /\ store \in SUBSET Keys
  /\ disk = store
  /\ head \in {"NONE", "UNOPEN"}
  /\ head = "NONE" => store = {}

InitConnectHandler ==
  /\ bIsRunning = TRUE
  /\ pWorkList = <<>>
  /\ hpc = [h \in Handlers |-> "top"]
  /\ hwork = [h \in Handlers |-> NULL]
  /\ reply = [h \in Handlers |-> NULL]

InitClient ==
  /\ toServer = [c \in Clients |-> <<>>]
  /\ toClient = [c \in Clients |-> <<>>]
  /\ cpc = [c \in Clients |-> "new"]
  /\ calls = [c \in Clients |-> 0]
  /\ asked = [c \in Clients |-> NULL]
  /\ answer = [c \in Clients |-> NULL]
  /\ late = {}
  /\ split = {}

Init == InitServer /\ InitConnectHandler /\ InitClient

-----------------------------------------------------------------------------
(* The client *)

ClientStep(c, from, to) ==
  /\ cpc[c] = from
  /\ cpc' = [cpc EXCEPT ![c] = to]
  /\ UNCHANGED <<process, loopVars, bIsRunning, pWorkList, handlerVars, spc, dataVars>>

\* InitClient, and OnConnection in the server
Connect(c) ==
  /\ Up
  /\ ClientStep(c, "new", "idle")
  /\ UNCHANGED <<toServer, toClient, calls, asked, answer, late, split>>

\* SendBase, up to select
SendRequest(c, request) ==
  /\ calls[c] < MaxCalls[c]
  /\ calls' = [calls EXCEPT ![c] = @ + 1]
  /\ asked' = [asked EXCEPT ![c] = request]
  /\ toServer' = [toServer EXCEPT ![c] = Append(@, request)]
  /\ UNCHANGED <<toClient, answer, late, split>>

Put(c) ==
  /\ ClientStep(c, "idle", "put")
  /\ \E k \in Keys : SendRequest(c, PutRequest(k, calls[c] + 1))

Get(c) ==
  /\ ClientStep(c, "idle", "get")
  /\ \E k \in Keys : SendRequest(c, GetRequest(k, calls[c] + 1))

\* SendBase, from select on: recv is called until nothing more has arrived,
\* which gave n replies.  Nothing at all means that two seconds have passed.
Receive(c, n) ==
  /\ toClient' = [toClient EXCEPT ![c] = SubSeq(@, n + 1, Len(@))]
  /\ answer' = [answer EXCEPT ![c] = IF n = 0 THEN @ ELSE toClient[c][1]]
  /\ late' = IF n = 0 THEN late \cup {c} ELSE late
  /\ UNCHANGED <<toServer, calls, asked, split>>

Received(c, n) == SubSeq(toClient[c], 1, n)

\* a put that received nothing returns -1
PutReturn(c) ==
  /\ ClientStep(c, "put", "idle")
  /\ \E n \in 0..Len(toClient[c]) :
       /\ n = 0 \/ ParsesPutReply(Received(c, n))
       /\ Receive(c, n)

PutAssertFails(c) ==
  /\ ClientStep(c, "put", "aborted")
  /\ \E n \in 1..Len(toClient[c]) :
       /\ ~ParsesPutReply(Received(c, n))
       /\ Receive(c, n)

GetReturn(c) ==
  /\ ClientStep(c, "get", "idle")
  /\ \E n \in 1..Len(toClient[c]) :
       /\ ParsesGetReply(Received(c, n))
       /\ Receive(c, n)

\* a get that received nothing reads the data of a reply that is NULL
GetAborts(c) ==
  /\ ClientStep(c, "get", "aborted")
  /\ \E n \in 0..Len(toClient[c]) :
       /\ ~ParsesGetReply(Received(c, n))
       /\ Receive(c, n)

\* A handler that is blocked may have sent a part of its reply.
BlockedOn(c) == \E h \in Handlers : hpc[h] = "blocked" /\ hwork[h].client = c

\* What has arrived ends inside a reply: no parser accepts its length.
ReceivePart(c) ==
  /\ ClientStep(c, "put", "aborted") \/ ClientStep(c, "get", "aborted")
  /\ toClient[c] # <<>> \/ BlockedOn(c)
  /\ toClient' = [toClient EXCEPT ![c] = <<>>]
  /\ split' = split \cup {c}
  /\ UNCHANGED <<toServer, calls, asked, answer, late>>

DeleteClient(c) ==
  /\ ClientStep(c, "idle", "closed")
  /\ UNCHANGED <<toServer, toClient, calls, asked, answer, late, split>>

Open(c) == cpc[c] \in {"idle", "put", "get"}

-----------------------------------------------------------------------------
(* The loop thread *)

LoopStep(from, to) ==
  /\ Up
  /\ lpc = from
  /\ lpc' = to
  /\ UNCHANGED <<toClient, clientVars, bIsRunning, spc, loopStop, dataVars>>

\* the queue and its mutex are gone, the loop thread still runs
QueueDestroyed == spc \in {"flush", "close", "exit"}

\* Mutant of AddWork: the new work goes in front.
AddWorkFront(work) == pWorkList' = <<work>> \o pWorkList

AddWork(work) == pWorkList' = Append(pWorkList, work)

\* echo_read: what one read gave from a client is one piece of work.
ReadPiece(c, piece, left) ==
  /\ LoopStep("poll", "signal")
  /\ toServer' = [toServer EXCEPT ![c] = left]
  /\ AddWork([client |-> c, reqs |-> piece])
  /\ \/ process' = process
     \/ QueueDestroyed /\ process' = "crashed"
  /\ UNCHANGED handlerVars

\* what has arrived ends where a message ends
EchoRead(c) ==
  /\ \E n \in 1..Len(toServer[c]) :
       ReadPiece(c, SubSeq(toServer[c], 1, n), SubSeq(toServer[c], n + 1, Len(toServer[c])))
  /\ split' = split

\* What has arrived, or the buffer of the loop, ends inside message n.  A rest
\* is not cut again: further parts are handled as it is.
EchoReadPart(c) ==
  /\ \E n \in 1..Len(toServer[c]) :
       LET before == SubSeq(toServer[c], 1, n - 1)
           after == SubSeq(toServer[c], n + 1, Len(toServer[c]))
           Part(part) == <<[toServer[c][n] EXCEPT !.part = part]>>
       IN /\ toServer[c][n].part = "whole"
          /\ ReadPiece(c, before \o Part("first"), Part("rest") \o after)
  /\ split' = split \cup {c}

\* Mutant of SignalHandler: nobody is signalled.
SignalNobody ==
  /\ LoopStep("signal", "poll")
  /\ UNCHANGED <<toServer, split, process, pWorkList, handlerVars>>

\* uv_cond_signal at the end of AddWork, after the unlock
SignalHandler ==
  /\ LoopStep("signal", "poll")
  /\ LET waiting == {h \in Handlers : hpc[h] = "waiting"} IN
       IF waiting = {} THEN hpc' = hpc
       ELSE \E h \in waiting : hpc' = [hpc EXCEPT ![h] = "top"]
  /\ UNCHANGED <<toServer, split, process, pWorkList, hwork, reply>>

\* uv_run returns once it sees the flag, ln_ServerStart and main return, and
\* the process ends whatever its other threads are doing.
MainReturns ==
  /\ LoopStep("poll", "returned")
  /\ loopStop
  /\ process' = "returned"
  /\ UNCHANGED <<toServer, split, pWorkList, handlerVars>>

-----------------------------------------------------------------------------
(* The handler threads *)

HandlerStep(h, from, to) ==
  /\ Up
  /\ hpc[h] = from
  /\ hpc' = [hpc EXCEPT ![h] = to]
  /\ UNCHANGED <<toServer, clientVars, split, loopVars, bIsRunning, spc, disk>>

HandlerExit(h) ==
  /\ HandlerStep(h, "top", "exited")
  /\ ~bIsRunning
  /\ UNCHANGED <<toClient, process, pWorkList, hwork, reply, tableVars>>

HandlerWait(h) ==
  /\ HandlerStep(h, "top", "waiting")
  /\ bIsRunning
  /\ pWorkList = <<>>
  /\ UNCHANGED <<toClient, process, pWorkList, hwork, reply, tableVars>>

\* a condition variable may wake a thread that nobody signalled
SpuriousWakeup(h) ==
  /\ HandlerStep(h, "waiting", "top")
  /\ UNCHANGED <<toClient, process, pWorkList, hwork, reply, tableVars>>

\* Mutant of GetWork: an if in the place of the while around the wait.
GetWorkUntested(h) ==
  /\ HandlerStep(h, "top", "handling")
  /\ bIsRunning
  /\ hwork' = [hwork EXCEPT ![h] = IF pWorkList = <<>> THEN NULL ELSE Head(pWorkList)]
  /\ pWorkList' = IF pWorkList = <<>> THEN <<>> ELSE Tail(pWorkList)
  /\ UNCHANGED <<toClient, process, reply, tableVars>>

GetWork(h) ==
  /\ HandlerStep(h, "top", "handling")
  /\ bIsRunning
  /\ pWorkList # <<>>
  /\ hwork' = [hwork EXCEPT ![h] = Head(pWorkList)]
  /\ pWorkList' = Tail(pWorkList)
  /\ UNCHANGED <<toClient, process, reply, tableVars>>

\* sstmanager_put makes a table in WRITE where there is none or the first is
\* not open; then it returns 0 with the data in a table, or 1 without.
PutRequestHandler(h, request) ==
  /\ head # "READ"
  /\ head' = "WRITE"
  /\ \E nRet \in {0, 1} :
       /\ store' = IF nRet = 0 THEN store \cup {request.key} ELSE store
       /\ reply' = [reply EXCEPT ![h] = PutReply(nRet, request.id)]

\* sstmanager_get opens a table that is not open to read it.
GetRequestHandler(h, request) ==
  /\ reply' = [reply EXCEPT ![h] = GetReply(request.key \in store, request.id)]
  /\ head' = IF head = "UNOPEN" THEN "READ" ELSE head
  /\ store' = store

MsgHandler(h) ==
  LET reqs == hwork[h].reqs IN
  /\ HandlerStep(h, "handling", "sending")
  /\ ParsesRequest(reqs)
  /\ \/ reqs[1].type = "put" /\ PutRequestHandler(h, reqs[1])
     \/ reqs[1].type = "get" /\ GetRequestHandler(h, reqs[1])
  /\ UNCHANGED <<toClient, process, pWorkList, hwork>>

\* After a restart and a get the first table is in READ, which takes no data
\* and is never replaced: sstmanager_put goes back to REPEAT for ever.
PutForever(h) ==
  LET reqs == hwork[h].reqs IN
  /\ HandlerStep(h, "handling", "repeating")
  /\ ParsesRequest(reqs)
  /\ reqs[1].type = "put" /\ head = "READ"
  /\ UNCHANGED <<toClient, process, pWorkList, hwork, reply, tableVars>>

\* What begins like no request: the rest of one, or too few bytes for a type.
MsgHandlerDefault(h) ==
  LET reqs == hwork[h].reqs IN
  /\ HandlerStep(h, "handling", "sending")
  /\ reqs[1].part # "whole"
  /\ reply' = [reply EXCEPT ![h] = KittyReply(reqs[1])]
  /\ UNCHANGED <<toClient, process, pWorkList, hwork, tableVars>>

\* Several requests in one piece of work, or what begins like a request and is
\* none: then the sizes read may also be any number, and copying crashes.
MsgHandlerAssertFails(h) ==
  LET reqs == hwork[h].reqs IN
  /\ HandlerStep(h, "handling", "ended")
  /\ ~ParsesRequest(reqs)
  /\ process' \in {"aborted"} \cup IF reqs[1].part = "whole" THEN {} ELSE {"crashed"}
  /\ UNCHANGED <<toClient, pWorkList, hwork, reply, tableVars>>

\* send the reply and free the work; what is sent to a client that has closed
\* its connection is lost
SendReply(h) ==
  LET c == hwork[h].client IN
  /\ HandlerStep(h, "sending", "top")
  /\ toClient' = [toClient EXCEPT ![c] = IF Open(c) THEN Append(@, reply[h]) ELSE @]
  /\ hwork' = [hwork EXCEPT ![h] = NULL]
  /\ reply' = [reply EXCEPT ![h] = NULL]
  /\ UNCHANGED <<process, pWorkList, tableVars>>

\* The buffer of the connection is full, of replies not yet read or of this
\* one: send fails, and select waits, not for room, but until the client sends
\* or closes.
SendBlocks(h) ==
  LET c == hwork[h].client IN
  /\ HandlerStep(h, "sending", "blocked")
  /\ Open(c)
  /\ toClient[c] # <<>> \/ reply[h].found
  /\ UNCHANGED <<toClient, process, pWorkList, hwork, reply, tableVars>>

SelectReturns(h) ==
  LET c == hwork[h].client IN
  /\ HandlerStep(h, "blocked", "sending")
  /\ toServer[c] # <<>> \/ ~Open(c)
  /\ UNCHANGED <<toClient, process, pWorkList, hwork, reply, tableVars>>

\* send fails on a closed connection, select calls the socket ready, and the
\* loop around the two never ends
SendReplyForever(h) ==
  /\ HandlerStep(h, "sending", "wedged")
  /\ ~Open(hwork[h].client)
  /\ UNCHANGED <<toClient, process, pWorkList, hwork, reply, tableVars>>

-----------------------------------------------------------------------------
(* The signal handler: SignalFunc in smain.c *)

SignalStep(from, to) ==
  /\ Up
  /\ spc = from
  /\ spc' = to
  /\ UNCHANGED <<toServer, toClient, clientVars, split, lpc, hwork, reply, tableVars>>

\* uv_stop
StopLoop ==
  /\ SignalStep("none", "stop")
  /\ loopStop' = TRUE
  /\ UNCHANGED <<process, bIsRunning, pWorkList, hpc, disk>>

StopHandler ==
  /\ SignalStep("stop", "destroy")
  /\ bIsRunning' = FALSE
  /\ UNCHANGED <<process, loopStop, pWorkList, hpc, disk>>

\* uv_loop_delete while the loop thread may still be in uv_run, which survives
\* it or does not
DeleteLoop ==
  /\ SignalStep("destroy", "broadcast")
  /\ process' \in {process, "crashed"}
  /\ UNCHANGED <<loopStop, bIsRunning, pWorkList, hpc, disk>>

\* Mutant of Broadcast: nobody is woken.
BroadcastNobody ==
  /\ SignalStep("broadcast", "join")
  /\ UNCHANGED <<process, loopStop, bIsRunning, pWorkList, hpc, disk>>

\* DestroyHandler wakes the handler threads
Broadcast ==
  /\ SignalStep("broadcast", "join")
  /\ hpc' = [h \in Handlers |-> IF hpc[h] = "waiting" THEN "top" ELSE hpc[h]]
  /\ UNCHANGED <<process, loopStop, bIsRunning, pWorkList, disk>>

\* Mutant of JoinHandlers: the threads are not waited for.
JoinNobody ==
  /\ SignalStep("join", "delete")
  /\ UNCHANGED <<process, loopStop, bIsRunning, pWorkList, hpc, disk>>

JoinHandlers ==
  /\ SignalStep("join", "delete")
  /\ \A h \in Handlers : hpc[h] = "exited"
  /\ UNCHANGED <<process, loopStop, bIsRunning, pWorkList, hpc, disk>>

\* What is queued is dropped.  The list is followed through elements already
\* freed, which works or does not.
DeleteWorkList ==
  /\ SignalStep("delete", "flush")
  /\ pWorkList' = <<>>
  /\ \/ process' = process
     \/ pWorkList # <<>> /\ process' = "crashed"
  /\ UNCHANGED <<loopStop, bIsRunning, hpc, disk>>

\* sstmanager_flush in CloseMsgHandler: the tables that are full are left to
\* the pool, which writes them at any time until it is destroyed.
Flush ==
  /\ SignalStep("flush", "close")
  /\ disk' \in {kept \in SUBSET store : disk \subseteq kept}
  /\ UNCHANGED <<process, loopStop, bIsRunning, pWorkList, hpc>>

\* sstmanager_close, which waits for the jobs of the pool
Close ==
  /\ SignalStep("close", "exit")
  /\ disk' = store
  /\ UNCHANGED <<process, loopStop, bIsRunning, pWorkList, hpc>>

\* exit(-1)
Exit ==
  /\ SignalStep("exit", "done")
  /\ process' = "exited"
  /\ UNCHANGED <<loopStop, bIsRunning, pWorkList, hpc, disk>>

-----------------------------------------------------------------------------
ClientReturn(c) ==
  PutReturn(c) \/ PutAssertFails(c) \/ GetReturn(c) \/ GetAborts(c) \/ ReceivePart(c)

ClientNext(c) ==
  Connect(c) \/ Put(c) \/ Get(c) \/ ClientReturn(c) \/ DeleteClient(c)

HandlerNext(h) ==
  \/ HandlerExit(h) \/ HandlerWait(h) \/ GetWork(h)
  \/ MsgHandler(h) \/ PutForever(h) \/ MsgHandlerDefault(h) \/ MsgHandlerAssertFails(h)
  \/ SendReply(h) \/ SelectReturns(h)

\* what a handler thread may do and need not
HandlerMay(h) == SpuriousWakeup(h) \/ SendBlocks(h) \/ SendReplyForever(h)

Loop == SignalHandler \/ \E c \in Clients : EchoRead(c) \/ EchoReadPart(c)

Signal ==
  \/ StopHandler \/ DeleteLoop \/ Broadcast \/ JoinHandlers \/ DeleteWorkList
  \/ Flush \/ Close \/ Exit

Wedged == \E h \in Handlers : hpc[h] \in {"wedged", "repeating"}
Blocked == \E h \in Handlers : hpc[h] = "blocked"

\* the server has ended, or waits for a thread that spins or is blocked
Stopped ==
  /\ ~Up \/ Wedged \/ Blocked
  /\ UNCHANGED vars

Next ==
  \/ \E c \in Clients : ClientNext(c)
  \/ Loop \/ MainReturns
  \/ \E h \in Handlers : HandlerNext(h) \/ HandlerMay(h)
  \/ StopLoop \/ Signal
  \/ Stopped

Spec == Init /\ [][Next]_vars

(****************************************************************************)
(* The threads of the server keep running; that the loop reads every        *)
(* connection in turn is not needed where the calls are bounded.  Nobody    *)
(* has to call, no signal has to come, and nothing wakes the loop for       *)
(* uv_stop's sake.                                                          *)
(****************************************************************************)
Fairness ==
  /\ \A h \in Handlers : WF_vars(HandlerNext(h))
  /\ WF_vars(Loop)
  /\ WF_vars(Signal)

FairSpec == Spec /\ Fairness

-----------------------------------------------------------------------------
(* Properties *)

Working == {"handling", "sending", "blocked"}

\* Every value the variables can hold; a handler has work while it works,
\* and a reply while it sends; a piece of work is never empty.
TypeOK ==
  /\ toServer \in [Clients -> Seq(Request)]
  /\ toClient \in [Clients -> Seq(Reply)]
  /\ cpc \in [Clients -> {"new", "idle", "put", "get", "closed", "aborted"}]
  /\ calls \in [Clients -> Ids \cup {0}]
  /\ asked \in [Clients -> Request \cup {NULL}]
  /\ answer \in [Clients -> Reply \cup {NULL}]
  /\ late \subseteq Clients /\ split \subseteq Clients
  /\ process \in {"up", "returned", "exited", "aborted", "crashed"}
  /\ lpc \in {"poll", "signal", "returned"}
  /\ loopStop \in BOOLEAN /\ bIsRunning \in BOOLEAN
  /\ pWorkList \in Seq(Work)
  /\ hpc \in [Handlers -> Working \cup {"top", "waiting", "repeating", "wedged", "ended",
                                      "exited"}]
  /\ hwork \in [Handlers -> Work \cup {NULL}]
  /\ reply \in [Handlers -> Reply \cup {NULL}]
  /\ \A h \in Handlers :
       /\ hpc[h] \in Working => hwork[h] # NULL
       /\ hpc[h] \in {"sending", "blocked"} => reply[h] # NULL
  /\ spc \in {"none", "stop", "destroy", "broadcast", "join", "delete", "flush",
              "close", "exit", "done"}
  /\ store \subseteq Keys /\ disk \subseteq store
  /\ head \in {"NONE", "UNOPEN", "READ", "WRITE"}

\* Reply s answers bytes behind those that r answers.
Before(r, s) == r.id < s.id \/ (r.id = s.id /\ r.part = "first" /\ s.part = "rest")

\* With one handler thread the replies of a connection come back in the order
\* of its requests, none twice, also when the client stopped waiting for some
\* and when requests were read in parts, each of which has a reply of its own.
RepliesInOrder ==
  \A c \in Clients : \A i \in 1..Len(toClient[c]) :
    /\ answer[c] # NULL => Before(answer[c], toClient[c][i])
    /\ \A j \in 1..(i - 1) : Before(toClient[c][j], toClient[c][i])

\* A client that never timed out has the reply of its own request, and its put
\* returned 0 only if the data are in a table, also where messages were read in
\* parts.  A client that did time out may take the reply of the earlier call
\* for the answer.
AnswersAreTrue ==
  \A c \in Clients \ late : cpc[c] = "idle" /\ answer[c] # NULL =>
    /\ answer[c].id = asked[c].id
    /\ answer[c].type = asked[c].type
    /\ (answer[c].type = "put" /\ answer[c].nRet = 0) => asked[c].key \in store

\* An assertion of Message.c fails in a client only after a timeout, when one of
\* its messages was read in parts, or on the reply of a get that found nothing;
\* and in the server only after a timeout or when a request came in parts.
AssertsNeedCause ==
  /\ \A c \in Clients : cpc[c] = "aborted" =>
       \/ c \in late \cup split
       \/ answer[c].type = "get" /\ asked[c].type = "get" /\ ~answer[c].found
  /\ process = "aborted" => late \cup split # {}

\* A signal in the middle of any call: when SignalFunc reaches exit, every put
\* a handler made is on disk, also those made after the signal.
ExitKeepsPuts == process = "exited" => disk = store

\* Request n of client c is in the server, or on its way to it.
Pending(c, n) ==
  \/ \E i \in 1..Len(toServer[c]) : toServer[c][i].id = n
  \/ \E work \in {pWorkList[i] : i \in 1..Len(pWorkList)}
                 \cup {hwork[h] : h \in {g \in Handlers : hwork[g] # NULL}} :
       work.client = c /\ \E i \in 1..Len(work.reqs) : work.reqs[i].id = n

\* No request waits for ever in a server that runs, but for three reasons: a put
\* after a restart that never returns, a reply to a client that has closed its
\* connection, or a handler blocked for ever on one that does not read.
RequestsHandled ==
  \A c \in Clients : \A n \in 1..MaxCalls[c] :
    Pending(c, n) ~> ~Pending(c, n) \/ ~Up \/ ~bIsRunning \/ Wedged \/ []Blocked

\* The shutdown does not wait for ever for a handler thread that sleeps, but only
\* for one that never comes back from its put or its reply.
JoinReturns == spc = "join" ~> spc # "join" \/ ~Up \/ Wedged \/ []Blocked

\* An assertion fails in no client that was answered in time and in one piece: a
\* get of a key that is not there returns NULL.
MissesParse == \A c \in Clients : cpc[c] = "aborted" => c \in late \cup split
===============================================================================
