---------------------------- MODULE ClientSession ----------------------------
(***************************************************************************)
(* One run of the command line client (src/src/client/client.c) over the    *)
(* client library (serverApi.c, utils.c), and the worker that serves its    *)
(* connection (controller.c): which end writes how much to the socket, and  *)
(* which read takes it.                                                     *)
(*                                                                         *)
(* The socket is two bounded streams of units.  A Request or Response is    *)
(* one unit, since an AF_UNIX socket delivers a write of that size whole;   *)
(* the contents of a file are as many units Data as the file is long, and   *)
(* a read may find only the first of them there.                            *)
(*                                                                         *)
(* The storage is abstracted to what it may decide (FileServer is about     *)
(* how it does): an operation succeeds or fails, a file has some size.      *)
(*                                                                         *)
(* The client's point cpc:                    The worker's point spc:       *)
(*   connecting  in openConnection              queued    not popped yet    *)
(*   idle        between two calls              reading   read(Request)     *)
(*   answer      read of the first Response     lockQueue, handle, lockWait *)
(*   victim      reads the expelled file        reply     a last Response   *)
(*   second      read of the second Response    reject    the same, keeping *)
(*   upload      writes the contents                      file_queue_mutex  *)
(*   final       read of the last Response      content   sends a file      *)
(*   content     reads a file                   makeRoom, announce, victim, *)
(*   spin        readData at the end of file    checkLock, receive, store   *)
(*   failed, exited, killed                     gone      ended             *)
(*   lost        took data for a Response       lost      took data for a   *)
(*                                                        Request, or back  *)
(***************************************************************************)
EXTENDS Integers, Sequences, SequencesExt

CONSTANTS
    Options,   \* the options the client may be given, see CallsOf
    Sizes,     \* sizes of files, in units
    MaxList,   \* the most names "read n files" finds (a bound of the model)
    Buffer,    \* the units one direction of the socket holds
    Data,      \* a unit of the contents of a file
    Crashes,   \* whether the server process may end
    Pause,     \* msec / 1000 of openConnection: the seconds between attempts
    abstime,   \* the seconds openConnection is given
    Slack      \* how much longer than Pause a sleep may last (a bound)

Ops == {"OP_OPEN_FILE", "OP_LOCK_FILE", "OP_UNLOCK_FILE", "OP_DELETE_FILE",
        "OP_CLOSE_FILE", "OP_READ_FILE", "OP_READ_N_FILES", "OP_WRITE_FILE",
        "OP_APPEND_FILE"}

Request  == [op : Ops, flags : SUBSET {"O_CREATE", "O_LOCK"}, n : Sizes]

\* For "read n files" the status is the number of names in the message.
Response == [status : -1..MaxList, n : Sizes]

ASSUME SessionAssumption ==
    /\ Options \subseteq {"W", "r", "R", "l", "u", "c", "append", "close"}
    /\ 0 \in Sizes /\ Sizes \subseteq Nat
    /\ MaxList \in Nat \ {0}
    /\ Buffer \in Nat \ {0}
    /\ Data \notin Request \cup Response
    /\ Crashes \in BOOLEAN
    /\ Pause \in Nat \ {0} /\ abstime \in Nat /\ Slack \in Nat

VARIABLES
    socketFile,  \* what the path names: see Listens
    cpc,         \* the point the client is at
    todo,        \* the calls of the current option still to be made
    call,        \* the request of the current, or last, call
    cleft,       \* units of a content the client has yet to read or write
    ret,         \* what the last call returned
    elapsed,     \* seconds since openConnection started
    tries,       \* attempts it made
    spc,         \* the point the worker is at
    request,     \* the request it serves
    status,      \* the status code it is about to answer with
    sleft,       \* units of a content it has yet to read or write
    keeps,       \* it went back to reading with file_queue_mutex locked
    toServer,    \* the two directions of the socket
    toClient,
    reset,       \* the client's next read meets ECONNRESET
    outcome,     \* history: what the storage decided on the current call
    misread      \* history: a read took too little, or an empty content was
                 \* taken for an error

connection == <<socketFile, elapsed, tries>>
clientVars == <<cpc, todo, call, cleft, ret>>
serverVars == <<spc, request, status, sleft, keeps>>
streams    == <<toServer, toClient>>
history    == <<outcome, misread>>

vars == <<connection, clientVars, serverVars, streams, reset, history>>

InCall == {"answer", "victim", "second", "upload", "final", "content", "spin"}

TypeOK ==
    /\ socketFile \in {"stale", "absent", "bound", "listening"}
    /\ cpc \in InCall \cup {"connecting", "idle", "failed", "exited", "killed",
                            "lost"}
    /\ todo \in Seq(Request)
    /\ call \in Request
    /\ cleft \in Nat
    /\ ret \in -1..MaxList
    /\ elapsed \in Nat
    /\ tries \in Nat
    /\ spc \in {"queued", "reading", "lockQueue", "handle", "lockWait", "reply",
                "reject", "content", "makeRoom", "announce", "victim",
                "checkLock", "receive", "store", "gone", "lost"}
    /\ request \in Request
    /\ status \in -1..MaxList
    /\ sleft \in Nat
    /\ keeps \in BOOLEAN
    /\ toServer \in Seq(Request \cup {Data})
    /\ toClient \in Seq(Response \cup {Data})
    /\ Len(toServer) <= Buffer /\ Len(toClient) <= Buffer
    /\ reset \in BOOLEAN
    /\ outcome \in {"pending", "ok", "empty", "fail"}
    /\ misread \in BOOLEAN

-----------------------------------------------------------------------------
(* The calls of client.c                                                   *)

Rq(o, fl, n) == [op |-> o, flags |-> fl, n |-> n]

\* What each option does with one of its files; "append" and "close" stand
\* for programs that use those functions of the library, which client.c does
\* not.
CallsOf(option) ==
    CASE option = "W" -> {<<Rq("OP_OPEN_FILE", {"O_CREATE", "O_LOCK"}, 0),
                            Rq("OP_WRITE_FILE", {}, n),
                            Rq("OP_UNLOCK_FILE", {}, 0)>> : n \in Sizes}
      [] option = "r" -> {<<Rq("OP_OPEN_FILE", {"O_LOCK"}, 0),
                            Rq("OP_READ_FILE", {}, 0),
                            Rq("OP_UNLOCK_FILE", {}, 0)>>}
      [] option = "R" -> {<<Rq("OP_READ_N_FILES", {}, 0)>>}
      [] option = "l" -> {<<Rq("OP_LOCK_FILE", {}, 0)>>}
      [] option = "u" -> {<<Rq("OP_UNLOCK_FILE", {}, 0)>>}
      [] option = "c" -> {<<Rq("OP_LOCK_FILE", {}, 0),
                            Rq("OP_DELETE_FILE", {}, 0)>>}
      [] option = "append" -> {<<Rq("OP_APPEND_FILE", {}, n)>> : n \in Sizes}
      [] option = "close"  -> {<<Rq("OP_CLOSE_FILE", {}, 0)>>}

\* sendRequest looks at no status: these calls return 0 when answered.
Blind == {"OP_LOCK_FILE", "OP_UNLOCK_FILE", "OP_DELETE_FILE", "OP_CLOSE_FILE"}

\* What a variable holds that is out of scope.
NoCall == Rq("OP_OPEN_FILE", {}, 0)

Init ==
    /\ socketFile \in {"stale", "absent"}
    /\ cpc = "connecting"
    /\ todo = << >>
    /\ call = NoCall
    /\ cleft = 0
    /\ ret = 0
    /\ elapsed = 0
    /\ tries = 0
    /\ spc = "queued"
    /\ request = NoCall
    /\ status = 0
    /\ sleft = 0
    /\ keeps = FALSE
    /\ toServer = << >>
    /\ toClient = << >>
    /\ reset = FALSE
    /\ outcome = "pending"
    /\ misread = FALSE

-----------------------------------------------------------------------------
(* openConnection                                                          *)

\* main of the server unlinks an old socket, binds and listens.
Unlink ==
    /\ socketFile = "stale"
    /\ socketFile' = "absent"
    /\ UNCHANGED <<elapsed, tries, clientVars, serverVars, streams, reset,
                   history>>

Bind ==
    /\ socketFile = "absent"
    /\ socketFile' = "bound"
    /\ UNCHANGED <<elapsed, tries, clientVars, serverVars, streams, reset,
                   history>>

Listen ==
    /\ socketFile = "bound"
    /\ socketFile' = "listening"
    /\ UNCHANGED <<elapsed, tries, clientVars, serverVars, streams, reset,
                   history>>

Connected ==
    /\ cpc = "connecting"
    /\ socketFile = "listening"
    /\ cpc' = "idle"
    /\ elapsed' = 0 /\ tries' = 0
    /\ UNCHANGED <<socketFile, todo, call, cleft, ret, serverVars, streams,
                   reset, history>>

\* Fault: the time that has passed is not looked at.
RefusedForEver ==
    /\ cpc = "connecting"
    /\ socketFile \in {"stale", "bound"}
    /\ \E late \in 0..Slack : elapsed' = elapsed + Pause + late
    /\ tries' = tries + 1
    /\ UNCHANGED <<socketFile, clientVars, serverVars, streams, reset, history>>

\* ECONNREFUSED: sleep and try again.
Refused ==
    /\ cpc = "connecting"
    /\ socketFile \in {"stale", "bound"}
    /\ elapsed <= abstime
    /\ \E late \in 0..Slack : elapsed' = elapsed + Pause + late
    /\ tries' = tries + 1
    /\ UNCHANGED <<socketFile, clientVars, serverVars, streams, reset, history>>

\* The time is over, or the error is another one (there is no such path).
GiveUp ==
    /\ cpc = "connecting"
    /\ socketFile # "listening"
    /\ elapsed > abstime \/ socketFile = "absent"
    /\ cpc' = "failed"
    /\ tries' = tries + 1
    /\ UNCHANGED <<socketFile, elapsed, todo, call, cleft, ret, serverVars,
                   streams, reset, history>>

Connecting == Connected \/ Refused \/ GiveUp

-----------------------------------------------------------------------------
(* The client's side of a call                                             *)

ServerEnded == spc = "gone"

\* A unit is put on a stream that has room.
ToServer(unit) == Len(toServer) < Buffer /\ toServer' = Append(toServer, unit)
ToClient(unit) == Len(toClient) < Buffer /\ toClient' = Append(toClient, unit)

\* The getopt loop takes the next option.
TakeOption(option) ==
    /\ cpc = "idle"
    /\ todo = << >>
    /\ todo' \in CallsOf(option)
    /\ UNCHANGED <<connection, cpc, call, cleft, ret, serverVars, streams,
                   reset, history>>

Invoke ==
    /\ cpc = "idle"
    /\ todo # << >>
    /\ ~ServerEnded
    /\ ToServer(Head(todo))
    /\ call' = Head(todo)
    /\ todo' = Tail(todo)
    /\ cpc' = "answer"
    /\ outcome' = "pending"
    /\ UNCHANGED <<connection, cleft, ret, serverVars, toClient, reset,
                   misread>>

\* SIGPIPE: a write to a socket whose other end is closed.
WriteToNobody ==
    /\ \/ cpc = "idle" /\ todo # << >>
       \/ cpc = "upload"
    /\ ServerEnded
    /\ cpc' = "killed"
    /\ UNCHANGED <<connection, todo, call, cleft, ret, serverVars, streams,
                   reset, history>>

CloseConnection ==
    /\ cpc = "idle"
    /\ todo = << >>
    /\ cpc' = "exited"
    /\ UNCHANGED <<connection, todo, call, cleft, ret, serverVars, streams,
                   reset, history>>

\* A call returns r.  client.c skips the rest of an option whose open failed.
Returns(r) ==
    /\ cpc' = "idle"
    /\ ret' = r
    /\ cleft' = 0
    /\ todo' = IF call.op = "OP_OPEN_FILE" /\ r = -1 THEN << >> ELSE todo

Goes(label, n) ==
    /\ cpc' = label
    /\ cleft' = n
    /\ UNCHANGED <<todo, ret>>

\* waitServerFile and readData of a content of n units.  Of an empty one
\* readData returns a value it never set, -1 for all we know.
ReadsContent(n) ==
    IF n > 0 THEN Goes("content", n) ELSE \E r \in {-1, 0} : Returns(r)

\* readNFiles calls readFile once for each name.
ReadsNames(k) ==
    /\ cpc' = "idle"
    /\ ret' = 0
    /\ cleft' = 0
    /\ todo' = [i \in 1..k |-> Rq("OP_READ_FILE", {}, 0)] \o todo

\* What the library does with the first Response.
Answered(s, n) ==
    \/ call.op \in Blind /\ Returns(0)
    \/ call.op = "OP_OPEN_FILE" /\ Returns(s)
    \/ call.op \notin Blind \cup {"OP_OPEN_FILE"} /\ s = -1 /\ Returns(-1)
    \/ call.op = "OP_READ_FILE" /\ s # -1 /\ ReadsContent(n)
    \/ call.op = "OP_READ_N_FILES" /\ s # -1 /\ ReadsNames(s)
    \/ /\ call.op \in {"OP_WRITE_FILE", "OP_APPEND_FILE"}
       /\ s # -1
       /\ IF s = 1 THEN Goes("victim", n) ELSE Goes("upload", call.n)

ReadAnswer ==
    /\ cpc = "answer"
    /\ toClient # << >>
    /\ Head(toClient) # Data
    /\ Answered(Head(toClient).status, Head(toClient).n)
    /\ toClient' = Tail(toClient)
    /\ UNCHANGED <<connection, call, serverVars, toServer, reset, history>>

\* writeFile reads the expelled file to its end; the value readData returns
\* for an empty one is not set, and -1 makes writeFile return.
ReadVictim ==
    /\ cpc = "victim"
    /\ call.op = "OP_WRITE_FILE"
    /\ IF cleft = 0
       THEN /\ \/ Goes("second", 0) /\ UNCHANGED misread
               \/ Returns(-1) /\ misread' = TRUE
            /\ UNCHANGED toClient
       ELSE /\ toClient # << >>
            /\ Head(toClient) = Data
            /\ toClient' = Tail(toClient)
            /\ Goes(IF cleft = 1 THEN "second" ELSE "victim", cleft - 1)
            /\ UNCHANGED misread
    /\ UNCHANGED <<connection, call, serverVars, toServer, reset, outcome>>

\* The length of the content that has arrived at the head of a stream.
Arrived(s) == CHOOSE k \in 0..Len(s) :
                 /\ \A i \in 1..k : s[i] = Data
                 /\ k < Len(s) => s[k + 1] # Data

\* appendToFile reads it with one read(), which returns what is there.
ReadVictimOnce ==
    /\ cpc = "victim"
    /\ call.op = "OP_APPEND_FILE"
    /\ cleft > 0 => toClient # << >> /\ Head(toClient) = Data
    /\ \E k \in {Min({cleft, Arrived(toClient)})} :
          /\ toClient' = SubSeq(toClient, k + 1, Len(toClient))
          /\ misread' = (misread \/ k < cleft)
    /\ Goes("second", 0)
    /\ UNCHANGED <<connection, call, serverVars, toServer, reset, outcome>>

\* Fault: the Response after the expelled file is not waited for.
ReadNoSecond ==
    /\ cpc = "second"
    /\ Goes("upload", call.n)
    /\ UNCHANGED <<connection, call, serverVars, streams, reset, history>>

ReadSecond ==
    /\ cpc = "second"
    /\ toClient # << >>
    /\ Head(toClient) # Data
    /\ IF Head(toClient).status = -1 THEN Returns(-1)
       ELSE Goes("upload", call.n)
    /\ toClient' = Tail(toClient)
    /\ UNCHANGED <<connection, call, serverVars, toServer, reset, history>>

\* One write(), which blocks while the socket is full.
Upload ==
    /\ cpc = "upload"
    /\ ~ServerEnded
    /\ IF cleft = 0 THEN Goes("final", 0) /\ UNCHANGED toServer
       ELSE /\ ToServer(Data)
            /\ Goes(IF cleft = 1 THEN "final" ELSE "upload", cleft - 1)
    /\ UNCHANGED <<connection, call, serverVars, toClient, reset, history>>

\* Fault: the status of the last Response is not looked at.
ReadFinalUnseen ==
    /\ cpc = "final"
    /\ toClient # << >>
    /\ Head(toClient) # Data
    /\ Returns(0)
    /\ toClient' = Tail(toClient)
    /\ UNCHANGED <<connection, call, serverVars, toServer, reset, history>>

ReadFinal ==
    /\ cpc = "final"
    /\ toClient # << >>
    /\ Head(toClient) # Data
    /\ Returns(Head(toClient).status)
    /\ toClient' = Tail(toClient)
    /\ UNCHANGED <<connection, call, serverVars, toServer, reset, history>>

ReadContent ==
    /\ cpc = "content"
    /\ toClient # << >>
    /\ Head(toClient) = Data
    /\ toClient' = Tail(toClient)
    /\ IF cleft = 1 THEN Returns(0) ELSE Goes("content", cleft - 1)
    /\ UNCHANGED <<connection, call, serverVars, toServer, reset, history>>

\* The two ends disagree: contents are taken for a Response, or a Response
\* for contents.  What follows is not modelled.
ClientLost ==
    /\ toClient # << >>
    /\ \/ cpc \in {"answer", "second", "final"} /\ Head(toClient) = Data
       \/ cpc \in {"victim", "content"} /\ cleft > 0 /\ Head(toClient) # Data
    /\ Goes("lost", 0)
    /\ UNCHANGED <<connection, call, serverVars, streams, reset, history>>

-----------------------------------------------------------------------------
(* The client's side when the server has closed the socket                 *)

EndOfFile == ServerEnded /\ toClient = << >>

\* The kernel reports unread bytes at the closed end once, as ECONNRESET.
ReadAnswerReset ==
    /\ cpc = "answer"
    /\ EndOfFile
    /\ reset
    /\ reset' = FALSE
    /\ Returns(-1)
    /\ UNCHANGED <<connection, call, serverVars, streams, history>>

\* read() returns 0, which is not -1: a Response nobody wrote is looked at.
ReadAnswerEnd ==
    /\ cpc = "answer"
    /\ EndOfFile
    /\ ~reset
    /\ \E s \in -1..1, n \in Sizes : Answered(s, n)
    /\ UNCHANGED <<connection, call, serverVars, streams, reset, history>>

\* readData does not look for the end; the read() of an append and the
\* second one of both are not looked at either, and the status is still 1.
ReadVictimEnd ==
    /\ cpc = "victim"
    /\ cleft > 0
    /\ EndOfFile
    /\ Goes(IF call.op = "OP_WRITE_FILE" THEN "spin" ELSE "second", 0)
    /\ UNCHANGED <<connection, call, serverVars, streams, reset, history>>

ReadSecondEnd ==
    /\ cpc = "second"
    /\ EndOfFile
    /\ Goes("upload", call.n)
    /\ UNCHANGED <<connection, call, serverVars, streams, reset, history>>

\* The status is that of the Response before, 0; only appendToFile notices
\* an end of file.
ReadFinalEnd ==
    /\ cpc = "final"
    /\ EndOfFile
    /\ Returns(IF call.op = "OP_APPEND_FILE" /\ ~reset THEN -1 ELSE 0)
    /\ reset' = FALSE
    /\ UNCHANGED <<connection, call, serverVars, streams, history>>

ReadContentEnd ==
    /\ cpc = "content"
    /\ EndOfFile
    /\ Goes("spin", 0)
    /\ UNCHANGED <<connection, call, serverVars, streams, reset, history>>

AtEndOfFile ==
    \/ ReadAnswerReset \/ ReadAnswerEnd \/ ReadVictimEnd \/ ReadSecondEnd
    \/ ReadFinalEnd \/ ReadContentEnd

-----------------------------------------------------------------------------
(* The worker                                                              *)

Goto(label) == spc' = label

\* The connection is popped from connectionQueue (Dispatch).
Pop ==
    /\ spc = "queued"
    /\ cpc # "connecting" /\ cpc # "failed"
    /\ Goto("reading")
    /\ UNCHANGED <<connection, clientVars, request, status, sleft, keeps,
                   streams, reset, history>>

TakeRequest ==
    /\ spc = "reading"
    /\ toServer # << >>
    /\ Head(toServer) # Data
    /\ request' = Head(toServer)
    /\ toServer' = Tail(toServer)
    /\ Goto("lockQueue")
    /\ UNCHANGED <<connection, clientVars, status, sleft, keeps, toClient,
                   reset, history>>

\* The client has closed, or was killed.
ReadEnd ==
    /\ spc = "reading"
    /\ toServer = << >>
    /\ cpc \in {"exited", "killed"}
    /\ Goto("gone")
    /\ UNCHANGED <<connection, clientVars, request, status, sleft, keeps,
                   streams, reset, history>>

\* The process ends, or after SIGINT the worker throws a request away and
\* closes: what the client has not read yet it still can.
EndServer ==
    /\ Crashes
    /\ spc # "gone"
    /\ Goto("gone")
    /\ request' = NoCall /\ status' = 0 /\ sleft' = 0 /\ keeps' = FALSE
    /\ \/ /\ reset' = (toServer # << >>)
          /\ toServer' = << >>
       \/ /\ spc = "reading" /\ toServer # << >>
          /\ reset' = (Len(toServer) > 1)
          /\ toServer' = << >>
    /\ UNCHANGED <<connection, clientVars, toClient, history>>

\* file_queue_mutex is granted, never if this worker kept it itself.  Nor need
\* it ever be if another one keeps it: after an early return there, or while
\* readData waits for a client that has died.  So it is a step of Next and
\* not one that the worker takes by itself.
LockQueue ==
    /\ spc = "lockQueue"
    /\ ~keeps
    /\ Goto(IF request.op \in {"OP_WRITE_FILE", "OP_APPEND_FILE"}
            THEN "makeRoom" ELSE "handle")
    /\ UNCHANGED <<connection, clientVars, request, status, sleft, keeps,
                   streams, reset, history>>

\* A lock waiter of another connection unlocks what it does not hold.
StrayUnlock ==
    /\ keeps
    /\ keeps' = FALSE
    /\ UNCHANGED <<connection, clientVars, spc, request, status, sleft,
                   streams, reset, history>>

\* The handler returns to the worker's loop; its locals are gone.
HandlerReturns ==
    /\ Goto("reading")
    /\ request' = NoCall
    /\ status' = 0

\* A Response of status s goes out, with n units of content to follow it.
Responds(s, n) == ToClient([status |-> s, n |-> n])

\* The storage decides; the handler is about to answer s.
Decides(result, s) == outcome' = result /\ status' = s

\* open, lock, unlock, delete and close; the last two answer 0 either way.
Handle ==
    /\ spc = "handle"
    /\ request.op \in Blind \cup {"OP_OPEN_FILE"}
    /\ \E result \in {"ok", "fail"} :
          Decides(result, IF /\ result = "fail"
                             /\ request.op # "OP_DELETE_FILE"
                             /\ request.op # "OP_CLOSE_FILE"
                          THEN -1 ELSE 0)
    /\ Goto("reply")
    /\ UNCHANGED <<connection, clientVars, request, sleft, keeps, streams,
                   reset, misread>>

\* The lock wait of open and lock.
MayWait == \/ request.op = "OP_LOCK_FILE"
           \/ request.op = "OP_OPEN_FILE" /\ request.flags = {"O_LOCK"}

WaitForLock ==
    /\ spc = "handle"
    /\ MayWait
    /\ Goto("lockWait")
    /\ UNCHANGED <<connection, clientVars, request, status, sleft, keeps,
                   streams, reset, history>>

WakeUp ==
    /\ spc = "lockWait"
    /\ Goto("handle")
    /\ UNCHANGED <<connection, clientVars, request, status, sleft, keeps,
                   streams, reset, history>>

HandleRead ==
    /\ spc = "handle"
    /\ request.op = "OP_READ_FILE"
    /\ \/ /\ Decides("fail", -1)
          /\ sleft' = 0
       \/ \E n \in Sizes : /\ Decides(IF n = 0 THEN "empty" ELSE "ok", 0)
                           /\ sleft' = n
    /\ Goto("reply")
    /\ UNCHANGED <<connection, clientVars, request, keeps, streams, reset,
                   misread>>

\* A list of no names takes the early return.
HandleReadN ==
    /\ spc = "handle"
    /\ request.op = "OP_READ_N_FILES"
    /\ \/ Decides("fail", -1) /\ Goto("reject")
       \/ \E k \in 1..MaxList : Decides("ok", k) /\ Goto("reply")
    /\ UNCHANGED <<connection, clientVars, request, sleft, keeps, streams,
                   reset, misread>>

Reply ==
    /\ spc = "reply"
    /\ Responds(status, sleft)
    /\ IF sleft = 0 THEN HandlerReturns
       ELSE Goto("content") /\ UNCHANGED <<request, status>>
    /\ UNCHANGED <<connection, clientVars, sleft, keeps, toServer, reset,
                   history>>

\* The early return: the answer is sent, file_queue_mutex stays locked.
Reject ==
    /\ spc = "reject"
    /\ Responds(-1, 0)
    /\ keeps' = TRUE
    /\ HandlerReturns
    /\ UNCHANGED <<connection, clientVars, sleft, toServer, reset, history>>

SendContent ==
    /\ spc = "content"
    /\ ToClient(Data)
    /\ sleft' = sleft - 1
    /\ IF sleft = 1 THEN HandlerReturns ELSE UNCHANGED <<spc, request, status>>
    /\ UNCHANGED <<connection, clientVars, keeps, toServer, reset, history>>

-----------------------------------------------------------------------------
(* write_file_controller and append_file_controller                        *)

\* There is room, or a file of some size is expelled; an uninitialised victim
\* may be an empty file.  Only a write is refused for its size.
MakeRoom ==
    /\ spc = "makeRoom"
    /\ \/ /\ request.op = "OP_WRITE_FILE" /\ request.n > 0
          /\ Decides("fail", -1)
          /\ sleft' = 0
          /\ Goto("reject")
       \/ /\ sleft' = 0
          /\ Goto("checkLock")
          /\ UNCHANGED <<status, outcome>>
       \/ /\ request.n > 0
          /\ sleft' \in Sizes
          /\ Goto("announce")
          /\ UNCHANGED <<status, outcome>>
    /\ UNCHANGED <<connection, clientVars, request, keeps, streams, reset,
                   misread>>

\* Fault: a content is written by a loop that tests at its end.
AnnounceAnyVictim ==
    /\ spc = "announce"
    /\ Responds(1, sleft)
    /\ Goto("victim")
    /\ UNCHANGED <<connection, clientVars, request, status, sleft, keeps,
                   toServer, reset, history>>

AnnounceVictim ==
    /\ spc = "announce"
    /\ Responds(1, sleft)
    /\ Goto(IF sleft > 0 THEN "victim" ELSE "checkLock")
    /\ UNCHANGED <<connection, clientVars, request, status, sleft, keeps,
                   toServer, reset, history>>

SendVictim ==
    /\ spc = "victim"
    /\ ToClient(Data)
    /\ sleft' = sleft - 1
    /\ Goto(IF sleft = 1 THEN "checkLock" ELSE "victim")
    /\ UNCHANGED <<connection, clientVars, request, status, keeps, toServer,
                   reset, history>>

CheckLock ==
    /\ spc = "checkLock"
    /\ \/ /\ Responds(0, 0)
          /\ sleft' = request.n
          /\ Goto("receive")
          /\ UNCHANGED <<request, status, outcome>>
       \/ /\ Responds(-1, 0)
          /\ outcome' = "fail"
          /\ HandlerReturns
          /\ UNCHANGED sleft
    /\ UNCHANGED <<connection, clientVars, keeps, toServer, reset, misread>>

\* readData of a write.  Of an empty file it returns a value that was never
\* set; if that is -1 nothing is stored and nothing is answered.
Receive ==
    /\ spc = "receive"
    /\ request.op = "OP_WRITE_FILE"
    /\ IF sleft = 0
       THEN /\ \/ Goto("store") /\ UNCHANGED <<request, status, outcome>>
               \/ HandlerReturns /\ outcome' = "fail"
            /\ UNCHANGED <<toServer, sleft>>
       ELSE /\ toServer # << >>
            /\ Head(toServer) = Data
            /\ toServer' = Tail(toServer)
            /\ sleft' = sleft - 1
            /\ Goto(IF sleft = 1 THEN "store" ELSE "receive")
            /\ UNCHANGED <<request, status, outcome>>
    /\ UNCHANGED <<connection, clientVars, keeps, toClient, reset, misread>>

\* The single read() of an append.
ReceiveOnce ==
    /\ spc = "receive"
    /\ request.op = "OP_APPEND_FILE"
    /\ sleft > 0 => toServer # << >> /\ Head(toServer) = Data
    /\ \E k \in {Min({sleft, Arrived(toServer)})} :
          /\ toServer' = SubSeq(toServer, k + 1, Len(toServer))
          /\ misread' = (misread \/ k < sleft)
    /\ sleft' = 0
    /\ Goto("store")
    /\ UNCHANGED <<connection, clientVars, request, status, keeps, toClient,
                   reset, outcome>>

\* Fault: a store that fails is not answered.
StoreUnanswered ==
    /\ spc = "store"
    /\ \/ Decides("ok", 0) /\ Goto("reply") /\ UNCHANGED request
       \/ outcome' = "fail" /\ HandlerReturns
    /\ UNCHANGED <<connection, clientVars, sleft, keeps, streams, reset,
                   misread>>

Store ==
    /\ spc = "store"
    /\ Decides("ok", 0) \/ Decides("fail", -1)
    /\ Goto("reply")
    /\ UNCHANGED <<connection, clientVars, request, sleft, keeps, streams,
                   reset, misread>>

ServerLost ==
    /\ toServer # << >>
    /\ \/ spc = "reading" /\ Head(toServer) = Data
       \/ spc = "receive" /\ sleft > 0 /\ Head(toServer) # Data
    /\ Goto("lost")
    /\ UNCHANGED <<connection, clientVars, request, status, sleft, keeps,
                   streams, reset, history>>

-----------------------------------------------------------------------------
ClientStep ==
    \/ Invoke \/ WriteToNobody \/ ReadAnswer \/ ReadVictim \/ ReadVictimOnce
    \/ ReadSecond \/ Upload \/ ReadFinal \/ ReadContent \/ AtEndOfFile
    \/ ClientLost

\* What the worker does by itself.
ServerStep ==
    \/ Pop \/ TakeRequest \/ ReadEnd \/ Handle \/ HandleRead \/ HandleReadN
    \/ Reply \/ Reject \/ SendContent \/ MakeRoom \/ AnnounceVictim
    \/ SendVictim \/ CheckLock \/ Receive \/ ReceiveOnce \/ Store \/ ServerLost

Next ==
    \/ Unlink \/ Bind \/ Listen \/ Connecting
    \/ \E option \in Options : TakeOption(option)
    \/ CloseConnection
    \/ ClientStep
    \/ ServerStep
    \/ LockQueue \/ WaitForLock \/ WakeUp \/ StrayUnlock \/ EndServer

Spec == Init /\ [][Next]_vars

\* Both processes are scheduled.  Nothing is assumed of the holder of a lock
\* or of file_queue_mutex, of other connections, or of what the user asks for
\* next.
Fairness ==
    /\ WF_vars(Connecting)
    /\ WF_vars(ClientStep)
    /\ WF_vars(ServerStep)

FairSpec == Spec /\ Fairness

-----------------------------------------------------------------------------
(* Safety                                                                  *)

\* Client and handler agree on which read takes which write: contents are
\* never taken for a header, and when a call has returned nothing is left in
\* the socket and the worker is back at its read.  Evictions, refusals and
\* lists send different numbers of messages.  The exceptions are in misread:
\* the single read() of an append (controller.c, serverApi.c) that finds only
\* a part of the data, and an expelled file of no bytes.
InStep ==
    ~misread =>
        /\ cpc # "lost" /\ spc # "lost"
        /\ cpc = "idle" /\ ~ServerEnded =>
              /\ toServer = << >> /\ toClient = << >>
              /\ spc \in {"queued", "reading"}

\* openConnection makes at most one attempt for each Pause of its time, and
\* two more: it stops, and late sleeps only make the attempts fewer.
AttemptsBounded == Pause * (tries - 1) <= abstime + Pause

Call == INSTANCE RemoteCall
        WITH op <- call.op,
             called <- cpc \in InCall,
             broken <- ServerEnded \/ misread

\* A call of the library returns the verdict of its own execution by the
\* server: no answer belongs to an earlier call, none is executed twice.
ImplementsRemoteCall == Call!Spec

\* "statusCode; 0 -> ok, -1 -> error" (common.h): a handler that failed does
\* not answer 0.
StatusTellsOutcome == spc = "reply" /\ outcome = "fail" => status = -1

-----------------------------------------------------------------------------
(* Liveness                                                                *)

\* A write of an empty file that the handler took for a failed read.
Unanswered == cpc = "final" /\ spc = "reading" /\ call.n = 0

\* The worker tests a lock again and again, or waits, and never gets it.
WaitsForLock == spc \in {"handle", "lockWait"} /\ MayWait

\* A call returns, although both directions of the socket are bounded and may
\* be full, unless the server has ended or the worker waits for ever: for the
\* lock of a file, or for file_queue_mutex.  A wait that ends is no excuse.
EveryCallReturns ==
    cpc \in InCall
    ~> \/ cpc \notin InCall
       \/ misread \/ ServerEnded \/ Unanswered
       \/ []WaitsForLock
       \/ [](spc = "lockQueue")

\* "Attendo risposta dal server": a request is answered, unless the lock of a
\* file is never given back, or another connection never gives
\* file_queue_mutex back.
EveryRequestAnswered ==
    cpc = "answer"
    ~> \/ cpc # "answer"
       \/ misread \/ ServerEnded
       \/ []WaitsForLock
       \/ [](spc = "lockQueue" /\ ~keeps)
=============================================================================
