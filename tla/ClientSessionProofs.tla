------------------------ MODULE ClientSessionProofs --------------------------
(***************************************************************************)
(* Theorems about one run of the client, for every size of a file and of    *)
(* the socket: that the two ends of the connection stay in step, that a     *)
(* call returns the verdict of its own execution, and, for every time       *)
(* limit, that openConnection stops.                                        *)
(***************************************************************************)
EXTENDS ClientSession, NaturalsLemmas, TLAPS

USE SessionAssumption DEF SessionAssumption

\* Each attempt was preceded by a sleep of at least Pause, and the last sleep
\* began before the time was over.
RetryInv ==
    /\ elapsed \in Nat /\ tries \in Nat
    /\ Pause * tries \in Nat
    /\ cpc = "connecting" => /\ Pause * tries <= elapsed
                             /\ Pause * tries <= abstime + Pause
    /\ Pause * tries <= abstime + 2 * Pause

\* Only openConnection counts attempts, and nothing goes back to it.
LEMMA OthersDoNotConnect ==
    ASSUME [Next]_vars, ~Connecting
    PROVE  /\ UNCHANGED <<elapsed, tries>>
           /\ cpc' = "connecting" => cpc = "connecting"
<1> USE DEF connection, clientVars
<1>1. ASSUME Unlink \/ Bind \/ Listen
      PROVE  UNCHANGED <<elapsed, tries, cpc>>
  BY <1>1 DEF Unlink, Bind, Listen
<1>2. ASSUME ServerStep PROVE UNCHANGED <<elapsed, tries, cpc>>
  BY <1>2 DEF ServerStep, Pop, TakeRequest, ReadEnd, Handle, HandleRead,
     HandleReadN, Reply, Reject, SendContent, MakeRoom,
     AnnounceVictim, SendVictim, CheckLock, Receive, ReceiveOnce, Store,
     ServerLost
<1>3. ASSUME LockQueue \/ WaitForLock \/ WakeUp \/ StrayUnlock \/ EndServer
      PROVE  UNCHANGED <<elapsed, tries, cpc>>
  BY <1>3 DEF LockQueue, WaitForLock, WakeUp, StrayUnlock, EndServer
<1>4. ASSUME (\E option \in Options : TakeOption(option)) \/ CloseConnection
      PROVE  UNCHANGED <<elapsed, tries>> /\ cpc' # "connecting"
  BY <1>4 DEF TakeOption, CloseConnection
<1>5. ASSUME ClientStep
      PROVE  UNCHANGED <<elapsed, tries>> /\ cpc' # "connecting"
  <2> USE DEF Returns, Goes
  <2>1. ASSUME NEW s, NEW n, Answered(s, n) PROVE cpc' # "connecting"
    BY <2>1 DEF Answered, ReadsContent, ReadsNames
  <2>2. ASSUME ReadAnswer \/ ReadAnswerEnd
        PROVE  UNCHANGED <<elapsed, tries>> /\ cpc' # "connecting"
    BY <2>1, <2>2 DEF ReadAnswer, ReadAnswerEnd
  <2>3. ASSUME Invoke \/ WriteToNobody \/ ReadVictim \/ ReadVictimOnce
        PROVE  UNCHANGED <<elapsed, tries>> /\ cpc' # "connecting"
    BY <2>3 DEF Invoke, WriteToNobody, ReadVictim, ReadVictimOnce
  <2>4. ASSUME ReadSecond \/ Upload \/ ReadFinal \/ ReadContent \/ ClientLost
        PROVE  UNCHANGED <<elapsed, tries>> /\ cpc' # "connecting"
    BY <2>4 DEF ReadSecond, Upload, ReadFinal, ReadContent, ClientLost
  <2>5. ASSUME \/ ReadAnswerReset \/ ReadVictimEnd \/ ReadSecondEnd
               \/ ReadFinalEnd \/ ReadContentEnd
        PROVE  UNCHANGED <<elapsed, tries>> /\ cpc' # "connecting"
    BY <2>5 DEF ReadAnswerReset, ReadVictimEnd, ReadSecondEnd, ReadFinalEnd,
       ReadContentEnd
  <2> QED
    BY <1>5, <2>2, <2>3, <2>4, <2>5 DEF ClientStep, AtEndOfFile
<1>6. ASSUME UNCHANGED vars PROVE UNCHANGED <<elapsed, tries, cpc>>
  BY <1>6 DEF vars
<1> QED
  BY <1>1, <1>2, <1>3, <1>4, <1>5, <1>6 DEF Next

LEMMA RetryStep ==
    ASSUME RetryInv, [Next]_vars
    PROVE  RetryInv'
<1>0. Pause \in Nat /\ abstime \in Nat /\ Slack \in Nat
  OBVIOUS
<1>1. CASE Connected
  <2>1. elapsed' = 0 /\ tries' = 0 /\ cpc' = "idle"
    BY <1>1 DEF Connected
  <2>2. Pause * tries' = 0
    BY <1>0, <2>1
  <2> QED
    BY <1>0, <2>1, <2>2 DEF RetryInv
<1>2. CASE Refused
  <2>1. PICK late \in 0..Slack : elapsed' = elapsed + Pause + late
    BY <1>2 DEF Refused
  <2>2. /\ elapsed <= abstime /\ tries' = tries + 1 /\ cpc = "connecting"
        /\ cpc' = cpc
    BY <1>2 DEF Refused, clientVars
  <2>3. Pause * tries' = Pause * tries + Pause
    BY <1>0, <2>2 DEF RetryInv
  <2> HIDE DEF SessionAssumption
  <2> QED
    BY <1>0, <2>1, <2>2, <2>3 DEF RetryInv
<1>3. CASE GiveUp
  <2>1. /\ tries' = tries + 1 /\ elapsed' = elapsed /\ cpc = "connecting"
        /\ cpc' = "failed"
    BY <1>3 DEF GiveUp
  <2>2. Pause * tries' = Pause * tries + Pause
    BY <1>0, <2>1 DEF RetryInv
  <2> QED
    BY <1>0, <2>1, <2>2 DEF RetryInv
<1>4. CASE ~Connecting
  BY <1>4, OthersDoNotConnect DEF RetryInv
<1> QED
  BY <1>1, <1>2, <1>3, <1>4 DEF Connecting

\* openConnection stops: one attempt for each Pause of its time and two more
\* are all it makes, however late the sleeps end and whatever main does to the
\* socket meanwhile.
THEOREM ConnectStops == Spec => []AttemptsBounded
<1>1. Init => RetryInv
  BY DEF Init, RetryInv
<1>2. RetryInv /\ [Next]_vars => RetryInv'
  BY RetryStep
<1>3. RetryInv => AttemptsBounded
  <2> SUFFICES ASSUME RetryInv PROVE AttemptsBounded
    OBVIOUS
  <2>1. Pause * (tries - 1) = Pause * tries - Pause
    BY DEF RetryInv
  <2> QED
    BY <2>1 DEF RetryInv, AttemptsBounded
<1> QED
  BY <1>1, <1>2, <1>3, PTL DEF Spec

-----------------------------------------------------------------------------
(* Streams                                                                 *)

LEMMA AppendFacts ==
    ASSUME NEW S, NEW s \in Seq(S), NEW x \in S
    PROVE  /\ Append(s, x) \in Seq(S)
           /\ Len(Append(s, x)) = Len(s) + 1
           /\ \A i \in 1..Len(s) : Append(s, x)[i] = s[i]
           /\ Append(s, x)[Len(s) + 1] = x
OBVIOUS

LEMMA SuffixFacts ==
    ASSUME NEW S, NEW s \in Seq(S), NEW k \in 0..Len(s)
    PROVE  /\ SubSeq(s, k + 1, Len(s)) \in Seq(S)
           /\ Len(SubSeq(s, k + 1, Len(s))) = Len(s) - k
           /\ \A i \in 1..(Len(s) - k) : SubSeq(s, k + 1, Len(s))[i] = s[i + k]
OBVIOUS

LEMMA TailIsSuffix ==
    ASSUME NEW S, NEW s \in Seq(S), s # << >>
    PROVE  /\ Tail(s) = SubSeq(s, 2, Len(s))
           /\ Head(s) = s[1] /\ s[1] \in S
           /\ 1 \in 0..Len(s) /\ 1 \in 1..Len(s)
OBVIOUS

LEMMA SmallerOfTwo ==
    ASSUME NEW a \in Nat, NEW b \in Nat
    PROVE  /\ Min({a, b}) \in {a, b}
           /\ Min({a, b}) <= a /\ Min({a, b}) <= b
<1>1. \E x \in {a, b} : \A y \in {a, b} : x =< y
  <2>1. CASE a <= b
    BY <2>1
  <2>2. CASE b <= a
    BY <2>2
  <2> QED
    BY <2>1, <2>2
<1>2. Min({a, b}) \in {a, b} /\ \A y \in {a, b} : Min({a, b}) =< y
  BY <1>1, Zenon DEF Min
<1> QED
  BY <1>2

\* The data at the head of a stream end somewhere.
LEMMA ArrivedFacts ==
    ASSUME NEW S, NEW s \in Seq(S)
    PROVE  Arrived(s) \in 0..Len(s)
<1> DEFINE Ends(k) == /\ \A i \in 1..k : s[i] = Data
                      /\ k < Len(s) => s[k + 1] # Data
           Others  == {i \in 1..Len(s) : s[i] # Data}
<1>1. CASE Others = {}
  <2>1. Ends(Len(s)) /\ Len(s) \in 0..Len(s)
    BY <1>1
  <2> QED
    BY <2>1, Zenon DEF Arrived
<1>2. CASE Others # {}
  <2>0. Others \subseteq Nat
    OBVIOUS
  <2>1. PICK j \in Others : \A i \in Others : j <= i
    <3> HIDE DEF Others
    <3> QED
      BY <1>2, <2>0, LeastNumber, Zenon
  <2>2. Ends(j - 1) /\ j - 1 \in 0..Len(s)
    BY <2>1
  <2> QED
    BY <2>2, Zenon DEF Arrived
<1> QED
  BY <1>1, <1>2

-----------------------------------------------------------------------------
(* What the steps leave alone                                              *)

HIDE SessionAssumption DEF SessionAssumption

Environment ==
    \/ Unlink \/ Bind \/ Listen \/ Connecting
    \/ \E option \in Options : TakeOption(option)
    \/ CloseConnection

WorkerStep ==
    \/ ServerStep
    \/ LockQueue \/ WaitForLock \/ WakeUp \/ StrayUnlock \/ EndServer

LEMMA ActorsOfNext ==
    ASSUME [Next]_vars
    PROVE  Environment \/ ClientStep \/ WorkerStep \/ UNCHANGED vars
BY DEF Next, Environment, WorkerStep

LEMMA WorkerFrame ==
    ASSUME WorkerStep
    PROVE  UNCHANGED <<connection, clientVars>>
<1>1. ASSUME \/ Pop \/ TakeRequest \/ ReadEnd \/ LockQueue \/ Handle
             \/ HandleRead \/ HandleReadN \/ Reply \/ Reject \/ SendContent
      PROVE  UNCHANGED <<connection, clientVars>>
  BY <1>1, Zenon DEF Pop, TakeRequest, ReadEnd, LockQueue, Handle, HandleRead,
     HandleReadN, Reply, Reject, SendContent
<1>2. ASSUME \/ MakeRoom \/ AnnounceVictim \/ SendVictim \/ CheckLock
             \/ Receive \/ ReceiveOnce \/ Store \/ ServerLost
             \/ WaitForLock \/ WakeUp \/ StrayUnlock \/ EndServer
      PROVE  UNCHANGED <<connection, clientVars>>
  BY <1>2, Zenon DEF MakeRoom, AnnounceVictim, SendVictim, CheckLock, Receive,
     ReceiveOnce, Store, ServerLost, WaitForLock, WakeUp, StrayUnlock,
     EndServer
<1> QED
  BY <1>1, <1>2 DEF WorkerStep, ServerStep

LEMMA ClientFrame ==
    ASSUME Environment \/ ClientStep
    PROVE  UNCHANGED serverVars
<1>1. ASSUME Environment PROVE UNCHANGED serverVars
  BY <1>1 DEF Environment, Unlink, Bind, Listen, Connecting, Connected,
     Refused, GiveUp, TakeOption, CloseConnection
<1>2. ASSUME \/ Invoke \/ WriteToNobody \/ ReadAnswer \/ ReadVictim
             \/ ReadVictimOnce \/ ReadSecond \/ Upload \/ ReadFinal
             \/ ReadContent \/ ClientLost
      PROVE  UNCHANGED serverVars
  BY <1>2, Zenon DEF Invoke, WriteToNobody, ReadAnswer, ReadVictim,
     ReadVictimOnce, ReadSecond, Upload, ReadFinal, ReadContent, ClientLost
<1>3. ASSUME AtEndOfFile PROVE UNCHANGED serverVars
  BY <1>3 DEF AtEndOfFile, ReadAnswerReset, ReadAnswerEnd, ReadVictimEnd,
     ReadSecondEnd, ReadFinalEnd, ReadContentEnd
<1> QED
  BY <1>1, <1>2, <1>3 DEF ClientStep

-----------------------------------------------------------------------------
(* Types                                                                   *)

Updates == {"OP_WRITE_FILE", "OP_APPEND_FILE"}

\* How much is left to be written or read is known at every point.
Counts ==
    /\ cpc = "content" => cleft # 0
    /\ spc \in {"content", "victim"} => sleft # 0
    /\ spc \in {"reply", "announce"} => sleft \in Sizes
    /\ spc \notin {"reply", "content", "announce", "victim", "receive", "lost"}
       => sleft = 0

TypeInv == TypeOK /\ Counts

\* TypeInv, by the owner of the variables.
ClientTypes ==
    /\ cpc \in InCall \cup {"connecting", "idle", "failed", "exited", "killed",
                            "lost"}
    /\ todo \in Seq(Request)
    /\ call \in Request
    /\ cleft \in Nat
    /\ ret \in -1..MaxList
    /\ cpc = "content" => cleft # 0

WorkerPoints == {"queued", "reading", "lockQueue", "handle", "lockWait",
                 "reply", "reject", "content", "makeRoom", "announce",
                 "victim", "checkLock", "receive", "store", "gone", "lost"}

WorkerTypes ==
    /\ spc \in WorkerPoints
    /\ request \in Request
    /\ status \in -1..MaxList
    /\ sleft \in Nat
    /\ keeps \in BOOLEAN
    /\ spc \in {"content", "victim"} => sleft # 0
    /\ spc \in {"reply", "announce"} => sleft \in Sizes
    /\ spc \notin {"reply", "content", "announce", "victim", "receive", "lost"}
       => sleft = 0

IsStream(s, Message) == s \in Seq(Message \cup {Data}) /\ Len(s) <= Buffer

StreamTypes == IsStream(toServer, Request) /\ IsStream(toClient, Response)

OtherTypes ==
    /\ socketFile \in {"stale", "absent", "bound", "listening"}
    /\ elapsed \in Nat
    /\ tries \in Nat
    /\ reset \in BOOLEAN
    /\ outcome \in {"pending", "ok", "empty", "fail"}
    /\ misread \in BOOLEAN

LEMMA TypesOfOwners ==
    TypeInv <=> ClientTypes /\ WorkerTypes /\ StreamTypes /\ OtherTypes
BY DEF TypeInv, TypeOK, Counts, ClientTypes, WorkerTypes, WorkerPoints,
   StreamTypes, IsStream, OtherTypes

LEMMA TypesOfOwnersNext ==
    TypeInv' <=> ClientTypes' /\ WorkerTypes' /\ StreamTypes' /\ OtherTypes'
BY TypesOfOwners, PTL

LEMMA ConstantTypes ==
    /\ 0 \in Sizes /\ Sizes \subseteq Nat
    /\ MaxList \in Nat /\ MaxList >= 1
    /\ Buffer \in Nat /\ Buffer >= 1
    /\ Pause \in Nat /\ abstime \in Nat /\ Slack \in Nat
    /\ Data \notin Request /\ Data \notin Response
BY SessionAssumption DEF SessionAssumption

LEMMA RequestType ==
    ASSUME NEW o \in Ops, NEW fl \in SUBSET {"O_CREATE", "O_LOCK"},
           NEW n \in Sizes
    PROVE  Rq(o, fl, n) \in Request
BY DEF Rq, Request

LEMMA RequestFields ==
    ASSUME NEW r \in Request
    PROVE  r.op \in Ops /\ r.n \in Sizes
BY DEF Request

LEMMA ResponseType ==
    ASSUME NEW s \in -1..MaxList, NEW n \in Sizes
    PROVE  /\ [status |-> s, n |-> n] \in Response
           /\ [status |-> s, n |-> n].status = s
           /\ [status |-> s, n |-> n].n = n
BY DEF Response

LEMMA ResponseFields ==
    ASSUME NEW r \in Response
    PROVE  r.status \in -1..MaxList /\ r.n \in Sizes
BY DEF Response

LEMMA CallsType ==
    ASSUME NEW option \in Options, NEW t \in CallsOf(option)
    PROVE  t \in Seq(Request)
<1>1. /\ Rq("OP_OPEN_FILE", {"O_CREATE", "O_LOCK"}, 0) \in Request
      /\ Rq("OP_OPEN_FILE", {"O_LOCK"}, 0) \in Request
      /\ \A o \in Ops : Rq(o, {}, 0) \in Request
      /\ \A n \in Sizes : Rq("OP_WRITE_FILE", {}, n) \in Request
      /\ \A n \in Sizes : Rq("OP_APPEND_FILE", {}, n) \in Request
  BY RequestType, ConstantTypes DEF Ops
<1>2. option \in {"W", "r", "R", "l", "u", "c", "append", "close"}
  BY SessionAssumption DEF SessionAssumption
<1> HIDE DEF Rq
<1>3. CASE option = "W"
  <2>1. t \in {<<Rq("OP_OPEN_FILE", {"O_CREATE", "O_LOCK"}, 0),
                 Rq("OP_WRITE_FILE", {}, n),
                 Rq("OP_UNLOCK_FILE", {}, 0)>> : n \in Sizes}
    BY <1>3 DEF CallsOf
  <2>2. PICK n \in Sizes :
          t = <<Rq("OP_OPEN_FILE", {"O_CREATE", "O_LOCK"}, 0),
                Rq("OP_WRITE_FILE", {}, n), Rq("OP_UNLOCK_FILE", {}, 0)>>
    BY <2>1
  <2> QED
    BY <1>1, <2>2 DEF Ops
<1>4. CASE option = "r"
  <2>1. t = <<Rq("OP_OPEN_FILE", {"O_LOCK"}, 0), Rq("OP_READ_FILE", {}, 0),
              Rq("OP_UNLOCK_FILE", {}, 0)>>
    BY <1>4 DEF CallsOf
  <2> QED
    BY <1>1, <2>1 DEF Ops
<1>5. CASE option \in {"R", "l", "u", "close"}
  <2>1. \E o \in Ops : t = <<Rq(o, {}, 0)>>
    BY <1>5 DEF CallsOf, Ops
  <2> QED
    BY <1>1, <2>1
<1>6. CASE option = "c"
  <2>1. t = <<Rq("OP_LOCK_FILE", {}, 0), Rq("OP_DELETE_FILE", {}, 0)>>
    BY <1>6 DEF CallsOf
  <2> QED
    BY <1>1, <2>1 DEF Ops
<1>7. CASE option = "append"
  <2>1. \E n \in Sizes : t = <<Rq("OP_APPEND_FILE", {}, n)>>
    BY <1>7 DEF CallsOf
  <2> QED
    BY <1>1, <2>1
<1> QED
  BY <1>2, <1>3, <1>4, <1>5, <1>6, <1>7

LEMMA StreamPut ==
    ASSUME NEW M, NEW s, IsStream(s, M), NEW unit \in M \cup {Data},
           Len(s) < Buffer
    PROVE  IsStream(Append(s, unit), M)
BY ConstantTypes DEF IsStream

LEMMA StreamDrop ==
    ASSUME NEW M, NEW s, IsStream(s, M), NEW k \in 0..Len(s)
    PROVE  IsStream(SubSeq(s, k + 1, Len(s)), M)
BY SuffixFacts, ConstantTypes DEF IsStream

LEMMA StreamTake ==
    ASSUME NEW M, NEW s, IsStream(s, M), s # << >>
    PROVE  /\ IsStream(Tail(s), M)
           /\ Head(s) \in M \cup {Data}
           /\ Head(s) = s[1]
BY ConstantTypes DEF IsStream

LEMMA StreamEmpty ==
    ASSUME NEW M
    PROVE  IsStream(<< >>, M)
BY ConstantTypes DEF IsStream

LEMMA GoesType ==
    ASSUME ClientTypes, NEW label \in InCall \cup {"lost"}, NEW n \in Nat,
           Goes(label, n), label = "content" => n # 0, call' = call
    PROVE  ClientTypes'
BY DEF ClientTypes, Goes

LEMMA ReturnsType ==
    ASSUME ClientTypes, NEW r \in -1..MaxList, Returns(r), call' = call
    PROVE  ClientTypes'
<1>1. todo' \in Seq(Request)
  BY DEF Returns, ClientTypes
<1> QED
  BY <1>1 DEF Returns, ClientTypes

LEMMA NamesType ==
    ASSUME ClientTypes, NEW k \in 0..MaxList, ReadsNames(k), call' = call
    PROVE  ClientTypes'
<1> DEFINE calls == [i \in 1..k |-> Rq("OP_READ_FILE", {}, 0)]
<1>1. Rq("OP_READ_FILE", {}, 0) \in Request
  BY RequestType, ConstantTypes DEF Ops
<1>2. calls \in Seq(Request)
  BY <1>1, ConstantTypes
<1>3. todo' = calls \o todo
  BY DEF ReadsNames
<1>4. todo' \in Seq(Request)
  <2> HIDE DEF calls
  <2> QED
    BY <1>2, <1>3 DEF ClientTypes
<1> QED
  BY <1>4, ConstantTypes DEF ReadsNames, ClientTypes

LEMMA CallFields ==
    ASSUME ClientTypes
    PROVE  call.op \in Ops /\ call.n \in Sizes /\ call.n \in Nat
<1>1. call \in Request
  BY DEF ClientTypes
<1>2. call.op \in Ops /\ call.n \in Sizes
  BY <1>1, RequestFields
<1> QED
  BY <1>2, ConstantTypes

LEMMA AnsweredType ==
    ASSUME ClientTypes, NEW s \in -1..MaxList, NEW n \in Sizes,
           Answered(s, n), call' = call
    PROVE  ClientTypes'
<1>1. n \in Nat /\ call.n \in Nat /\ 0 \in -1..MaxList /\ -1 \in -1..MaxList
  BY ConstantTypes, CallFields
<1>2. CASE \E r \in -1..MaxList : Returns(r)
  BY <1>2, ReturnsType
<1>3. CASE s # -1 /\ ReadsContent(n)
  <2>1. CASE n > 0
    <3>1. Goes("content", n)
      BY <1>3, <2>1 DEF ReadsContent
    <3> QED
      BY <1>1, <2>1, <3>1, GoesType DEF InCall
  <2>2. CASE ~(n > 0)
    BY <1>1, <1>2, <1>3, <2>2 DEF ReadsContent
  <2> QED
    BY <2>1, <2>2
<1>4. CASE s # -1 /\ ReadsNames(s)
  BY <1>4, NamesType, ConstantTypes
<1>5. CASE Goes("victim", n) \/ Goes("upload", call.n)
  BY <1>1, <1>5, GoesType DEF InCall
<1> QED
  BY <1>1, <1>2, <1>3, <1>4, <1>5 DEF Answered

LEMMA ClientTypesStep ==
    ASSUME TypeInv, [Next]_vars
    PROVE  ClientTypes'
<1> USE TypesOfOwners
<1>1. CASE Environment
  <2>1. ASSUME NEW option \in Options, TakeOption(option) PROVE ClientTypes'
    BY <2>1, CallsType DEF TakeOption, ClientTypes
  <2>2. CASE Unlink \/ Bind \/ Listen \/ Connecting \/ CloseConnection
    BY <2>2 DEF Unlink, Bind, Listen, Connecting, Connected, Refused, GiveUp,
       CloseConnection, clientVars, ClientTypes
  <2> QED
    BY <1>1, <2>1, <2>2 DEF Environment
<1>2. CASE WorkerStep \/ UNCHANGED vars
  <2>1. UNCHANGED clientVars
    BY <1>2, WorkerFrame DEF vars
  <2> QED
    BY <2>1 DEF clientVars, ClientTypes
<1>3. CASE Invoke
  <2>1. Head(todo) \in Request /\ Tail(todo) \in Seq(Request)
    BY <1>3 DEF Invoke, ClientTypes
  <2> QED
    BY <1>3, <2>1 DEF Invoke, ClientTypes, InCall
<1>4. CASE WriteToNobody
  BY <1>4 DEF WriteToNobody, ClientTypes
<1>5. CASE ReadAnswer
  <2>1. Head(toClient) \in Response
    BY <1>5, StreamTake DEF ReadAnswer, StreamTypes
  <2> QED
    BY <1>5, <2>1, ResponseFields, AnsweredType DEF ReadAnswer
<1>6. CASE ReadVictim
  <2>1. \/ Returns(-1)
        \/ \E n \in Nat : Goes("second", n) \/ Goes("victim", n)
    BY <1>6 DEF ReadVictim, ClientTypes
  <2>2. -1 \in -1..MaxList /\ call' = call
    BY <1>6, ConstantTypes DEF ReadVictim
  <2> QED
    BY <2>1, <2>2, ReturnsType, GoesType DEF InCall
<1>7. CASE ReadVictimOnce
  BY <1>7, GoesType DEF ReadVictimOnce, InCall
<1>8. CASE ReadSecond \/ ReadFinal
  <2>1. Head(toClient) \in Response
    BY <1>8, StreamTake DEF ReadSecond, ReadFinal, StreamTypes
  <2>2. /\ Head(toClient).status \in -1..MaxList /\ call.n \in Nat
        /\ -1 \in -1..MaxList
    BY <2>1, ResponseFields, CallFields, ConstantTypes
  <2>3. call' = call
    BY <1>8 DEF ReadSecond, ReadFinal
  <2>4. (\E r \in -1..MaxList : Returns(r)) \/ Goes("upload", call.n)
    BY <1>8, <2>2 DEF ReadSecond, ReadFinal
  <2> QED
    BY <2>2, <2>3, <2>4, ReturnsType, GoesType DEF InCall
<1>9. CASE Upload
  <2>1. \E n \in Nat : Goes("upload", n) \/ Goes("final", n)
    BY <1>9 DEF Upload, ClientTypes
  <2> QED
    BY <1>9, <2>1, GoesType DEF Upload, InCall
<1>10. CASE ReadContent
  <2>1. \/ Returns(0)
        \/ cleft # 1 /\ Goes("content", cleft - 1)
    BY <1>10, Zenon DEF ReadContent
  <2>2. /\ call' = call /\ 0 \in -1..MaxList
        /\ cleft # 1 => cleft - 1 \in Nat /\ cleft - 1 # 0
    BY <1>10, ConstantTypes DEF ReadContent, ClientTypes
  <2> QED
    BY <2>1, <2>2, ReturnsType, GoesType DEF InCall
<1>11. CASE ClientLost
  BY <1>11, GoesType DEF ClientLost
<1>12. CASE ReadAnswerEnd
  <2>1. PICK s \in -1..1, n \in Sizes : Answered(s, n)
    BY <1>12 DEF ReadAnswerEnd
  <2> QED
    BY <1>12, <2>1, ConstantTypes, AnsweredType DEF ReadAnswerEnd
<1>13. CASE ReadAnswerReset \/ ReadFinalEnd
  <2>1. Returns(0) \/ Returns(-1)
    BY <1>13 DEF ReadAnswerReset, ReadFinalEnd
  <2> QED
    BY <1>13, <2>1, ConstantTypes, ReturnsType DEF ReadAnswerReset,
       ReadFinalEnd
<1>14. CASE ReadVictimEnd \/ ReadSecondEnd \/ ReadContentEnd
  <2>1. /\ \/ Goes("spin", 0) \/ Goes("second", 0)
           \/ Goes("upload", call.n)
        /\ call' = call
    BY <1>14 DEF ReadVictimEnd, ReadSecondEnd, ReadContentEnd
  <2> QED
    BY <2>1, CallFields, GoesType DEF InCall
<1>15. CASE ClientStep
  BY <1>3, <1>4, <1>5, <1>6, <1>7, <1>8, <1>9, <1>10, <1>11, <1>12, <1>13,
     <1>14, <1>15 DEF ClientStep, AtEndOfFile
<1> QED
  BY <1>1, <1>2, <1>15, ActorsOfNext

\* What a handler leaves when it goes back to the worker's loop.
LEMMA HandlerReturnsType ==
    ASSUME WorkerTypes, HandlerReturns, sleft' = 0, keeps' \in BOOLEAN
    PROVE  WorkerTypes'
BY RequestType, ConstantTypes DEF WorkerTypes, WorkerPoints, HandlerReturns,
   Goto, NoCall, Ops

LEMMA WorkerTypesStep ==
    ASSUME TypeInv, [Next]_vars
    PROVE  WorkerTypes'
<1> USE TypesOfOwners
<1>1. CASE Environment \/ ClientStep \/ UNCHANGED vars
  <2>1. UNCHANGED serverVars
    BY <1>1, ClientFrame DEF vars
  <2> QED
    BY <2>1 DEF serverVars, WorkerTypes, WorkerPoints
<1>2. CASE Pop
  BY <1>2 DEF Pop, Goto, WorkerTypes, WorkerPoints
<1>3. CASE TakeRequest
  <2>1. Head(toServer) \in Request
    BY <1>3, StreamTake DEF TakeRequest, StreamTypes
  <2> QED
    BY <1>3, <2>1 DEF TakeRequest, Goto, WorkerTypes, WorkerPoints
<1>4. CASE ReadEnd
  BY <1>4 DEF ReadEnd, Goto, WorkerTypes, WorkerPoints
<1>5. CASE LockQueue
  BY <1>5 DEF LockQueue, Goto, WorkerTypes, WorkerPoints
<1>6. CASE Handle
  <2>1. status' \in -1..MaxList
    BY <1>6, ConstantTypes DEF Handle, Decides
  <2> QED
    BY <1>6, <2>1, ConstantTypes DEF Handle, Goto, WorkerTypes, WorkerPoints
<1>7. CASE HandleRead
  <2>1. status' \in -1..MaxList /\ sleft' \in Sizes
    BY <1>7, ConstantTypes DEF HandleRead, Decides
  <2>2. sleft' \in Nat
    BY <2>1, ConstantTypes
  <2> QED
    BY <1>7, <2>1, <2>2 DEF HandleRead, Goto, WorkerTypes, WorkerPoints
<1>8. CASE HandleReadN
  <2>1. /\ status' \in -1..MaxList /\ spc' \in {"reject", "reply"}
        /\ spc = "handle" /\ UNCHANGED <<request, sleft, keeps>>
    BY <1>8, ConstantTypes DEF HandleReadN, Decides, Goto
  <2> QED
    BY <2>1, ConstantTypes DEF WorkerTypes, WorkerPoints
<1>9. CASE Reply
  <2>1. CASE sleft = 0
    BY <1>9, <2>1, HandlerReturnsType DEF Reply, WorkerTypes
  <2>2. CASE sleft # 0
    BY <1>9, <2>2 DEF Reply, Goto, WorkerTypes, WorkerPoints
  <2> QED
    BY <2>1, <2>2
<1>10. CASE Reject
  BY <1>10, HandlerReturnsType DEF Reject, WorkerTypes
<1>11. CASE SendContent
  <2>1. CASE sleft = 1
    BY <1>11, <2>1, HandlerReturnsType DEF SendContent, WorkerTypes
  <2>2. CASE sleft # 1
    BY <1>11, <2>2 DEF SendContent, WorkerTypes
  <2> QED
    BY <2>1, <2>2
<1>12. CASE MakeRoom
  <2>1. /\ status' \in -1..MaxList /\ sleft' \in Sizes
        /\ spc' \in {"announce", "reject", "checkLock"}
        /\ spc' # "announce" => sleft' = 0
        /\ UNCHANGED <<request, keeps>>
    BY <1>12, ConstantTypes DEF MakeRoom, Decides, Goto, WorkerTypes
  <2>2. sleft' \in Nat
    BY <2>1, ConstantTypes
  <2> QED
    BY <2>1, <2>2 DEF WorkerTypes, WorkerPoints
<1>13. CASE AnnounceVictim
  BY <1>13 DEF AnnounceVictim, Goto, WorkerTypes, WorkerPoints
<1>14. CASE SendVictim
  BY <1>14 DEF SendVictim, Goto, WorkerTypes, WorkerPoints
<1>15. CASE CheckLock
  <2>1. CASE HandlerReturns /\ UNCHANGED sleft
    BY <1>15, <2>1, HandlerReturnsType DEF CheckLock, WorkerTypes
  <2>2. CASE sleft' = request.n /\ Goto("receive")
              /\ UNCHANGED <<request, status>>
    <3>1. request.n \in Nat
      BY RequestFields, ConstantTypes DEF WorkerTypes
    <3> QED
      BY <1>15, <2>2, <3>1 DEF CheckLock, Goto, WorkerTypes, WorkerPoints
  <2> QED
    BY <1>15, <2>1, <2>2 DEF CheckLock
<1>16. CASE Receive
  <2>1. CASE sleft = 0 /\ HandlerReturns
    BY <1>16, <2>1, HandlerReturnsType DEF Receive, WorkerTypes
  <2>2. CASE ~(sleft = 0 /\ HandlerReturns)
    <3>1. /\ UNCHANGED <<request, status, keeps>> /\ sleft' \in Nat
          /\ spc' \in {"receive", "store"}
          /\ spc' = "store" => sleft' = 0
      BY <1>16, <2>2 DEF Receive, Goto, WorkerTypes
    <3> QED
      BY <3>1 DEF WorkerTypes, WorkerPoints
  <2> QED
    BY <2>1, <2>2
<1>17. CASE ReceiveOnce
  BY <1>17 DEF ReceiveOnce, Goto, WorkerTypes, WorkerPoints
<1>18. CASE Store
  <2>1. status' \in -1..MaxList
    BY <1>18, ConstantTypes DEF Store, Decides
  <2> QED
    BY <1>18, <2>1, ConstantTypes DEF Store, Goto, WorkerTypes, WorkerPoints
<1>19. CASE ServerLost
  BY <1>19 DEF ServerLost, Goto, WorkerTypes, WorkerPoints
<1>20. CASE WaitForLock \/ WakeUp
  BY <1>20 DEF WaitForLock, WakeUp, Goto, WorkerTypes, WorkerPoints
<1>21. CASE StrayUnlock
  BY <1>21 DEF StrayUnlock, WorkerTypes, WorkerPoints
<1>22. CASE EndServer
  <2>1. /\ spc' = "gone" /\ request' = NoCall /\ status' = 0 /\ sleft' = 0
        /\ keeps' = FALSE
    BY <1>22 DEF EndServer, Goto
  <2>2. NoCall \in Request /\ 0 \in -1..MaxList
    BY RequestType, ConstantTypes DEF NoCall, Ops
  <2> QED
    BY <2>1, <2>2 DEF WorkerTypes, WorkerPoints
<1> QED
  BY <1>1, <1>2, <1>3, <1>4, <1>5, <1>6, <1>7, <1>8, <1>9, <1>10, <1>11,
     <1>12, <1>13, <1>14, <1>15, <1>16, <1>17, <1>18, <1>19, <1>20, <1>21,
     <1>22, ActorsOfNext DEF WorkerStep, ServerStep

LEMMA OtherTypesStep ==
    ASSUME TypeInv, [Next]_vars
    PROVE  OtherTypes'
<1> USE TypesOfOwners
<1>1. ASSUME UNCHANGED <<connection, reset, history>> PROVE OtherTypes'
  BY <1>1 DEF connection, history, OtherTypes
<1>2. ASSUME UNCHANGED <<connection, reset, misread>>,
             outcome' \in {"pending", "ok", "empty", "fail"}
      PROVE  OtherTypes'
  BY <1>2 DEF connection, OtherTypes
<1>3. ASSUME UNCHANGED <<connection, reset, outcome>>, misread' \in BOOLEAN
      PROVE  OtherTypes'
  BY <1>3 DEF connection, OtherTypes
<1>4. ASSUME UNCHANGED <<connection, history>>, reset' \in BOOLEAN
      PROVE  OtherTypes'
  BY <1>4 DEF connection, history, OtherTypes
<1>5. CASE Environment
  <2>1. CASE Unlink \/ Bind \/ Listen
    BY <2>1 DEF Unlink, Bind, Listen, history, OtherTypes
  <2>2. CASE Connecting
    BY <2>2, ConstantTypes DEF Connecting, Connected, Refused, GiveUp,
       history, OtherTypes
  <2>3. CASE (\E option \in Options : TakeOption(option)) \/ CloseConnection
    BY <1>1, <2>3 DEF TakeOption, CloseConnection
  <2> QED
    BY <1>5, <2>1, <2>2, <2>3 DEF Environment
<1>6. CASE \/ WriteToNobody \/ ReadAnswer \/ ReadSecond \/ Upload
           \/ ReadFinal \/ ReadContent \/ ClientLost \/ ReadAnswerEnd
           \/ ReadVictimEnd \/ ReadSecondEnd \/ ReadContentEnd
           \/ UNCHANGED vars
  BY <1>1, <1>6 DEF WriteToNobody, ReadAnswer, ReadSecond, Upload, ReadFinal,
     ReadContent, ClientLost, ReadAnswerEnd, ReadVictimEnd, ReadSecondEnd,
     ReadContentEnd, vars
<1>7. CASE Invoke
  BY <1>2, <1>7 DEF Invoke
<1>8. CASE ReadVictim
  <2>1. misread' = misread \/ misread' = TRUE
    BY <1>8, Zenon DEF ReadVictim
  <2> QED
    BY <1>3, <1>8, <2>1 DEF ReadVictim, OtherTypes
<1>9. CASE ReadVictimOnce \/ ReceiveOnce
  <2>1. misread' \in BOOLEAN
    BY <1>9 DEF ReadVictimOnce, ReceiveOnce
  <2> QED
    BY <1>3, <1>9, <2>1 DEF ReadVictimOnce, ReceiveOnce
<1>10. CASE ReadAnswerReset \/ ReadFinalEnd
  BY <1>4, <1>10 DEF ReadAnswerReset, ReadFinalEnd
<1>11. CASE ClientStep
  BY <1>6, <1>7, <1>8, <1>9, <1>10, <1>11 DEF ClientStep, AtEndOfFile
<1>12. CASE \/ Pop \/ TakeRequest \/ ReadEnd \/ LockQueue \/ Reply \/ Reject
            \/ SendContent \/ AnnounceVictim \/ SendVictim \/ ServerLost
            \/ WaitForLock \/ WakeUp \/ StrayUnlock
  BY <1>1, <1>12 DEF Pop, TakeRequest, ReadEnd, LockQueue, Reply, Reject,
     SendContent, AnnounceVictim, SendVictim, ServerLost, WaitForLock, WakeUp,
     StrayUnlock
<1>13. CASE Handle \/ HandleRead \/ HandleReadN \/ Store
  <2>1. outcome' \in {"ok", "empty", "fail"}
    BY <1>13 DEF Handle, HandleRead, HandleReadN, Store, Decides
  <2> QED
    BY <1>2, <1>13, <2>1 DEF Handle, HandleRead, HandleReadN, Store
<1>14. CASE MakeRoom \/ CheckLock \/ Receive
  <2>1. outcome' \in {"fail", outcome}
    BY <1>14 DEF MakeRoom, CheckLock, Receive, Decides
  <2>2. outcome' \in {"pending", "ok", "empty", "fail"}
    BY <2>1 DEF OtherTypes
  <2> QED
    BY <1>2, <1>14, <2>2 DEF MakeRoom, CheckLock, Receive
<1>15. CASE EndServer
  <2>1. \/ reset' = (toServer # << >>)
        \/ reset' = (Len(toServer) > 1)
    BY <1>15, Zenon DEF EndServer
  <2>2. (toServer # << >>) \in BOOLEAN /\ (Len(toServer) > 1) \in BOOLEAN
    OBVIOUS
  <2>3. reset' \in BOOLEAN
    BY <2>1, <2>2, Zenon
  <2> QED
    BY <1>4, <1>15, <2>3 DEF EndServer
<1>16. CASE WorkerStep
  BY <1>9, <1>12, <1>13, <1>14, <1>15, <1>16 DEF WorkerStep, ServerStep
<1> QED
  BY <1>5, <1>6, <1>11, <1>16, ActorsOfNext

LEMMA StreamSteps ==
    ASSUME StreamTypes
    PROVE  /\ UNCHANGED streams => StreamTypes'
           /\ \A unit \in Request \cup {Data} :
                 ToServer(unit) /\ UNCHANGED toClient => StreamTypes'
           /\ \A unit \in Response \cup {Data} :
                 ToClient(unit) /\ UNCHANGED toServer => StreamTypes'
           /\ toServer # << >> /\ toServer' = Tail(toServer)
                 /\ UNCHANGED toClient => StreamTypes'
           /\ toClient # << >> /\ toClient' = Tail(toClient)
                 /\ UNCHANGED toServer => StreamTypes'
           /\ toServer' = << >> /\ UNCHANGED toClient => StreamTypes'
<1> USE DEF StreamTypes
<1>1. UNCHANGED streams => StreamTypes'
  BY DEF streams
<1>2. ASSUME NEW unit \in Request \cup {Data}, ToServer(unit),
             UNCHANGED toClient
      PROVE  StreamTypes'
  BY <1>2, StreamPut DEF ToServer
<1>3. ASSUME NEW unit \in Response \cup {Data}, ToClient(unit),
             UNCHANGED toServer
      PROVE  StreamTypes'
  BY <1>3, StreamPut DEF ToClient
<1> QED
  BY <1>1, <1>2, <1>3, StreamTake, StreamEmpty

LEMMA StreamTypesStep ==
    ASSUME TypeInv, [Next]_vars
    PROVE  StreamTypes'
<1> USE TypesOfOwners
<1>1. CASE Environment \/ UNCHANGED vars
  <2>1. UNCHANGED streams
    BY <1>1 DEF Environment, Unlink, Bind, Listen, Connecting, Connected,
       Refused, GiveUp, TakeOption, CloseConnection, vars
  <2> QED
    BY <2>1, StreamSteps
<1>2. CASE \/ WriteToNobody \/ ClientLost \/ AtEndOfFile
  <2>1. UNCHANGED streams
    BY <1>2 DEF WriteToNobody, ClientLost, AtEndOfFile, ReadAnswerReset,
       ReadAnswerEnd, ReadVictimEnd, ReadSecondEnd, ReadFinalEnd,
       ReadContentEnd
  <2> QED
    BY <2>1, StreamSteps
<1>3. CASE Invoke
  <2>1. Head(todo) \in Request
    BY <1>3 DEF Invoke, ClientTypes
  <2> QED
    BY <1>3, <2>1, StreamSteps DEF Invoke
<1>4. CASE ReadAnswer \/ ReadSecond \/ ReadFinal \/ ReadContent
  <2>1. /\ toClient # << >> /\ toClient' = Tail(toClient)
        /\ UNCHANGED toServer
    BY <1>4 DEF ReadAnswer, ReadSecond, ReadFinal, ReadContent
  <2> QED
    BY <2>1, StreamSteps
<1>5. CASE ReadVictim
  <2>1. /\ \/ UNCHANGED toClient
           \/ toClient # << >> /\ toClient' = Tail(toClient)
        /\ UNCHANGED toServer
    BY <1>5 DEF ReadVictim
  <2> QED
    BY <2>1, StreamSteps DEF streams
<1>6. CASE ReadVictimOnce
  <2>1. PICK k \in {Min({cleft, Arrived(toClient)})} :
           toClient' = SubSeq(toClient, k + 1, Len(toClient))
    BY <1>6 DEF ReadVictimOnce
  <2>2. Arrived(toClient) \in 0..Len(toClient) /\ Len(toClient) \in Nat
    BY ArrivedFacts DEF StreamTypes, IsStream
  <2>3. cleft \in Nat
    BY DEF ClientTypes
  <2>4. k \in 0..Len(toClient)
    BY <2>2, <2>3, SmallerOfTwo
  <2> QED
    BY <1>6, <2>1, <2>4, StreamDrop DEF ReadVictimOnce, StreamTypes
<1>7. CASE Upload
  <2>1. UNCHANGED toServer \/ ToServer(Data)
    BY <1>7 DEF Upload
  <2> QED
    BY <1>7, <2>1, StreamSteps DEF Upload, streams
<1>8. CASE ClientStep
  BY <1>2, <1>3, <1>4, <1>5, <1>6, <1>7, <1>8 DEF ClientStep
<1>9. CASE \/ Pop \/ ReadEnd \/ LockQueue \/ Handle \/ HandleRead
           \/ HandleReadN \/ MakeRoom \/ Store \/ ServerLost
           \/ WaitForLock \/ WakeUp \/ StrayUnlock
  <2>1. UNCHANGED streams
    BY <1>9 DEF Pop, ReadEnd, LockQueue, Handle, HandleRead, HandleReadN,
       MakeRoom, Store, ServerLost, WaitForLock, WakeUp, StrayUnlock
  <2> QED
    BY <2>1, StreamSteps
<1>10. CASE TakeRequest \/ Receive
  <2>1. \/ UNCHANGED streams
        \/ /\ toServer # << >> /\ toServer' = Tail(toServer)
           /\ UNCHANGED toClient
    BY <1>10 DEF TakeRequest, Receive, streams
  <2> QED
    BY <2>1, StreamSteps
<1>11. CASE Reply
  <2>1. [status |-> status, n |-> sleft] \in Response
    BY <1>11, ResponseType DEF Reply, WorkerTypes
  <2> QED
    BY <1>11, <2>1, StreamSteps DEF Reply, Responds
<1>12. CASE AnnounceVictim
  <2>1. [status |-> 1, n |-> sleft] \in Response
    BY <1>12, ResponseType, ConstantTypes DEF AnnounceVictim, WorkerTypes
  <2> QED
    BY <1>12, <2>1, StreamSteps DEF AnnounceVictim, Responds
<1>13. CASE Reject \/ CheckLock
  <2>1. /\ [status |-> -1, n |-> 0] \in Response
        /\ [status |-> 0, n |-> 0] \in Response
    BY ResponseType, ConstantTypes
  <2>2. Responds(-1, 0) \/ Responds(0, 0)
    BY <1>13 DEF Reject, CheckLock
  <2> QED
    BY <1>13, <2>1, <2>2, StreamSteps DEF Reject, CheckLock, Responds
<1>14. CASE SendContent \/ SendVictim
  BY <1>14, StreamSteps DEF SendContent, SendVictim
<1>15. CASE ReceiveOnce
  <2>1. PICK k \in {Min({sleft, Arrived(toServer)})} :
           toServer' = SubSeq(toServer, k + 1, Len(toServer))
    BY <1>15 DEF ReceiveOnce
  <2>2. Arrived(toServer) \in 0..Len(toServer) /\ Len(toServer) \in Nat
    BY ArrivedFacts DEF StreamTypes, IsStream
  <2>3. sleft \in Nat
    BY DEF WorkerTypes
  <2>4. k \in 0..Len(toServer)
    BY <2>2, <2>3, SmallerOfTwo
  <2> QED
    BY <1>15, <2>1, <2>4, StreamDrop DEF ReceiveOnce, StreamTypes
<1>16. CASE EndServer
  <2>1. toServer' = << >> /\ UNCHANGED toClient
    BY <1>16 DEF EndServer
  <2> QED
    BY <2>1, StreamSteps
<1>17. CASE WorkerStep
  BY <1>9, <1>10, <1>11, <1>12, <1>13, <1>14, <1>15, <1>16, <1>17
     DEF WorkerStep, ServerStep
<1> QED
  BY <1>1, <1>8, <1>17, ActorsOfNext

LEMMA TypeInit == Init => TypeInv
<1> SUFFICES ASSUME Init PROVE TypeInv
  OBVIOUS
<1>1. NoCall \in Request /\ 0 \in -1..MaxList
  BY RequestType, ConstantTypes DEF NoCall, Ops
<1>2. ClientTypes
  BY <1>1 DEF Init, ClientTypes
<1>3. WorkerTypes
  BY <1>1 DEF Init, WorkerTypes, WorkerPoints
<1>4. StreamTypes
  BY StreamEmpty DEF Init, StreamTypes
<1>5. OtherTypes
  BY DEF Init, OtherTypes
<1> QED
  BY <1>2, <1>3, <1>4, <1>5, TypesOfOwners

LEMMA TypeStep == TypeInv /\ [Next]_vars => TypeInv'
BY ClientTypesStep, WorkerTypesStep, StreamTypesStep, OtherTypesStep,
   TypesOfOwnersNext

\* Requests, lengths and statuses keep to their types, and neither direction
\* of the socket holds more than its buffer: whatever the sizes of the files,
\* the lists and the socket are.
THEOREM TypeCorrect == Spec => []TypeOK
<1>1. TypeInv => TypeOK
  BY DEF TypeInv
<1> QED
  BY <1>1, TypeInit, TypeStep, PTL DEF Spec

-----------------------------------------------------------------------------
(* The two ends in step                                                    *)

Early == {"answer", "victim", "second"}

\* Where in toClient the second Response of an update is, or will be; for
\* another call, the place behind the content.
Gate ==
    IF cpc = "answer"
    THEN IF \/ toClient = << >>
            \/ call.op \in Updates /\ toClient[1].status # 1
         THEN 1 ELSE 2 + toClient[1].n
    ELSE IF cpc \in {"victim", "content"} THEN cleft + 1
    ELSE IF cpc = "second" THEN 1 ELSE 0

\* What is before the gate is data, but for the first Response of a call.
Shape ==
    cpc \in InCall =>
        \A i \in 1..Len(toClient) :
            toClient[i] = Data <=> i < Gate /\ (cpc = "answer" => i # 1)

\* The units of the call's content that the client has yet to write.
Owed == IF cpc \in Early THEN call.n ELSE IF cpc = "upload" THEN cleft ELSE 0

\* An answer s with n units of content to a call that is no update.
Truthful(s, n) ==
    /\ outcome # "pending"
    /\ call.op = "OP_OPEN_FILE" => s \in {0, -1}
    /\ n > 0 => call.op = "OP_READ_FILE" /\ s = 0 /\ outcome = "ok"
    /\ n = 0 /\ call.op \notin Blind =>
          outcome = IF s = -1 THEN "fail"
                    ELSE IF call.op = "OP_READ_FILE" THEN "empty" ELSE "ok"

TruthfulAnswer ==
    \/ /\ cpc = "answer" /\ toClient # << >>
       /\ Truthful(toClient[1].status, toClient[1].n)
    \/ cpc = "content" /\ outcome = "ok" /\ call.op = "OP_READ_FILE"

\* The status of the second Response, unless the client has read it.
Second(s) == Gate # 0 => toClient[Gate].status = s

Agrees(s) == (s = 0 /\ outcome = "ok") \/ (s = -1 /\ outcome = "fail")

\* Between two calls.
Quiet ==
    /\ spc \in {"queued", "reading"}
    /\ cpc \in {"connecting", "failed", "idle", "exited"}
    /\ toServer = << >> /\ toClient = << >>

\* The request is on its way.
Sent ==
    /\ spc \in {"queued", "reading"}
    /\ cpc = "answer"
    /\ toServer = <<call>> /\ toClient = << >>
    /\ outcome = "pending"

ServedPoint ==
    \/ spc = "lockQueue" /\ outcome = "pending"
    \/ /\ spc \in {"handle", "lockWait"}
       /\ call.op \notin Updates /\ outcome = "pending"
    \/ /\ spc \in {"makeRoom", "announce"}
       /\ call.op \in Updates /\ outcome = "pending"
    \/ /\ spc = "reply"
       /\ call.op \notin Updates /\ Truthful(status, sleft)
    \/ /\ spc = "reject"
       /\ call.op \in Updates \cup {"OP_READ_N_FILES"} /\ outcome = "fail"

\* The worker has the request and has not answered.
Served ==
    /\ cpc = "answer"
    /\ toServer = << >> /\ toClient = << >>
    /\ request = call
    /\ ServedPoint

\* It has answered a call that is no update, and may be sending a content.
Answering ==
    /\ call.op \notin Updates
    /\ toServer = << >>
    /\ TruthfulAnswer
    /\ spc \in {"reading", "content"}
    /\ spc = "content" => request = call
    /\ Len(toClient) + sleft = Gate - 1

\* It has announced a victim and sends it, or there was none.
Evicting ==
    /\ spc \in {"victim", "checkLock"}
    /\ request = call /\ call.op \in Updates
    /\ toServer = << >>
    /\ cpc \in Early
    /\ spc = "victim" /\ cpc = "answer" => toClient # << >>
    /\ Len(toClient) + sleft = Gate - 1
    /\ outcome = "pending"

\* It has refused an update.
Denied ==
    /\ spc = "reading"
    /\ call.op \in Updates
    /\ toServer = << >>
    /\ cpc \in Early
    /\ Len(toClient) = Gate
    /\ Second(-1)
    /\ outcome = "fail"

\* It has accepted it and takes the content.
Updating ==
    /\ spc \in {"receive", "store", "reply"}
    /\ request = call /\ call.op \in Updates
    /\ cpc \in Early \cup {"upload", "final"}
    /\ Len(toClient) = Gate
    /\ Second(0)
    /\ \A i \in 1..Len(toServer) : toServer[i] = Data
    /\ Len(toServer) + Owed = sleft
    /\ spc # "receive" => sleft = 0
    /\ IF spc = "reply" THEN Agrees(status) ELSE outcome = "pending"

\* It has answered, or left an empty content unanswered.
Updated ==
    /\ spc = "reading"
    /\ call.op \in Updates
    /\ cpc \in Early \cup {"upload", "final"}
    /\ Second(0)
    /\ toServer = << >>
    /\ Owed = 0
    /\ \/ Len(toClient) = Gate /\ outcome = "fail"
       \/ Len(toClient) = Gate + 1 /\ Agrees(toClient[Gate + 1].status)

Phase ==
    \/ Quiet \/ Sent \/ Served \/ Answering
    \/ Evicting \/ Denied \/ Updating \/ Updated

InSync ==
    /\ cpc # "lost" /\ spc # "lost"
    /\ Shape
    /\ spc # "gone" => Phase

Sync == ~misread => InSync

\* A call that returns was executed, and returns the verdict.
ReturnsVerdict ==
    spc # "gone" /\ cpc \in InCall /\ cpc' \notin InCall =>
        outcome # "pending" /\ ret' \in Call!Verdict(call.op, outcome)

\* The storage decides once, on a call that has not returned.
ExecutesOnce == outcome' # outcome => outcome = "pending" /\ cpc \in InCall

LEMMA PhaseOfWorker ==
    ASSUME Phase
    PROVE  /\ spc = "queued" => Quiet \/ Sent
           /\ spc \in {"lockQueue", "handle", "lockWait", "makeRoom",
                       "announce", "reject"} => Served
           /\ spc = "reply" => Served \/ Updating
           /\ spc = "content" => Answering
           /\ spc \in {"victim", "checkLock"} => Evicting
           /\ spc \in {"receive", "store"} => Updating
           /\ spc = "reading" /\ toServer # << >> => Sent
           /\ spc \notin {"gone", "lost"}
BY DEF Phase, Quiet, Sent, Served, ServedPoint, Answering, Evicting, Denied,
   Updating, Updated

LEMMA PhaseOfClient ==
    ASSUME Phase
    PROVE  /\ cpc \in {"connecting", "failed", "idle", "exited"} => Quiet
           /\ cpc \in InCall => ~Quiet
           /\ cpc = "answer" /\ toClient # << >> =>
                 Answering \/ Evicting \/ Denied \/ Updating \/ Updated
           /\ cpc \in {"victim", "second"} =>
                 Evicting \/ Denied \/ Updating \/ Updated
           /\ cpc \in {"upload", "final"} => Updating \/ Updated
           /\ cpc = "content" => Answering
           /\ cpc \notin {"killed", "spin", "lost"}
BY DEF Phase, Quiet, Sent, Served, Answering, TruthfulAnswer, Evicting,
   Denied, Updating, Updated, Early, InCall

LEMMA InSyncInit == Init => InSync
BY DEF Init, InSync, Shape, InCall, Phase, Quiet

\* What decides on being in step.
seen == <<cpc, call, cleft, spc, request, status, sleft, streams, outcome>>

LEMMA SeenUnchanged ==
    ASSUME InSync, UNCHANGED seen
    PROVE  InSync'
<1> USE DEF seen, streams
<1>1. Gate' = Gate /\ Owed' = Owed
  BY DEF Gate, Owed
<1>2. Shape' = Shape
  BY <1>1 DEF Shape
<1>3. Quiet' = Quiet /\ Sent' = Sent
  BY DEF Quiet, Sent
<1>4. Served' = Served
  BY DEF Served, ServedPoint, Truthful
<1>5. Answering' = Answering
  BY <1>1 DEF Answering, TruthfulAnswer, Truthful
<1>6. Evicting' = Evicting
  BY <1>1 DEF Evicting
<1>7. Denied' = Denied
  BY <1>1 DEF Denied, Second
<1>8. Updating' = Updating
  BY <1>1 DEF Updating, Second, Agrees
<1>9. Updated' = Updated
  BY <1>1 DEF Updated, Second, Agrees
<1>10. Phase' = Phase
  BY <1>3, <1>4, <1>5, <1>6, <1>7, <1>8, <1>9, Zenon DEF Phase
<1> QED
  BY <1>2, <1>10 DEF InSync

LEMMA GateType ==
    ASSUME TypeInv, Shape
    PROVE  Gate \in Nat
<1>1. StreamTypes /\ cleft \in Nat
  BY TypesOfOwners DEF ClientTypes
<1>2. CASE cpc = "answer" /\ toClient # << >>
  <2>1. toClient[1] \in Response
    <3>1. toClient[1] \in Response \cup {Data} /\ 1 \in 1..Len(toClient)
      BY <1>1, <1>2, TailIsSuffix DEF StreamTypes, IsStream
    <3>2. toClient[1] # Data
      BY <1>2, <3>1 DEF Shape, InCall
    <3> QED
      BY <3>1, <3>2
  <2>2. toClient[1].n \in Nat
    BY <2>1, ResponseFields, ConstantTypes
  <2> QED
    BY <1>2, <2>2 DEF Gate
<1>3. CASE ~(cpc = "answer" /\ toClient # << >>)
  BY <1>1, <1>3 DEF Gate
<1> QED
  BY <1>2, <1>3

-----------------------------------------------------------------------------
(* The client reads                                                        *)

\* It takes the first k units, and what it waits for is k units nearer.
Takes(k) ==
    /\ k \in 0..Len(toClient)
    /\ toClient' = SubSeq(toClient, k + 1, Len(toClient))
    /\ UNCHANGED <<call, toServer, outcome, serverVars>>
    /\ cpc = "answer" => k # 0
    /\ cpc \in InCall /\ cpc' # "answer"

LEMMA TakesOne ==
    ASSUME TypeInv, toClient # << >>, toClient' = Tail(toClient),
           UNCHANGED <<call, toServer, outcome, serverVars>>,
           cpc \in InCall, cpc' # "answer"
    PROVE  /\ Takes(1)
           /\ Head(toClient) = toClient[1]
           /\ toClient[1] # Data => toClient[1] \in Response
<1>1. toClient \in Seq(Response \cup {Data})
  BY TypesOfOwners DEF StreamTypes, IsStream
<1> QED
  BY <1>1, TailIsSuffix DEF Takes

LEMMA TakesEffect ==
    ASSUME TypeInv, Shape, NEW k, Takes(k), Gate' = Gate - k
    PROVE  /\ Shape'
           /\ Len(toClient') = Len(toClient) - k
           /\ \A i \in 1..Len(toClient') : toClient'[i] = toClient[i + k]
           /\ Len(toClient) \in Nat /\ k \in Nat /\ Gate \in Nat
<1>1. /\ Len(toClient) \in Nat /\ k \in 0..Len(toClient)
      /\ Len(toClient') = Len(toClient) - k
      /\ \A i \in 1..(Len(toClient) - k) : toClient'[i] = toClient[i + k]
  BY TypesOfOwners, SuffixFacts DEF StreamTypes, IsStream, Takes
<1>2. Gate \in Nat
  BY GateType
<1>3. Shape'
  <2> SUFFICES ASSUME NEW i \in 1..Len(toClient')
               PROVE  toClient'[i] = Data <=> i < Gate'
    BY DEF Shape, Takes
  <2>1. i + k \in 1..Len(toClient) /\ toClient'[i] = toClient[i + k]
    BY <1>1
  <2>2. toClient[i + k] = Data <=> i + k < Gate
    BY <1>1, <2>1 DEF Shape, Takes
  <2> QED
    BY <1>1, <1>2, <2>1, <2>2
<1> QED
  BY <1>1, <1>2, <1>3

\* The head of the stream is of the kind the client expects.
LEMMA NothingLost ==
    ASSUME TypeInv, InSync
    PROVE  ~ClientLost
<1> SUFFICES ASSUME ClientLost PROVE FALSE
  OBVIOUS
<1>1. /\ Head(toClient) = toClient[1] /\ 1 \in 1..Len(toClient)
      /\ cpc \in InCall
  BY TypesOfOwners, TailIsSuffix DEF StreamTypes, IsStream, ClientLost, InCall
<1>2. toClient[1] = Data <=> 1 < Gate /\ cpc # "answer"
  BY <1>1 DEF InSync, Shape
<1>3. cleft \in Nat
  BY TypesOfOwners DEF ClientTypes
<1> QED
  BY <1>1, <1>2, <1>3 DEF ClientLost, Gate

\* Reads that leave the second Response, or the end of the content, to come.
LEMMA ReadsOn ==
    ASSUME TypeInv, InSync, NEW k, Takes(k), Gate' = Gate - k,
           Gate' \in Nat, Gate' # 0,
           \/ /\ cpc \in {"answer", "content"} /\ cpc' = "content"
              /\ call.op = "OP_READ_FILE"
              /\ cpc = "answer" => toClient[1].n > 0
           \/ /\ cpc \in {"answer", "victim"} /\ cpc' \in {"victim", "second"}
              /\ call.op \in Updates
    PROVE  InSync'
<1>1. /\ Shape'
      /\ Len(toClient') = Len(toClient) - k
      /\ \A i \in 1..Len(toClient') : toClient'[i] = toClient[i + k]
      /\ Len(toClient) \in Nat /\ k \in Nat /\ Gate \in Nat
  BY TakesEffect DEF InSync
<1>2. /\ UNCHANGED <<call, toServer, outcome, spc, request, status, sleft>>
      /\ cpc = "answer" => toClient # << >>
  <2>1. toClient = << >> => Len(toClient) = 0
    OBVIOUS
  <2> QED
    BY <2>1 DEF Takes, serverVars
<1>3. sleft \in Nat
  BY TypesOfOwners DEF WorkerTypes
<1>4. /\ Gate' \in Nat
      /\ Gate' \in 1..Len(toClient') => toClient'[Gate'] = toClient[Gate]
  BY <1>1
<1>5. ASSUME spc # "gone" PROVE Phase'
  <2>1. Answering \/ Evicting \/ Denied \/ Updating \/ Updated
    BY <1>2, <1>5, PhaseOfClient DEF InSync
  <2>2. CASE Answering
    <3>1. cpc' = "content" /\ call.op = "OP_READ_FILE"
      BY <2>2 DEF Answering, Updates
    <3>2. outcome = "ok"
      BY <2>2, <3>1 DEF Answering, TruthfulAnswer, Truthful, Updates
    <3>3. Answering'
      BY <1>1, <1>2, <1>3, <2>2, <3>1, <3>2 DEF Answering, TruthfulAnswer
    <3> QED
      BY <3>3, Zenon DEF Phase
  <2>3. CASE Evicting
    <3>1. cpc' \in Early /\ cpc' # "answer"
      BY <2>3 DEF Evicting, Early, Updates
    <3>2. Evicting'
      BY <1>1, <1>2, <1>3, <2>3, <3>1 DEF Evicting
    <3> QED
      BY <3>2, Zenon DEF Phase
  <2>4. CASE Denied
    <3>1. cpc' \in Early
      BY <2>4 DEF Denied, Early, Updates
    <3>2. Len(toClient') = Gate' /\ Gate \in 1..Len(toClient) /\ Gate # 0
      BY <1>1, <2>4 DEF Denied
    <3>3. Second(-1)'
      BY <1>1, <1>4, <2>4, <3>2 DEF Denied, Second
    <3>4. Denied'
      BY <1>2, <2>4, <3>1, <3>2, <3>3 DEF Denied
    <3> QED
      BY <3>4, Zenon DEF Phase
  <2>5. CASE Updating \/ Updated
    <3>1. /\ cpc \in Early /\ cpc' \in Early /\ Owed' = Owed
      BY <1>2, <2>5 DEF Updating, Updated, Early, Updates, Owed
    <3>2. CASE Updating
      <4>1. Len(toClient') = Gate' /\ Gate # 0
        BY <1>1, <3>2 DEF Updating
      <4>2. Second(0)'
        BY <1>1, <1>4, <3>2, <4>1 DEF Updating, Second
      <4>3. Updating'
        BY <1>2, <3>1, <3>2, <4>1, <4>2 DEF Updating, Agrees
      <4> QED
        BY <4>3, Zenon DEF Phase
    <3>3. CASE Updated
      <4>1. Len(toClient') - Gate' = Len(toClient) - Gate /\ Gate # 0
        BY <1>1
      <4>2. Len(toClient) = Gate \/ Len(toClient) = Gate + 1
        BY <3>3 DEF Updated
      <4>3. Second(0)'
        <5>1. Gate' \in 1..Len(toClient')
          BY <1>1, <1>4, <4>2
        <5>2. toClient[Gate].status = 0
          BY <3>3, <4>1 DEF Updated, Second
        <5> QED
          BY <1>4, <5>1, <5>2 DEF Second
      <4>4. Len(toClient) = Gate + 1 =>
               toClient'[Gate' + 1] = toClient[Gate + 1]
        BY <1>1, <1>4
      <4>5. Updated'
        BY <1>1, <1>2, <3>1, <3>3, <4>1, <4>3, <4>4 DEF Updated, Agrees
      <4> QED
        BY <4>5, Zenon DEF Phase
    <3> QED
      BY <2>5, <3>2, <3>3
  <2> QED
    BY <2>1, <2>2, <2>3, <2>4, <2>5
<1>6. cpc' # "lost" /\ spc' # "lost"
  BY <1>2 DEF InSync
<1> QED
  BY <1>1, <1>2, <1>5, <1>6 DEF InSync

\* The read of the second Response of an update that goes on.
LEMMA ReadsSecond ==
    ASSUME TypeInv, InSync, Takes(1), call.op \in Updates,
           cpc \in {"answer", "second"}, toClient[1].status \notin {-1, 1},
           Goes("upload", call.n)
    PROVE  InSync'
<1>1. /\ Len(toClient) \in Nat /\ 1 \in 1..Len(toClient)
      /\ UNCHANGED <<call, toServer, outcome, spc, request, status, sleft>>
      /\ cpc' = "upload" /\ cleft' = call.n
  BY TypesOfOwners DEF StreamTypes, IsStream, Takes, serverVars, Goes
<1>2. Gate = 1 /\ Gate' = 0 /\ Gate' = Gate - 1
  BY <1>1 DEF Gate
<1>3. /\ Shape'
      /\ Len(toClient') = Len(toClient) - 1
      /\ \A i \in 1..Len(toClient') : toClient'[i] = toClient[i + 1]
  BY <1>2, TakesEffect DEF InSync
<1>4. Owed = call.n /\ Owed' = Owed
  BY <1>1 DEF Owed, Early
<1>5. Second(0)'
  BY <1>2 DEF Second
<1>6. ASSUME spc # "gone" PROVE Phase'
  <2>1. Answering \/ Evicting \/ Denied \/ Updating \/ Updated
    BY <1>1, <1>6, PhaseOfClient DEF InSync
  <2>2. ~Answering
    BY DEF Answering
  <2>3. ~Evicting
    <3>1. sleft \in Nat
      BY TypesOfOwners DEF WorkerTypes
    <3> QED
      BY <1>1, <1>2, <3>1 DEF Evicting
  <2>4. ~Denied
    BY <1>2 DEF Denied, Second
  <2>5. CASE Updating
    <3>1. Len(toClient') = Gate'
      BY <1>1, <1>2, <1>3, <2>5 DEF Updating
    <3>2. Updating'
      BY <1>1, <1>4, <1>5, <2>5, <3>1 DEF Updating, Agrees
    <3> QED
      BY <3>2, Zenon DEF Phase
  <2>6. CASE Updated
    <3>1. /\ Len(toClient) = Gate => Len(toClient') = Gate'
          /\ Len(toClient) = Gate + 1 =>
                /\ Len(toClient') = Gate' + 1
                /\ toClient'[Gate' + 1] = toClient[Gate + 1]
      BY <1>1, <1>2, <1>3
    <3>2. Updated'
      BY <1>1, <1>4, <1>5, <2>6, <3>1 DEF Updated, Agrees
    <3> QED
      BY <3>2, Zenon DEF Phase
  <2> QED
    BY <2>1, <2>2, <2>3, <2>4, <2>5, <2>6
<1>7. cpc' # "lost" /\ spc' # "lost"
  BY <1>1 DEF InSync
<1> QED
  BY <1>1, <1>3, <1>6, <1>7 DEF InSync

-----------------------------------------------------------------------------
(* The client's steps keep in step                                         *)

LEMMA OneIsSum ==
    \A a, b \in Nat : a # 0 /\ a + b = 1 => a = 1 /\ b = 0
OBVIOUS

LEMMA Verdicts ==
    ASSUME NEW o
    PROVE  /\ o \in Blind => \A result : Call!Verdict(o, result) = {0}
           /\ o \notin Blind => /\ Call!Verdict(o, "ok") = {0}
                                /\ Call!Verdict(o, "empty") = {0, -1}
                                /\ Call!Verdict(o, "fail") = {-1}
BY DEF Call!Verdict

\* The last read of a call leaves nothing behind.
LEMMA ReadsLast ==
    ASSUME TypeInv, InSync, Takes(1), cpc' = "idle",
           spc # "gone" =>
               /\ Len(toClient) = 1
               /\ spc = "reading" /\ toServer = << >>
               /\ outcome # "pending"
               /\ ret' \in Call!Verdict(call.op, outcome)
    PROVE  InSync' /\ ReturnsVerdict
<1>1. UNCHANGED <<call, toServer, outcome, spc>>
  BY DEF Takes, serverVars
<1>2. Shape'
  BY DEF Shape, InCall
<1>3. ASSUME spc # "gone" PROVE Phase'
  <2>1. Len(toClient') = 0 /\ toClient' \in Seq(Response \cup {Data})
    BY <1>3, TypesOfOwners, SuffixFacts DEF StreamTypes, IsStream, Takes
  <2>2. Quiet'
    BY <1>1, <1>3, <2>1 DEF Quiet
  <2> QED
    BY <2>2, Zenon DEF Phase
<1>4. ReturnsVerdict
  BY DEF ReturnsVerdict
<1> QED
  BY <1>1, <1>2, <1>3, <1>4 DEF InSync

\* A call whose first Response is its last.
LEMMA AnswerReturns ==
    ASSUME TypeInv, InSync, cpc = "answer", Takes(1), cpc' = "idle",
           NEW s \in Int, NEW n \in Nat,
           toClient[1].status = s, toClient[1].n = n,
           \/ call.op \in Blind /\ ret' = 0
           \/ call.op = "OP_OPEN_FILE" /\ ret' = s
           \/ call.op \notin Blind \cup {"OP_OPEN_FILE"} /\ s = -1 /\ ret' = -1
           \/ /\ call.op = "OP_READ_FILE" /\ s # -1 /\ n = 0
              /\ ret' \in {-1, 0}
           \/ call.op = "OP_READ_N_FILES" /\ s # -1 /\ ret' = 0
    PROVE  InSync' /\ ReturnsVerdict
<1>1. /\ toClient # << >> /\ Len(toClient) \in Nat /\ Len(toClient) # 0
      /\ sleft \in Nat
  BY TypesOfOwners DEF StreamTypes, IsStream, WorkerTypes, Takes
<1>2. CASE spc = "gone"
  BY <1>2, ReadsLast
<1>3. CASE spc # "gone" /\ call.op \notin Updates
  <2>1. Answering
    BY <1>1, <1>3, PhaseOfClient DEF InSync, Evicting, Denied, Updating,
       Updated
  <2>2. Truthful(s, n)
    BY <2>1 DEF Answering, TruthfulAnswer
  <2>3. n = 0
    BY <2>2 DEF Truthful, Blind
  <2>4. Gate = 2
    BY <1>1, <1>3, <2>3 DEF Gate
  <2>5. Len(toClient) = 1 /\ sleft = 0
    <3>1. Len(toClient) + sleft = Gate - 1
      BY <2>1 DEF Answering
    <3>2. Len(toClient) + sleft = 1
      BY <2>4, <3>1
    <3> QED
      BY <1>1, <3>2, OneIsSum, Zenon
  <2>6. spc = "reading" /\ toServer = << >>
    BY <2>1, <2>5 DEF Answering, TypeInv, Counts
  <2>7. outcome # "pending"
    BY <2>2 DEF Truthful
  <2>8. ret' \in Call!Verdict(call.op, outcome)
    <3>1. CASE call.op \in Blind
      BY <3>1, Verdicts DEF Blind
    <3>2. CASE call.op = "OP_OPEN_FILE"
      <4>1. ret' = s /\ s \in {0, -1}
        BY <2>2, <3>2 DEF Truthful, Blind
      <4>2. outcome = IF s = -1 THEN "fail" ELSE "ok"
        BY <2>2, <2>3, <3>2 DEF Truthful, Blind
      <4>3. call.op \notin Blind
        BY <3>2 DEF Blind
      <4>4. ret' = IF outcome = "fail" THEN -1 ELSE 0
        BY <4>1, <4>2
      <4> QED
        BY <4>2, <4>3, <4>4, Verdicts
    <3>3. CASE call.op \notin Blind \cup {"OP_OPEN_FILE"}
      <4>1. outcome = IF s = -1 THEN "fail"
                      ELSE IF call.op = "OP_READ_FILE" THEN "empty" ELSE "ok"
        BY <2>2, <2>3, <3>3 DEF Truthful
      <4>2. call.op \notin Blind
        BY <3>3
      <4>3. \/ s = -1 /\ ret' = -1
            \/ s # -1 /\ call.op = "OP_READ_FILE" /\ ret' \in {-1, 0}
            \/ s # -1 /\ call.op # "OP_READ_FILE" /\ ret' = 0
        BY <3>3
      <4> QED
        BY <4>1, <4>2, <4>3, Verdicts
    <3> QED
      BY <3>1, <3>2, <3>3
  <2> QED
    BY <2>5, <2>6, <2>7, <2>8, ReadsLast
<1>4. CASE spc # "gone" /\ call.op \in Updates
  <2>1. s = -1 /\ ret' = -1 /\ call.op \notin Blind
    BY <1>4 DEF Updates, Blind
  <2>2. Gate = 1
    BY <1>4, <2>1 DEF Gate
  <2>3. Denied
    BY <1>1, <1>4, <2>1, <2>2, PhaseOfClient DEF InSync, Answering, Evicting,
       Updating, Updated, Second
  <2>4. /\ Len(toClient) = 1 /\ spc = "reading" /\ toServer = << >>
        /\ outcome = "fail"
    BY <2>2, <2>3 DEF Denied
  <2>5. ret' \in Call!Verdict(call.op, outcome)
    BY <2>1, <2>4, Verdicts
  <2> QED
    BY <2>4, <2>5, ReadsLast
<1> QED
  BY <1>2, <1>3, <1>4

LEMMA ReadAnswerStep ==
    ASSUME TypeInv, InSync, ReadAnswer
    PROVE  InSync' /\ ReturnsVerdict
<1> DEFINE s == toClient[1].status
           n == toClient[1].n
<1>1. /\ toClient # << >> /\ toClient' = Tail(toClient)
      /\ UNCHANGED <<call, toServer, outcome, serverVars>>
      /\ cpc = "answer" /\ cpc \in InCall
      /\ Head(toClient) # Data
      /\ Answered(Head(toClient).status, Head(toClient).n)
  BY DEF ReadAnswer, history, InCall
<1>2. cpc' \in {"idle", "content", "victim", "upload"}
  BY <1>1 DEF Answered, Returns, ReadsContent, ReadsNames, Goes
<1>3. Takes(1) /\ Head(toClient) = toClient[1] /\ toClient[1] \in Response
  BY <1>1, <1>2, TakesOne
<1>4. s \in -1..MaxList /\ n \in Nat
  BY <1>3, ResponseFields, ConstantTypes
<1>5. Answered(s, n)
  BY <1>1, <1>3
<1>6. \/ call.op \in Blind /\ Returns(0)
      \/ call.op = "OP_OPEN_FILE" /\ Returns(s)
      \/ call.op \notin Blind \cup {"OP_OPEN_FILE"} /\ s = -1 /\ Returns(-1)
      \/ call.op = "OP_READ_FILE" /\ s # -1 /\ ReadsContent(n)
      \/ call.op = "OP_READ_N_FILES" /\ s # -1 /\ ReadsNames(s)
      \/ call.op \in Updates /\ s = 1 /\ Goes("victim", n)
      \/ call.op \in Updates /\ s \notin {-1, 1} /\ Goes("upload", call.n)
  <2> HIDE DEF s, n
  <2> QED
    BY <1>5 DEF Answered, Updates
<1>7. CASE cpc' = "idle"
  <2> HIDE DEF s, n
  <2>1. \/ call.op \in Blind /\ ret' = 0
        \/ call.op = "OP_OPEN_FILE" /\ ret' = s
        \/ call.op \notin Blind \cup {"OP_OPEN_FILE"} /\ s = -1 /\ ret' = -1
        \/ /\ call.op = "OP_READ_FILE" /\ s # -1 /\ n = 0
           /\ ret' \in {-1, 0}
        \/ call.op = "OP_READ_N_FILES" /\ s # -1 /\ ret' = 0
    BY <1>4, <1>6, <1>7 DEF Returns, ReadsContent, ReadsNames, Goes
  <2>2. toClient[1].status = s /\ toClient[1].n = n
    BY DEF s, n
  <2> QED
    BY <1>1, <1>3, <1>4, <1>7, <2>1, <2>2, AnswerReturns
<1>8. CASE cpc' = "content"
  <2>1. call.op = "OP_READ_FILE" /\ n > 0 /\ cleft' = n
    <3> HIDE DEF s, n
    <3> QED
      BY <1>6, <1>8 DEF Returns, ReadsContent, ReadsNames, Goes
  <2>2. Gate = n + 2 /\ Gate' = n + 1
    <3>1. Gate = 2 + toClient[1].n
      BY <1>1, <2>1 DEF Gate, Updates
    <3>2. Gate' = cleft' + 1
      BY <1>8 DEF Gate
    <3> QED
      BY <1>4, <2>1, <3>1, <3>2
  <2>3. InSync'
    BY <1>1, <1>3, <1>4, <1>8, <2>1, <2>2, ReadsOn
  <2> QED
    BY <1>8, <2>3 DEF ReturnsVerdict, InCall
<1>9. CASE cpc' = "victim"
  <2>1. call.op \in Updates /\ s = 1 /\ cleft' = n
    <3> HIDE DEF s, n
    <3> QED
      BY <1>6, <1>9 DEF Returns, ReadsContent, ReadsNames, Goes
  <2>2. Gate = n + 2 /\ Gate' = n + 1
    <3>1. Gate = 2 + toClient[1].n
      BY <1>1, <2>1 DEF Gate
    <3>2. Gate' = cleft' + 1
      BY <1>9 DEF Gate
    <3> QED
      BY <1>4, <2>1, <3>1, <3>2
  <2>3. InSync'
    BY <1>1, <1>3, <1>4, <1>9, <2>1, <2>2, ReadsOn
  <2> QED
    BY <1>9, <2>3 DEF ReturnsVerdict, InCall
<1>10. CASE cpc' = "upload"
  <2>1. call.op \in Updates /\ s \notin {-1, 1} /\ Goes("upload", call.n)
    <3> HIDE DEF s, n
    <3> QED
      BY <1>6, <1>10 DEF Returns, ReadsContent, ReadsNames, Goes
  <2>2. InSync'
    BY <1>1, <1>3, <2>1, ReadsSecond
  <2> QED
    BY <1>10, <2>2 DEF ReturnsVerdict, InCall
<1> QED
  BY <1>2, <1>7, <1>8, <1>9, <1>10

LEMMA ReadVictimStep ==
    ASSUME TypeInv, InSync, ~misread', ReadVictim
    PROVE  InSync' /\ ReturnsVerdict
<1>1. /\ cpc = "victim" /\ call.op \in Updates
      /\ UNCHANGED <<call, toServer, outcome, serverVars>>
      /\ \/ cleft = 0 /\ Goes("second", 0) /\ toClient' = toClient
         \/ /\ cleft # 0 /\ toClient # << >> /\ toClient' = Tail(toClient)
            /\ Goes(IF cleft = 1 THEN "second" ELSE "victim", cleft - 1)
  BY DEF ReadVictim, Updates
<1>2. cleft \in Nat /\ toClient \in Seq(Response \cup {Data})
  BY TypesOfOwners DEF ClientTypes, StreamTypes, IsStream
<1>3. cpc' \in {"victim", "second"} /\ cpc \in InCall
  BY <1>1 DEF Goes, InCall
<1>4. \E k \in {0, 1} : Takes(k) /\ Gate' = Gate - k
  <2>1. CASE cleft = 0
    <3>1. toClient = SubSeq(toClient, 1, Len(toClient))
      BY <1>2
    <3>2. Takes(0)
      BY <1>1, <1>2, <1>3, <2>1, <3>1 DEF Takes
    <3>3. Gate = 1 /\ Gate' = 1
      BY <1>1, <2>1 DEF Gate, Goes
    <3> QED
      BY <3>2, <3>3
  <2>2. CASE cleft # 0
    <3>1. Takes(1)
      BY <1>1, <1>3, <2>2, TakesOne
    <3>2. Gate = cleft + 1 /\ Gate' = cleft
      BY <1>1, <1>2, <2>2 DEF Gate, Goes
    <3> QED
      BY <1>2, <3>1, <3>2
  <2> QED
    BY <2>1, <2>2
<1>5. Gate' \in Nat /\ Gate' # 0
  BY <1>1, <1>2 DEF Gate, Goes
<1>6. InSync'
  BY <1>1, <1>3, <1>4, <1>5, ReadsOn
<1> QED
  BY <1>3, <1>6 DEF ReturnsVerdict, InCall

LEMMA ReadVictimOnceStep ==
    ASSUME TypeInv, InSync, ~misread', ReadVictimOnce
    PROVE  InSync' /\ ReturnsVerdict
<1>1. /\ cpc = "victim" /\ call.op \in Updates
      /\ UNCHANGED <<call, toServer, outcome, serverVars>>
      /\ Goes("second", 0)
  BY DEF ReadVictimOnce, Updates
<1>2. PICK k \in {Min({cleft, Arrived(toClient)})} :
         /\ toClient' = SubSeq(toClient, k + 1, Len(toClient))
         /\ misread' = (misread \/ k < cleft)
  BY Zenon DEF ReadVictimOnce
<1>3. cleft \in Nat /\ Arrived(toClient) \in 0..Len(toClient)
  BY TypesOfOwners, ArrivedFacts DEF ClientTypes, StreamTypes, IsStream
<1>4. ~(k < cleft)
  BY <1>2, Zenon
<1>5. k = cleft /\ k \in 0..Len(toClient)
  <2>1. Len(toClient) \in Nat
    BY TypesOfOwners DEF StreamTypes, IsStream
  <2>2. Arrived(toClient) \in Nat
    BY <1>3, <2>1
  <2>3. k \in {cleft, Arrived(toClient)} /\ k <= cleft /\ k <= Arrived(toClient)
    BY <1>3, <2>2, SmallerOfTwo
  <2> QED
    BY <1>3, <1>4, <2>1, <2>3
<1>6. Takes(k)
  BY <1>1, <1>2, <1>5 DEF Takes, Goes, InCall
<1>7. Gate' = 1 /\ Gate = k + 1
  BY <1>1, <1>5 DEF Gate, Goes
<1>8. InSync'
  BY <1>1, <1>3, <1>5, <1>6, <1>7, ReadsOn DEF Goes
<1> QED
  BY <1>1, <1>8 DEF ReturnsVerdict, InCall, Goes

LEMMA ReadSecondStep ==
    ASSUME TypeInv, InSync, ReadSecond
    PROVE  InSync' /\ ReturnsVerdict
<1>1. /\ cpc = "second" /\ cpc \in InCall
      /\ toClient # << >> /\ toClient' = Tail(toClient)
      /\ Head(toClient) # Data
      /\ UNCHANGED <<call, toServer, outcome, serverVars>>
      /\ IF Head(toClient).status = -1 THEN Returns(-1)
         ELSE Goes("upload", call.n)
  BY DEF ReadSecond, history, InCall
<1>2. cpc' \in {"idle", "upload"}
  BY <1>1 DEF Returns, Goes
<1>3. Takes(1) /\ Head(toClient) = toClient[1] /\ toClient[1] \in Response
  BY <1>1, <1>2, TakesOne
<1>4. Gate = 1
  BY <1>1 DEF Gate
<1>5. Len(toClient) \in Nat /\ Len(toClient) # 0 /\ sleft \in Nat
  BY <1>1, TypesOfOwners DEF StreamTypes, IsStream, WorkerTypes
<1>6. spc # "gone" => Denied \/ Updating \/ Updated
  <2>1. ~Evicting
    BY <1>4, <1>5 DEF Evicting
  <2> QED
    BY <1>1, <2>1, PhaseOfClient DEF InSync
<1>7. CASE toClient[1].status = -1
  <2>1. Returns(-1)
    BY <1>1, <1>3, <1>7
  <2>2. spc # "gone" => Denied
    BY <1>4, <1>6, <1>7 DEF Updating, Updated, Second
  <2>3. ASSUME Denied
        PROVE  /\ Len(toClient) = 1
               /\ spc = "reading" /\ toServer = << >>
               /\ outcome = "fail" /\ call.op \notin Blind
    BY <1>4, <2>3 DEF Denied, Updates, Blind
  <2>4. spc # "gone" => -1 \in Call!Verdict(call.op, outcome)
    BY <2>2, <2>3, Verdicts
  <2> QED
    BY <1>3, <2>1, <2>2, <2>3, <2>4, ReadsLast DEF Returns
<1>8. CASE toClient[1].status # -1
  <2>1. Goes("upload", call.n)
    BY <1>1, <1>3, <1>8
  <2>2. CASE spc = "gone"
    <3>1. Gate' = Gate - 1
      BY <1>4, <2>1 DEF Gate, Goes
    <3>2. Shape'
      BY <1>3, <3>1, TakesEffect DEF InSync
    <3>3. spc' = spc /\ cpc' = "upload"
      BY <1>1, <2>1 DEF serverVars, Goes
    <3> QED
      BY <2>2, <3>2, <3>3 DEF InSync, ReturnsVerdict
  <2>3. CASE spc # "gone"
    <3>1. Updating \/ Updated
      BY <1>4, <1>6, <1>8, <2>3 DEF Denied, Second
    <3>2. call.op \in Updates /\ toClient[1].status = 0
      BY <1>4, <3>1 DEF Updating, Updated, Second
    <3>3. InSync'
      BY <1>1, <1>3, <2>1, <3>2, ReadsSecond
    <3> QED
      BY <2>1, <3>3 DEF ReturnsVerdict, Goes, InCall
  <2> QED
    BY <2>2, <2>3
<1> QED
  BY <1>7, <1>8

LEMMA ReadFinalStep ==
    ASSUME TypeInv, InSync, ReadFinal
    PROVE  InSync' /\ ReturnsVerdict
<1>1. /\ cpc = "final" /\ cpc \in InCall
      /\ toClient # << >> /\ toClient' = Tail(toClient)
      /\ Head(toClient) # Data
      /\ UNCHANGED <<call, toServer, outcome, serverVars>>
      /\ Returns(Head(toClient).status)
  BY DEF ReadFinal, history, InCall
<1>2. cpc' = "idle"
  BY <1>1 DEF Returns
<1>3. Takes(1) /\ Head(toClient) = toClient[1]
  BY <1>1, <1>2, TakesOne
<1>4. Gate = 0
  BY <1>1 DEF Gate
<1>5. Len(toClient) \in Nat /\ Len(toClient) # 0
  BY <1>1, TypesOfOwners DEF StreamTypes, IsStream
<1>6. ASSUME spc # "gone"
      PROVE  /\ Len(toClient) = 1
             /\ spc = "reading" /\ toServer = << >>
             /\ outcome # "pending"
             /\ toClient[1].status \in Call!Verdict(call.op, outcome)
  <2>1. Updated
    BY <1>1, <1>4, <1>5, <1>6, PhaseOfClient DEF InSync, Updating
  <2>2. /\ Len(toClient) = 1 /\ Agrees(toClient[1].status)
        /\ spc = "reading" /\ toServer = << >> /\ call.op \notin Blind
    BY <1>4, <1>5, <2>1 DEF Updated, Updates, Blind
  <2> QED
    BY <2>2, Verdicts DEF Agrees
<1> QED
  BY <1>1, <1>2, <1>3, <1>6, ReadsLast DEF Returns

LEMMA ReadContentStep ==
    ASSUME TypeInv, InSync, ReadContent
    PROVE  InSync' /\ ReturnsVerdict
<1>1. /\ cpc = "content" /\ cpc \in InCall
      /\ toClient # << >> /\ toClient' = Tail(toClient)
      /\ UNCHANGED <<call, toServer, outcome, serverVars>>
  BY DEF ReadContent, history, InCall
<1>2. \/ cleft = 1 /\ Returns(0)
      \/ cleft # 1 /\ Goes("content", cleft - 1)
  BY Zenon DEF ReadContent
<1>3. Takes(1)
  BY <1>1, <1>2, TakesOne DEF Returns, Goes
<1>4. /\ Len(toClient) \in Nat /\ Len(toClient) # 0
      /\ sleft \in Nat /\ cleft \in Nat /\ cleft # 0
  BY <1>1, TypesOfOwners DEF StreamTypes, IsStream, WorkerTypes, ClientTypes
<1>5. Gate = cleft + 1
  BY <1>1 DEF Gate
<1>6. spc # "gone" => Answering
  BY <1>1, PhaseOfClient DEF InSync
<1>7. ASSUME Answering PROVE outcome = "ok" /\ call.op = "OP_READ_FILE"
  BY <1>1, <1>7 DEF Answering, TruthfulAnswer
<1>8. CASE cleft = 1 /\ Returns(0)
  <2>1. ASSUME spc # "gone"
        PROVE  /\ Len(toClient) = 1
               /\ spc = "reading" /\ toServer = << >>
               /\ outcome # "pending"
               /\ 0 \in Call!Verdict(call.op, outcome)
    <3>1. Len(toClient) + sleft = 1
      BY <1>4, <1>5, <1>6, <1>8, <2>1 DEF Answering
    <3>2. Len(toClient) = 1 /\ sleft = 0
      BY <1>4, <3>1, OneIsSum, Zenon
    <3>3. spc = "reading" /\ toServer = << >>
      BY <1>6, <2>1, <3>2 DEF Answering, TypeInv, Counts
    <3> QED
      BY <1>6, <1>7, <2>1, <3>2, <3>3, Verdicts DEF Blind
  <2> QED
    BY <1>3, <1>8, <2>1, ReadsLast DEF Returns
<1>9. CASE cleft # 1 /\ Goes("content", cleft - 1)
  <2>1. Gate' = cleft /\ cpc' = "content"
    BY <1>4, <1>9 DEF Gate, Goes
  <2>2. CASE spc # "gone"
    <3>1. InSync'
      BY <1>1, <1>3, <1>4, <1>5, <1>6, <1>7, <2>1, <2>2, ReadsOn
    <3> QED
      BY <2>1, <3>1 DEF ReturnsVerdict, InCall
  <2>3. CASE spc = "gone"
    <3>1. Gate' = Gate - 1
      BY <1>4, <1>5, <2>1
    <3>2. Shape'
      BY <1>3, <3>1, TakesEffect DEF InSync
    <3>3. spc' = spc
      BY <1>1 DEF serverVars
    <3> QED
      BY <2>1, <2>3, <3>2, <3>3 DEF InSync, ReturnsVerdict
  <2> QED
    BY <2>2, <2>3
<1> QED
  BY <1>2, <1>8, <1>9

LEMMA UploadStep ==
    ASSUME TypeInv, InSync, Upload
    PROVE  InSync' /\ ReturnsVerdict
<1>1. /\ cpc = "upload" /\ spc # "gone"
      /\ UNCHANGED <<call, toClient, outcome, spc, request, status, sleft>>
  BY DEF Upload, ServerEnded, serverVars, history
<1>2. \/ cleft = 0 /\ Goes("final", 0) /\ toServer' = toServer
      \/ /\ cleft # 0 /\ toServer' = Append(toServer, Data)
         /\ Goes(IF cleft = 1 THEN "final" ELSE "upload", cleft - 1)
  BY Zenon DEF Upload, ToServer
<1>3. cpc' \in {"upload", "final"} /\ cleft \in Nat
  BY <1>2, TypesOfOwners DEF Goes, ClientTypes
<1>4. Gate = 0 /\ Gate' = 0
  BY <1>1, <1>3 DEF Gate
<1>5. Shape'
  BY <1>1, <1>3, <1>4 DEF InSync, Shape, InCall
<1>6. Second(0)'
  BY <1>4 DEF Second
<1>7. Owed = cleft /\ Owed' = IF cleft = 0 THEN 0 ELSE cleft - 1
  BY <1>1, <1>2, <1>3 DEF Owed, Early, Goes
<1>8. Phase'
  <2>1. CASE Updating
    <3>1. toServer \in Seq(Request \cup {Data}) /\ sleft \in Nat
      BY TypesOfOwners DEF StreamTypes, IsStream, WorkerTypes
    <3>2. /\ Len(toServer') + Owed' = Len(toServer) + Owed
          /\ \A i \in 1..Len(toServer') : toServer'[i] = Data
      <4>1. CASE cleft = 0
        BY <1>2, <1>7, <2>1, <4>1 DEF Updating
      <4>2. CASE cleft # 0
        <5>1. toServer' = Append(toServer, Data)
          BY <1>2, <4>2
        <5>2. /\ Len(toServer') = Len(toServer) + 1
              /\ \A i \in 1..Len(toServer) : toServer'[i] = toServer[i]
              /\ toServer'[Len(toServer) + 1] = Data
          BY <3>1, <5>1
        <5>3. \A i \in 1..Len(toServer) : toServer[i] = Data
          BY <2>1 DEF Updating
        <5>4. Len(toServer) \in Nat
          BY <3>1
        <5>5. Len(toServer') + Owed' = Len(toServer) + Owed
          BY <1>3, <1>7, <4>2, <5>2, <5>4
        <5> QED
          BY <5>2, <5>3, <5>4, <5>5
      <4> QED
        BY <4>1, <4>2
    <3>3. Updating'
      BY <1>1, <1>3, <1>4, <1>6, <2>1, <3>2 DEF Updating, Agrees
    <3> QED
      BY <3>3, Zenon DEF Phase
  <2>2. CASE Updated
    <3>1. cleft = 0
      BY <1>7, <2>2 DEF Updated
    <3>2. toServer' = toServer /\ Owed' = Owed
      BY <1>2, <1>7, <3>1
    <3>3. Updated'
      BY <1>1, <1>3, <1>4, <1>6, <2>2, <3>2 DEF Updated, Agrees
    <3> QED
      BY <3>3, Zenon DEF Phase
  <2> QED
    BY <1>1, <2>1, <2>2, PhaseOfClient DEF InSync
<1> QED
  BY <1>1, <1>3, <1>5, <1>8 DEF InSync, ReturnsVerdict, InCall

LEMMA InvokeStep ==
    ASSUME TypeInv, InSync, Invoke
    PROVE  InSync'
<1>1. Quiet /\ spc' = spc
  BY PhaseOfClient DEF InSync, Invoke, ServerEnded, serverVars
<1>2. /\ toServer' = <<call'>> /\ toClient' = << >>
      /\ cpc' = "answer" /\ outcome' = "pending"
  <2>1. toServer' = Append(<< >>, Head(todo)) /\ call' = Head(todo)
    BY <1>1 DEF Quiet, Invoke, ToServer
  <2> QED
    BY <1>1, <2>1 DEF Quiet, Invoke
<1>3. Sent'
  BY <1>1, <1>2 DEF Quiet, Sent
<1>4. Phase'
  BY <1>3, Zenon DEF Phase
<1>5. Shape'
  BY <1>2 DEF Shape
<1> QED
  BY <1>1, <1>2, <1>4, <1>5 DEF Quiet, InSync

\* With the server gone there is nothing to be in step with.
LEMMA AloneStep ==
    ASSUME InSync, AtEndOfFile \/ WriteToNobody
    PROVE  InSync' /\ ReturnsVerdict
<1>1. /\ spc = "gone" /\ spc' = spc
      /\ cpc' # "lost"
      /\ cpc' = "killed" \/ toClient' = << >>
  <2>1. CASE WriteToNobody
    BY <2>1 DEF WriteToNobody, ServerEnded, serverVars
  <2>2. CASE ReadAnswerEnd
    <3>1. PICK s \in -1..1, n \in Sizes : Answered(s, n)
      BY <2>2 DEF ReadAnswerEnd
    <3>2. cpc' # "lost"
      BY <3>1 DEF Answered, Returns, Goes, ReadsContent, ReadsNames
    <3> QED
      BY <2>2, <3>2 DEF ReadAnswerEnd, EndOfFile, ServerEnded, serverVars,
         streams
  <2>3. CASE \/ ReadAnswerReset \/ ReadVictimEnd \/ ReadSecondEnd
             \/ ReadFinalEnd \/ ReadContentEnd
    BY <2>3 DEF ReadAnswerReset, ReadVictimEnd, ReadSecondEnd, ReadFinalEnd,
       ReadContentEnd, EndOfFile, ServerEnded, serverVars, streams, Returns,
       Goes
  <2> QED
    BY <2>1, <2>2, <2>3 DEF AtEndOfFile
<1>2. Shape'
  BY <1>1 DEF Shape, InCall
<1> QED
  BY <1>1, <1>2 DEF InSync, ReturnsVerdict

LEMMA EnvironmentStep ==
    ASSUME InSync, Environment
    PROVE  InSync' /\ UNCHANGED <<call, outcome, ret>>
           /\ (cpc \in InCall <=> cpc' \in InCall)
<1>1. UNCHANGED <<call, cleft, spc, request, status, sleft, streams, outcome>>
      /\ UNCHANGED ret
  BY DEF Environment, Unlink, Bind, Listen, Connecting, Connected, Refused,
     GiveUp, TakeOption, CloseConnection, clientVars, serverVars, history
<1>2. \/ cpc' = cpc
      \/ /\ cpc \in {"connecting", "idle"}
         /\ cpc' \in {"idle", "failed", "exited"}
  BY DEF Environment, Unlink, Bind, Listen, Connecting, Connected, Refused,
     GiveUp, TakeOption, CloseConnection, clientVars
<1>3. CASE cpc' = cpc
  BY <1>1, <1>3, SeenUnchanged DEF seen
<1>4. CASE /\ cpc \in {"connecting", "idle"}
           /\ cpc' \in {"idle", "failed", "exited"}
  <2>1. Shape'
    BY <1>4 DEF Shape, InCall
  <2>2. ASSUME spc # "gone" PROVE Phase'
    <3>1. Quiet
      BY <1>4, <2>2, PhaseOfClient DEF InSync
    <3>2. Quiet'
      BY <1>1, <1>4, <3>1 DEF Quiet, streams
    <3> QED
      BY <3>2, Zenon DEF Phase
  <2> QED
    BY <1>1, <1>4, <2>1, <2>2 DEF InSync, InCall
<1> QED
  BY <1>2, <1>3, <1>4

LEMMA ClientStepsInSync ==
    ASSUME TypeInv, InSync, ~misread', ClientStep, ~Invoke
    PROVE  InSync' /\ ReturnsVerdict
BY NothingLost, ReadAnswerStep, ReadVictimStep, ReadVictimOnceStep,
   ReadSecondStep, ReadFinalStep, ReadContentStep, UploadStep, AloneStep
   DEF ClientStep

-----------------------------------------------------------------------------
(* The worker's steps keep in step                                         *)

\* The worker writes, and the client's point stays.
Puts(unit) ==
    /\ toClient' = Append(toClient, unit)
    /\ UNCHANGED <<cpc, call, cleft, toServer>>

\* A unit is put where the client expects one of its kind.
LEMMA PutsNext ==
    ASSUME TypeInv, Shape, NEW unit \in Response \cup {Data}, Puts(unit),
           cpc \in InCall,
           unit = Data <=> Len(toClient) + 1 < Gate,
           cpc = "answer" /\ toClient = << >> =>
               unit # Data /\ call.op \in Updates /\ unit.status # 1
    PROVE  /\ Gate' = Gate /\ Shape'
           /\ Len(toClient') = Len(toClient) + 1
           /\ toClient'[Len(toClient) + 1] = unit
           /\ \A i \in 1..Len(toClient) : toClient'[i] = toClient[i]
           /\ Len(toClient) \in Nat /\ Gate \in Nat
           /\ toClient' # << >>
<1>1. /\ Len(toClient') = Len(toClient) + 1
      /\ toClient'[Len(toClient) + 1] = unit
      /\ \A i \in 1..Len(toClient) : toClient'[i] = toClient[i]
      /\ Len(toClient) \in Nat /\ toClient' # << >>
      /\ toClient = << >> => Len(toClient) = 0
      /\ toClient # << >> => 1 \in 1..Len(toClient)
  BY TypesOfOwners, AppendFacts DEF StreamTypes, IsStream, Puts
<1>2. Gate \in Nat
  BY GateType
<1>3. Gate' = Gate
  <2>1. CASE cpc = "answer" /\ toClient = << >>
    <3>1. Gate = 1
      BY <2>1 DEF Gate
    <3>2. toClient'[1] = unit
      BY <1>1, <2>1
    <3>3. Gate' = 1
      BY <1>1, <2>1, <3>2 DEF Gate, Puts
    <3> QED
      BY <3>1, <3>3
  <2>2. CASE cpc = "answer" /\ toClient # << >>
    <3>1. toClient'[1] = toClient[1]
      BY <1>1, <2>2
    <3> QED
      BY <1>1, <2>2, <3>1 DEF Gate, Puts
  <2>3. CASE cpc # "answer"
    BY <2>3 DEF Gate, Puts
  <2> QED
    BY <2>1, <2>2, <2>3
<1>4. Shape'
  <2> SUFFICES ASSUME NEW i \in 1..Len(toClient')
               PROVE  toClient'[i] = Data
                      <=> i < Gate /\ (cpc = "answer" => i # 1)
    BY <1>3 DEF Shape, Puts
  <2>1. CASE i = Len(toClient) + 1
    <3>1. i = 1 => toClient = << >>
      BY <1>1, <2>1
    <3> QED
      BY <1>1, <2>1, <3>1
  <2>2. CASE i # Len(toClient) + 1
    <3>1. i \in 1..Len(toClient) /\ toClient'[i] = toClient[i]
      BY <1>1, <2>2
    <3> QED
      BY <3>1 DEF Shape
  <2> QED
    BY <2>1, <2>2
<1> QED
  BY <1>1, <1>2, <1>3, <1>4

\* The first Response of a call.
LEMMA PutsFirst ==
    ASSUME TypeInv, NEW unit \in Response, Puts(unit),
           cpc = "answer", toClient = << >>
    PROVE  /\ Gate' = IF call.op \in Updates /\ unit.status # 1
                      THEN 1 ELSE 2 + unit.n
           /\ Shape'
           /\ Len(toClient') = 1 /\ toClient'[1] = unit
           /\ toClient' # << >>
<1>1. Len(toClient') = 1 /\ toClient'[1] = unit /\ toClient' # << >>
  BY DEF Puts
<1>2. unit # Data
  BY ConstantTypes
<1>3. Shape'
  BY <1>1, <1>2 DEF Shape, Puts
<1> QED
  BY <1>1, <1>3 DEF Gate, Puts

LEMMA ServedSteps ==
    ASSUME TypeInv, InSync, Served,
           UNCHANGED <<cpc, call, cleft, toClient, toServer, request>>,
           ServedPoint'
    PROVE  InSync'
<1>1. Served'
  BY DEF Served
<1>2. Phase'
  BY <1>1, Zenon DEF Phase
<1>3. Shape'
  BY DEF Shape, Served
<1> QED
  BY <1>1, <1>2, <1>3 DEF InSync, Served, ServedPoint

LEMMA PopStep ==
    ASSUME TypeInv, InSync, Pop
    PROVE  InSync'
<1>1. /\ spc = "queued" /\ spc' = "reading"
      /\ UNCHANGED <<cpc, call, cleft, toServer, toClient, outcome>>
  BY DEF Pop, Goto, clientVars, streams, history
<1>2. Quiet \/ Sent
  BY <1>1, PhaseOfWorker DEF InSync
<1>3. Quiet' \/ Sent'
  BY <1>1, <1>2 DEF Quiet, Sent
<1>4. Phase'
  BY <1>3, Zenon DEF Phase
<1>5. Gate' = Gate
  BY <1>1 DEF Gate
<1> QED
  BY <1>1, <1>4, <1>5 DEF InSync, Shape

LEMMA TakeRequestStep ==
    ASSUME TypeInv, InSync, TakeRequest
    PROVE  InSync'
<1>1. /\ spc = "reading" /\ spc' = "lockQueue" /\ toServer # << >>
      /\ request' = Head(toServer) /\ toServer' = Tail(toServer)
      /\ UNCHANGED <<cpc, call, cleft, toClient, outcome>>
  BY DEF TakeRequest, Goto, clientVars, history
<1>2. Sent
  BY <1>1, PhaseOfWorker DEF InSync
<1>3. request' = call /\ toServer' = << >>
  BY <1>1, <1>2 DEF Sent
<1>4. Served'
  BY <1>1, <1>2, <1>3 DEF Sent, Served, ServedPoint
<1>5. Phase'
  BY <1>4, Zenon DEF Phase
<1>6. Shape'
  BY <1>1, <1>2 DEF Shape, Sent
<1> QED
  BY <1>1, <1>5, <1>6 DEF InSync

LEMMA EndsStep ==
    ASSUME TypeInv, InSync, ReadEnd \/ EndServer
    PROVE  InSync'
<1>1. spc' = "gone" /\ UNCHANGED <<cpc, call, cleft, toClient>>
  BY DEF ReadEnd, EndServer, Goto, clientVars, streams
<1>2. Gate' = Gate
  BY <1>1 DEF Gate
<1> QED
  BY <1>1, <1>2 DEF InSync, Shape

LEMMA ServerNotLost ==
    ASSUME TypeInv, InSync
    PROVE  ~ServerLost
<1> SUFFICES ASSUME ServerLost PROVE FALSE
  OBVIOUS
<1>1. toServer # << >> /\ toServer \in Seq(Request \cup {Data})
  BY TypesOfOwners DEF StreamTypes, IsStream, ServerLost
<1>2. CASE spc = "reading" /\ Head(toServer) = Data
  <2>1. toServer = <<call>>
    BY <1>1, <1>2, PhaseOfWorker DEF InSync, Sent
  <2>2. call \in Request
    BY TypesOfOwners DEF ClientTypes
  <2> QED
    BY <1>2, <2>1, <2>2, ConstantTypes
<1>3. CASE spc = "receive" /\ Head(toServer) # Data
  <2>1. Updating
    BY <1>3, PhaseOfWorker DEF InSync
  <2>2. 1 \in 1..Len(toServer) /\ Head(toServer) = toServer[1]
    BY <1>1
  <2> QED
    BY <1>3, <2>1, <2>2 DEF Updating
<1> QED
  BY <1>2, <1>3 DEF ServerLost

\* Between the request and the answer: the mutex, the lock, the decision.
LEMMA HandleSteps ==
    ASSUME TypeInv, InSync,
           \/ LockQueue \/ WaitForLock \/ WakeUp
           \/ Handle \/ HandleRead \/ HandleReadN
    PROVE  InSync' /\ ExecutesOnce
<1>1. UNCHANGED <<cpc, call, cleft, toClient, toServer, request>>
  BY DEF LockQueue, WaitForLock, WakeUp, Handle, HandleRead, HandleReadN,
     clientVars, streams
<1>2. spc \in {"lockQueue", "handle", "lockWait"}
  BY DEF LockQueue, WaitForLock, WakeUp, Handle, HandleRead, HandleReadN
<1>3. Served
  BY <1>2, PhaseOfWorker DEF InSync
<1>4. /\ request = call /\ outcome = "pending" /\ sleft = 0
      /\ cpc \in InCall
  BY <1>2, <1>3 DEF Served, ServedPoint, TypeInv, Counts, InCall
<1>5. ServedPoint'
  <2>1. CASE LockQueue
    BY <1>1, <1>4, <2>1 DEF LockQueue, Goto, history, ServedPoint, Updates
  <2>2. CASE WaitForLock \/ WakeUp
    BY <1>1, <1>3, <1>4, <2>2 DEF WaitForLock, WakeUp, Goto, history, Served,
       ServedPoint
  <2>3. CASE Handle
    <3>1. /\ spc' = "reply" /\ call'.op = call.op /\ sleft' = 0
          /\ call.op \in Blind \cup {"OP_OPEN_FILE"}
      BY <1>1, <1>4, <2>3 DEF Handle, Goto
    <3>2. /\ outcome' \in {"ok", "fail"}
          /\ call.op = "OP_OPEN_FILE" =>
                status' = IF outcome' = "fail" THEN -1 ELSE 0
      BY <1>4, <2>3 DEF Handle, Decides
    <3>3. Truthful(status, sleft)'
      BY <3>1, <3>2 DEF Truthful, Blind
    <3> QED
      BY <3>1, <3>3 DEF ServedPoint, Blind, Updates
  <2>4. CASE HandleRead
    <3>1. spc' = "reply" /\ call'.op = "OP_READ_FILE"
      BY <1>1, <1>4, <2>4 DEF HandleRead, Goto
    <3>2. \/ outcome' = "fail" /\ status' = -1 /\ sleft' = 0
          \/ outcome' = "empty" /\ status' = 0 /\ sleft' = 0
          \/ outcome' = "ok" /\ status' = 0 /\ sleft' \in Sizes /\ sleft' # 0
      BY <2>4 DEF HandleRead, Decides
    <3>3. sleft' \in Nat
      BY <3>2, ConstantTypes
    <3>4. Truthful(status, sleft)'
      BY <3>1, <3>2, <3>3 DEF Truthful
    <3> QED
      BY <3>1, <3>4 DEF ServedPoint, Updates
  <2>5. CASE HandleReadN
    <3>1. call'.op = "OP_READ_N_FILES" /\ sleft' = 0
      BY <1>1, <1>4, <2>5 DEF HandleReadN
    <3>2. \/ outcome' = "fail" /\ spc' = "reject"
          \/ \E k \in 1..MaxList :
                outcome' = "ok" /\ spc' = "reply" /\ status' = k
      BY <2>5 DEF HandleReadN, Decides, Goto
    <3>3. CASE outcome' = "fail" /\ spc' = "reject"
      BY <3>1, <3>3 DEF ServedPoint
    <3>4. CASE outcome' = "ok" /\ spc' = "reply" /\ status' \in 1..MaxList
      <4>1. Truthful(status, sleft)'
        BY <3>1, <3>4 DEF Truthful
      <4> QED
        BY <3>1, <3>4, <4>1 DEF ServedPoint, Updates
    <3> QED
      BY <3>2, <3>3, <3>4
  <2> QED
    BY <2>1, <2>2, <2>3, <2>4, <2>5
<1>6. InSync'
  BY <1>1, <1>3, <1>5, ServedSteps
<1> QED
  BY <1>4, <1>6 DEF ExecutesOnce

\* The answer to a call that is no update, and its content.
LEMMA AnswersOne ==
    ASSUME TypeInv, InSync, Served, call.op \notin Updates,
           NEW s \in -1..MaxList, NEW n \in Sizes, Truthful(s, n),
           Puts([status |-> s, n |-> n]), outcome' = outcome,
           sleft' = n,
           \/ spc' = "reading" /\ n = 0
           \/ spc' = "content" /\ request' = request /\ n # 0
    PROVE  InSync'
<1> DEFINE unit == [status |-> s, n |-> n]
<1>1. unit \in Response /\ unit.status = s /\ unit.n = n /\ n \in Nat
  BY ResponseType, ConstantTypes
<1> HIDE DEF unit
<1>2. Puts(unit)
  BY DEF unit
<1>3. cpc = "answer" /\ toClient = << >> /\ toServer = << >> /\ request = call
  BY DEF Served
<1>4. /\ Gate' = 2 + n /\ Shape'
      /\ Len(toClient') = 1 /\ toClient'[1] = unit /\ toClient' # << >>
  BY <1>1, <1>2, <1>3, PutsFirst
<1>5. UNCHANGED <<cpc, call, toServer>>
  BY <1>2 DEF Puts
<1>6. TruthfulAnswer'
  <2>1. /\ cpc' = "answer"
        /\ toClient'[1].status = s /\ toClient'[1].n = n
    BY <1>1, <1>3, <1>4, <1>5
  <2>2. Truthful(s, n)'
    BY <1>5 DEF Truthful
  <2>3. Truthful(toClient[1].status, toClient[1].n)'
    BY <2>1, <2>2 DEF Truthful
  <2> QED
    BY <1>4, <2>1, <2>3 DEF TruthfulAnswer
<1>7. Answering'
  BY <1>1, <1>3, <1>4, <1>5, <1>6 DEF Answering
<1>8. Phase'
  BY <1>7, Zenon DEF Phase
<1> QED
  BY <1>3, <1>4, <1>5, <1>8 DEF InSync

LEMMA ReplyStep ==
    ASSUME TypeInv, InSync, Reply
    PROVE  InSync'
<1>1. /\ spc = "reply"
      /\ UNCHANGED <<cpc, call, cleft, toServer, outcome, sleft>>
      /\ Puts([status |-> status, n |-> sleft])
      /\ \/ sleft = 0 /\ spc' = "reading"
         \/ sleft # 0 /\ spc' = "content" /\ request' = request
  BY DEF Reply, Responds, ToClient, Puts, HandlerReturns, Goto, clientVars,
     history
<1>2. status \in -1..MaxList /\ sleft \in Sizes
  BY <1>1, TypesOfOwners DEF WorkerTypes
<1>3. CASE Served
  BY <1>1, <1>2, <1>3, AnswersOne DEF Served, ServedPoint
<1>4. CASE Updating
  <2> DEFINE unit == [status |-> status, n |-> sleft]
  <2>1. unit \in Response /\ unit.status = status /\ unit # Data
    BY <1>2, ResponseType, ConstantTypes
  <2> HIDE DEF unit
  <2>2. Puts(unit)
    BY <1>1 DEF unit
  <2>3. /\ sleft = 0 /\ Len(toClient) = Gate /\ Agrees(status)
        /\ cpc \in Early \cup {"upload", "final"}
        /\ call.op \in Updates /\ Second(0)
    BY <1>1, <1>4 DEF Updating
  <2>4. cpc = "answer" => toClient # << >>
    <3>1. cpc = "answer" /\ toClient = << >> => Gate = 1 /\ Len(toClient) = 0
      BY DEF Gate
    <3> QED
      BY <2>3, <3>1
  <2>5. Gate \in Nat /\ Shape
    BY GateType DEF InSync
  <2>6. cpc \in InCall
    BY <2>3 DEF Early, InCall
  <2>7. /\ Gate' = Gate /\ Shape'
        /\ Len(toClient') = Len(toClient) + 1
        /\ toClient'[Len(toClient) + 1] = unit
        /\ \A i \in 1..Len(toClient) : toClient'[i] = toClient[i]
    BY <2>1, <2>2, <2>3, <2>4, <2>5, <2>6, PutsNext
  <2>8. Owed = 0 /\ toServer = << >>
    <3>1. Len(toServer) + Owed = 0
      BY <1>4, <2>3 DEF Updating
    <3>2. toServer \in Seq(Request \cup {Data}) /\ Owed \in Nat
      BY TypesOfOwners, CallFields DEF StreamTypes, IsStream, ClientTypes, Owed
    <3> QED
      BY <3>1, <3>2
  <2>9. Second(0)'
    <3>1. ASSUME Gate # 0 PROVE toClient'[Gate].status = 0
      BY <2>3, <2>5, <2>7, <3>1 DEF Second
    <3> QED
      BY <2>7, <3>1 DEF Second
  <2>10. Len(toClient') = Gate' + 1 /\ Agrees(toClient[Gate + 1].status)'
    BY <1>1, <2>1, <2>3, <2>7 DEF Agrees
  <2>11. Owed' = Owed
    BY <1>1 DEF Owed
  <2>12. Updated'
    BY <1>1, <2>3, <2>8, <2>9, <2>10, <2>11 DEF Updated
  <2>13. Phase'
    BY <2>12, Zenon DEF Phase
  <2> QED
    BY <1>1, <2>6, <2>7, <2>13 DEF InSync, InCall
<1> QED
  BY <1>1, <1>3, <1>4, PhaseOfWorker DEF InSync

\* A first Response that refuses an update.
LEMMA RefusesFirst ==
    ASSUME TypeInv, InSync, cpc = "answer", toClient = << >>,
           toServer = << >>, call.op \in Updates,
           Puts([status |-> -1, n |-> 0]), spc' = "reading",
           outcome' = "fail"
    PROVE  InSync'
<1> DEFINE unit == [status |-> -1, n |-> 0]
<1>1. unit \in Response /\ unit.status = -1
  BY ResponseType, ConstantTypes
<1> HIDE DEF unit
<1>2. Puts(unit)
  BY DEF unit
<1>3. /\ Gate' = 1 /\ Shape'
      /\ Len(toClient') = 1 /\ toClient'[1] = unit
  BY <1>1, <1>2, PutsFirst
<1>4. UNCHANGED <<cpc, call, toServer>>
  BY <1>2 DEF Puts
<1>5. Denied'
  BY <1>1, <1>3, <1>4 DEF Denied, Second, Early
<1>6. Phase'
  BY <1>5, Zenon DEF Phase
<1> QED
  BY <1>3, <1>4, <1>6 DEF InSync

LEMMA RejectStep ==
    ASSUME TypeInv, InSync, Reject
    PROVE  InSync'
<1>1. /\ spc = "reject" /\ spc' = "reading"
      /\ UNCHANGED <<cpc, call, cleft, toServer, outcome, sleft>>
      /\ Puts([status |-> -1, n |-> 0])
  BY DEF Reject, Responds, ToClient, Puts, HandlerReturns, Goto, clientVars,
     history
<1>2. Served
  BY <1>1, PhaseOfWorker DEF InSync
<1>3. /\ outcome = "fail" /\ sleft = 0
      /\ call.op \in Updates \cup {"OP_READ_N_FILES"}
      /\ cpc = "answer" /\ toClient = << >> /\ toServer = << >>
  BY <1>1, <1>2 DEF Served, ServedPoint, TypeInv, Counts
<1>4. CASE call.op \in Updates
  BY <1>1, <1>3, <1>4, RefusesFirst
<1>5. CASE call.op \notin Updates
  <2>1. Truthful(-1, 0)
    BY <1>3, <1>5 DEF Truthful
  <2>2. 0 \in Sizes /\ -1 \in -1..MaxList
    BY ConstantTypes
  <2> QED
    BY <1>1, <1>2, <1>3, <1>5, <2>1, <2>2, AnswersOne
<1> QED
  BY <1>4, <1>5

LEMMA SendContentStep ==
    ASSUME TypeInv, InSync, SendContent
    PROVE  InSync'
<1>1. /\ spc = "content" /\ Puts(Data) /\ outcome' = outcome
      /\ sleft' = sleft - 1
      /\ \/ sleft = 1 /\ spc' = "reading"
         \/ sleft # 1 /\ spc' = "content" /\ request' = request
  BY DEF SendContent, ToClient, Puts, HandlerReturns, Goto, clientVars, history
<1>2. Answering
  BY <1>1, PhaseOfWorker DEF InSync
<1>3. sleft \in Nat /\ sleft # 0 /\ Len(toClient) \in Nat
  BY <1>1, TypesOfOwners DEF WorkerTypes, StreamTypes, IsStream
<1>4. Gate \in Nat /\ Shape
  BY GateType DEF InSync
<1>5. Len(toClient) + sleft = Gate - 1
  BY <1>2 DEF Answering
<1>6. cpc \in {"answer", "content"} /\ (cpc = "answer" => toClient # << >>)
  BY <1>2 DEF Answering, TruthfulAnswer
<1>7. /\ Gate' = Gate /\ Shape'
      /\ Len(toClient') = Len(toClient) + 1
      /\ \A i \in 1..Len(toClient) : toClient'[i] = toClient[i]
      /\ toClient' # << >>
  BY <1>1, <1>3, <1>4, <1>5, <1>6, PutsNext DEF InCall
<1>8. UNCHANGED <<cpc, call, toServer>>
  BY <1>1 DEF Puts
<1>9. TruthfulAnswer'
  <2>1. CASE cpc = "content"
    BY <1>1, <1>2, <1>8, <2>1 DEF Answering, TruthfulAnswer
  <2>2. CASE cpc = "answer"
    <3>1. toClient'[1] = toClient[1]
      <4>1. Len(toClient) # 0
        BY <1>6, <2>2, TypesOfOwners DEF StreamTypes, IsStream
      <4> QED
        BY <1>3, <1>7, <4>1
    <3>2. Truthful(toClient[1].status, toClient[1].n)
      BY <1>2, <2>2 DEF Answering, TruthfulAnswer
    <3>3. Truthful(toClient[1].status, toClient[1].n)'
      BY <1>1, <1>8, <3>1, <3>2 DEF Truthful
    <3> QED
      BY <1>7, <1>8, <2>2, <3>3 DEF TruthfulAnswer
  <2> QED
    BY <1>6, <2>1, <2>2
<1>10. Len(toClient') + sleft' = Gate' - 1
  BY <1>1, <1>3, <1>5, <1>7
<1>11. Answering'
  BY <1>1, <1>2, <1>8, <1>9, <1>10 DEF Answering
<1>12. Phase'
  BY <1>11, Zenon DEF Phase
<1> QED
  BY <1>1, <1>6, <1>7, <1>8, <1>12 DEF InSync

LEMMA MakeRoomStep ==
    ASSUME TypeInv, InSync, MakeRoom
    PROVE  InSync' /\ ExecutesOnce
<1>1. /\ spc = "makeRoom"
      /\ UNCHANGED <<cpc, call, cleft, toClient, toServer, request>>
      /\ \/ outcome' = "fail" /\ spc' = "reject"
         \/ outcome' = outcome /\ spc' = "announce"
         \/ outcome' = outcome /\ spc' = "checkLock" /\ sleft' = 0
  BY DEF MakeRoom, Decides, Goto, clientVars, streams
<1>2. Served
  BY <1>1, PhaseOfWorker DEF InSync
<1>3. /\ call.op \in Updates /\ outcome = "pending" /\ request = call
      /\ cpc = "answer" /\ toClient = << >> /\ toServer = << >>
  BY <1>1, <1>2 DEF Served, ServedPoint
<1>4. CASE spc' \in {"reject", "announce"}
  <2>1. ServedPoint'
    BY <1>1, <1>3, <1>4 DEF ServedPoint
  <2> QED
    BY <1>1, <1>2, <1>3, <2>1, ServedSteps DEF ExecutesOnce, InCall
<1>5. CASE spc' = "checkLock"
  <2>1. Gate' = 1 /\ Len(toClient') = 0 /\ sleft' = 0 /\ outcome' = outcome
    BY <1>1, <1>3, <1>5 DEF Gate
  <2>2. Evicting'
    BY <1>1, <1>3, <1>5, <2>1 DEF Evicting, Early
  <2>3. Phase'
    BY <2>2, Zenon DEF Phase
  <2>4. Shape'
    BY <2>1 DEF Shape
  <2> QED
    BY <1>1, <1>3, <1>5, <2>1, <2>3, <2>4 DEF InSync, ExecutesOnce
<1> QED
  BY <1>1, <1>4, <1>5

LEMMA AnnounceVictimStep ==
    ASSUME TypeInv, InSync, AnnounceVictim
    PROVE  InSync'
<1> DEFINE unit == [status |-> 1, n |-> sleft]
<1>1. /\ spc = "announce"
      /\ UNCHANGED <<outcome, sleft, request>>
      /\ Puts(unit)
      /\ spc' = IF sleft > 0 THEN "victim" ELSE "checkLock"
  BY DEF AnnounceVictim, Responds, ToClient, Puts, Goto, clientVars, history
<1>2. sleft \in Sizes /\ sleft \in Nat /\ 1 \in -1..MaxList
  BY <1>1, ConstantTypes, TypesOfOwners DEF WorkerTypes
<1>3. unit \in Response /\ unit.status = 1 /\ unit.n = sleft
  BY <1>2, ResponseType
<1> HIDE DEF unit
<1>4. Served
  BY <1>1, PhaseOfWorker DEF InSync
<1>5. /\ call.op \in Updates /\ outcome = "pending" /\ request = call
      /\ cpc = "answer" /\ toClient = << >> /\ toServer = << >>
  BY <1>1, <1>4 DEF Served, ServedPoint
<1>6. /\ Gate' = 2 + sleft /\ Shape'
      /\ Len(toClient') = 1 /\ toClient' # << >>
  BY <1>1, <1>3, <1>5, PutsFirst
<1>7. UNCHANGED <<cpc, call, toServer>>
  BY <1>1 DEF Puts
<1>8. Len(toClient') + sleft' = Gate' - 1
  BY <1>1, <1>2, <1>6
<1>9. Evicting'
  BY <1>1, <1>5, <1>6, <1>7, <1>8 DEF Evicting, Early
<1>10. Phase'
  BY <1>9, Zenon DEF Phase
<1> QED
  BY <1>1, <1>5, <1>6, <1>7, <1>10 DEF InSync

LEMMA SendVictimStep ==
    ASSUME TypeInv, InSync, SendVictim
    PROVE  InSync'
<1>1. /\ spc = "victim" /\ Puts(Data) /\ UNCHANGED <<outcome, request>>
      /\ sleft' = sleft - 1
      /\ spc' \in {"victim", "checkLock"}
  BY DEF SendVictim, ToClient, Puts, Goto, clientVars, history
<1>2. Evicting
  BY <1>1, PhaseOfWorker DEF InSync
<1>3. sleft \in Nat /\ sleft # 0 /\ Len(toClient) \in Nat
  BY <1>1, TypesOfOwners DEF WorkerTypes, StreamTypes, IsStream
<1>4. Gate \in Nat /\ Shape
  BY GateType DEF InSync
<1>5. Len(toClient) + sleft = Gate - 1
  BY <1>2 DEF Evicting
<1>6. cpc \in Early /\ (cpc = "answer" => toClient # << >>)
  BY <1>1, <1>2 DEF Evicting
<1>7. /\ Gate' = Gate /\ Shape'
      /\ Len(toClient') = Len(toClient) + 1
      /\ toClient' # << >>
  BY <1>1, <1>3, <1>4, <1>5, <1>6, PutsNext DEF InCall, Early
<1>8. UNCHANGED <<cpc, call, toServer>>
  BY <1>1 DEF Puts
<1>9. Len(toClient') + sleft' = Gate' - 1
  BY <1>1, <1>3, <1>5, <1>7
<1>10. Evicting'
  BY <1>1, <1>2, <1>7, <1>8, <1>9 DEF Evicting
<1>11. Phase'
  BY <1>10, Zenon DEF Phase
<1> QED
  BY <1>1, <1>6, <1>7, <1>8, <1>11 DEF InSync, Early

LEMMA CheckLockStep ==
    ASSUME TypeInv, InSync, CheckLock
    PROVE  InSync' /\ ExecutesOnce
<1>1. PICK s \in {0, -1} :
         /\ Puts([status |-> s, n |-> 0])
         /\ \/ /\ s = 0 /\ sleft' = request.n /\ spc' = "receive"
               /\ UNCHANGED <<request, outcome>>
            \/ s = -1 /\ outcome' = "fail" /\ spc' = "reading"
  BY DEF CheckLock, Responds, ToClient, Puts, HandlerReturns, Goto, clientVars
<1> DEFINE unit == [status |-> s, n |-> 0]
<1>2. unit \in Response /\ unit.status = s /\ unit # Data
  BY ResponseType, ConstantTypes
<1> HIDE DEF unit
<1>3. Puts(unit)
  BY <1>1 DEF unit
<1>4. spc = "checkLock" /\ Evicting
  BY PhaseOfWorker DEF InSync, CheckLock
<1>5. /\ call.op \in Updates /\ outcome = "pending" /\ request = call
      /\ cpc \in Early /\ toServer = << >>
  BY <1>4 DEF Evicting
<1>6. Gate \in Nat /\ Shape /\ Len(toClient) \in Nat /\ call.n \in Nat
  BY GateType, CallFields, TypesOfOwners DEF InSync, StreamTypes, IsStream
<1>7. Len(toClient) + 1 = Gate
  <2>1. sleft = 0
    BY <1>4 DEF TypeInv, Counts
  <2>2. Len(toClient) + sleft = Gate - 1
    BY <1>4 DEF Evicting
  <2> QED
    BY <1>6, <2>1, <2>2
<1>8. /\ Gate' = Gate /\ Shape'
      /\ Len(toClient') = Len(toClient) + 1
      /\ toClient'[Len(toClient) + 1] = unit
  BY <1>1, <1>2, <1>3, <1>5, <1>6, <1>7, PutsNext DEF InCall, Early
<1>9. UNCHANGED <<cpc, call, toServer>>
  BY <1>3 DEF Puts
<1>10. Len(toClient') = Gate' /\ toClient'[Gate'].status = s
  BY <1>2, <1>7, <1>8
<1>11. ASSUME s = 0 PROVE Phase'
  <2>1. Len(toServer') + Owed' = sleft'
    BY <1>1, <1>5, <1>6, <1>9, <1>11 DEF Owed
  <2>2. Second(0)'
    BY <1>10, <1>11 DEF Second
  <2>3. Updating'
    BY <1>1, <1>5, <1>9, <1>10, <1>11, <2>1, <2>2 DEF Updating
  <2> QED
    BY <2>3, Zenon DEF Phase
<1>12. ASSUME s = -1 PROVE Phase'
  <2>1. Second(-1)'
    BY <1>10, <1>12 DEF Second
  <2>2. Denied'
    BY <1>1, <1>5, <1>9, <1>10, <1>12, <2>1 DEF Denied
  <2> QED
    BY <2>2, Zenon DEF Phase
<1>13. Phase'
  BY <1>1, <1>11, <1>12
<1>14. cpc' # "lost" /\ spc' # "lost"
  BY <1>1, <1>5, <1>9 DEF Early
<1>15. ExecutesOnce
  BY <1>5 DEF ExecutesOnce, Early, InCall
<1> QED
  BY <1>8, <1>13, <1>14, <1>15 DEF InSync

\* What the steps below leave alone of an update.
LEMMA UpdateFrame ==
    ASSUME TypeInv, InSync, spc \in {"receive", "store"},
           UNCHANGED <<cpc, call, cleft, toClient>>
    PROVE  /\ Updating
           /\ Gate' = Gate /\ Owed' = Owed /\ Shape' /\ Second(0)'
           /\ cpc \in InCall /\ outcome = "pending"
           /\ Len(toServer) \in Nat /\ sleft \in Nat /\ Owed \in Nat
<1>1. Updating
  BY PhaseOfWorker DEF InSync
<1>2. Gate' = Gate /\ Owed' = Owed
  BY DEF Gate, Owed
<1>3. Shape' /\ Second(0)'
  BY <1>1, <1>2 DEF InSync, Shape, Second, Updating
<1>4. cpc \in InCall /\ outcome = "pending"
  BY <1>1 DEF Updating, Early, InCall
<1>5. Len(toServer) \in Nat /\ sleft \in Nat /\ Owed \in Nat
  BY TypesOfOwners, CallFields DEF StreamTypes, IsStream, WorkerTypes,
     ClientTypes, Owed
<1> QED
  BY <1>1, <1>2, <1>3, <1>4, <1>5

LEMMA ReceiveStep ==
    ASSUME TypeInv, InSync, Receive
    PROVE  InSync' /\ ExecutesOnce
<1>1. spc = "receive" /\ UNCHANGED <<cpc, call, cleft, toClient>>
  BY DEF Receive, clientVars
<1>2. /\ Updating
      /\ Gate' = Gate /\ Owed' = Owed /\ Shape' /\ Second(0)'
      /\ cpc \in InCall /\ outcome = "pending"
      /\ Len(toServer) \in Nat /\ sleft \in Nat /\ Owed \in Nat
  BY <1>1, UpdateFrame
<1>3. ExecutesOnce
  BY <1>2 DEF ExecutesOnce
<1>4. toServer \in Seq(Request \cup {Data})
  BY TypesOfOwners DEF StreamTypes, IsStream
<1>5. CASE sleft = 0 /\ HandlerReturns /\ outcome' = "fail"
                     /\ UNCHANGED toServer
  <2>1. Len(toServer) + Owed = 0
    BY <1>2, <1>5 DEF Updating
  <2>2. Len(toServer) = 0 /\ Owed = 0
    BY <1>2, <2>1
  <2>3. toServer = << >> /\ Owed = 0
    BY <1>4, <2>2
  <2>4. spc' = "reading" /\ Len(toClient') = Gate'
    BY <1>1, <1>2, <1>5 DEF HandlerReturns, Goto, Updating
  <2>5. Updated'
    BY <1>1, <1>2, <1>5, <2>3, <2>4 DEF Updating, Updated
  <2>6. Phase'
    BY <2>5, Zenon DEF Phase
  <2> QED
    BY <1>1, <1>2, <1>3, <2>4, <2>6 DEF InSync, InCall
<1>6. CASE /\ UNCHANGED <<request, outcome>>
           /\ \/ sleft = 0 /\ spc' = "store" /\ UNCHANGED <<sleft, toServer>>
              \/ /\ sleft # 0 /\ toServer # << >>
                 /\ toServer' = Tail(toServer) /\ sleft' = sleft - 1
                 /\ spc' = IF sleft = 1 THEN "store" ELSE "receive"
  <2>1. /\ Len(toServer') + Owed' = sleft'
        /\ \A i \in 1..Len(toServer') : toServer'[i] = Data
    <3>1. Len(toServer) + Owed = sleft
      BY <1>2 DEF Updating
    <3>2. \A i \in 1..Len(toServer) : toServer[i] = Data
      BY <1>2 DEF Updating
    <3>3. CASE UNCHANGED <<sleft, toServer>>
      BY <1>2, <3>1, <3>2, <3>3
    <3>4. CASE toServer # << >> /\ toServer' = Tail(toServer)
                 /\ sleft' = sleft - 1
      <4>1. /\ Len(toServer') = Len(toServer) - 1
            /\ \A i \in 1..Len(toServer') : toServer'[i] = toServer[i + 1]
        BY <1>4, <3>4
      <4> QED
        BY <1>2, <3>1, <3>2, <3>4, <4>1
    <3> QED
      BY <1>6, <3>3, <3>4
  <2>2. /\ spc' \in {"receive", "store"}
        /\ spc' = "store" => sleft' = 0
    BY <1>2, <1>6
  <2>3. Updating'
    BY <1>1, <1>2, <1>6, <2>1, <2>2 DEF Updating
  <2>4. Phase'
    BY <2>3, Zenon DEF Phase
  <2> QED
    BY <1>1, <1>2, <1>3, <2>2, <2>4 DEF InSync, InCall
<1> QED
  BY <1>5, <1>6 DEF Receive, Goto

LEMMA ReceiveOnceStep ==
    ASSUME TypeInv, InSync, ~misread', ReceiveOnce
    PROVE  InSync'
<1>1. /\ spc = "receive" /\ spc' = "store" /\ sleft' = 0
      /\ UNCHANGED <<cpc, call, cleft, toClient, request, outcome>>
  BY DEF ReceiveOnce, Goto, clientVars
<1>2. /\ Updating
      /\ Gate' = Gate /\ Owed' = Owed /\ Shape' /\ Second(0)'
      /\ cpc \in InCall /\ outcome = "pending"
      /\ Len(toServer) \in Nat /\ sleft \in Nat /\ Owed \in Nat
  BY <1>1, UpdateFrame
<1>3. PICK k \in {Min({sleft, Arrived(toServer)})} :
         /\ toServer' = SubSeq(toServer, k + 1, Len(toServer))
         /\ misread' = (misread \/ k < sleft)
  BY Zenon DEF ReceiveOnce
<1>4. ~(k < sleft)
  BY <1>3, Zenon
<1>5. Arrived(toServer) \in 0..Len(toServer)
  BY TypesOfOwners, ArrivedFacts DEF StreamTypes, IsStream
<1>6. k = sleft /\ k \in 0..Len(toServer)
  <2>1. Arrived(toServer) \in Nat
    BY <1>2, <1>5
  <2>2. k \in {sleft, Arrived(toServer)} /\ k <= sleft /\ k <= Arrived(toServer)
    BY <1>2, <2>1, SmallerOfTwo
  <2> QED
    BY <1>2, <1>4, <1>5, <2>2
<1>7. Len(toServer') = 0 /\ Owed' = 0
  <2>1. Len(toServer) + Owed = sleft
    BY <1>2 DEF Updating
  <2>2. Len(toServer') = Len(toServer) - k
    BY <1>3, <1>6, TypesOfOwners, SuffixFacts DEF StreamTypes, IsStream
  <2> QED
    BY <1>2, <1>6, <2>1, <2>2
<1>8. Updating'
  BY <1>1, <1>2, <1>7 DEF Updating
<1>9. Phase'
  BY <1>8, Zenon DEF Phase
<1> QED
  BY <1>1, <1>2, <1>9 DEF InSync, InCall

LEMMA StoreStep ==
    ASSUME TypeInv, InSync, Store
    PROVE  InSync' /\ ExecutesOnce
<1>1. /\ spc = "store" /\ spc' = "reply"
      /\ UNCHANGED <<cpc, call, cleft, toClient, toServer, request, sleft>>
      /\ \/ outcome' = "ok" /\ status' = 0
         \/ outcome' = "fail" /\ status' = -1
  BY DEF Store, Decides, Goto, clientVars, streams
<1>2. /\ Updating
      /\ Gate' = Gate /\ Owed' = Owed /\ Shape' /\ Second(0)'
      /\ cpc \in InCall /\ outcome = "pending"
  BY <1>1, UpdateFrame
<1>3. Agrees(status)'
  BY <1>1 DEF Agrees
<1>4. Updating'
  BY <1>1, <1>2, <1>3 DEF Updating
<1>5. Phase'
  BY <1>4, Zenon DEF Phase
<1> QED
  BY <1>1, <1>2, <1>5 DEF InSync, InCall, ExecutesOnce

LEMMA WorkerStepsInSync ==
    ASSUME TypeInv, InSync, ~misread', WorkerStep
    PROVE  InSync' /\ ExecutesOnce
<1>1. CASE StrayUnlock
  BY <1>1, SeenUnchanged DEF StrayUnlock, seen, clientVars, history,
     ExecutesOnce
<1>2. ASSUME \/ Pop \/ TakeRequest \/ ReadEnd \/ EndServer \/ Reply \/ Reject
             \/ SendContent \/ AnnounceVictim \/ SendVictim \/ ReceiveOnce
      PROVE  InSync' /\ ExecutesOnce
  <2>1. outcome' = outcome
    BY <1>2, Zenon DEF Pop, TakeRequest, ReadEnd, EndServer, Reply, Reject,
       SendContent, AnnounceVictim, SendVictim, ReceiveOnce, history
  <2>2. InSync'
    BY <1>2, PopStep, TakeRequestStep, EndsStep, ReplyStep, RejectStep,
       SendContentStep, AnnounceVictimStep, SendVictimStep, ReceiveOnceStep
  <2> QED
    BY <2>1, <2>2 DEF ExecutesOnce
<1>3. CASE \/ LockQueue \/ WaitForLock \/ WakeUp
           \/ Handle \/ HandleRead \/ HandleReadN
  BY <1>3, HandleSteps
<1>4. CASE MakeRoom \/ CheckLock \/ Receive \/ Store
  BY <1>4, MakeRoomStep, CheckLockStep, ReceiveStep, StoreStep
<1> QED
  BY <1>1, <1>2, <1>3, <1>4, ServerNotLost DEF WorkerStep, ServerStep

-----------------------------------------------------------------------------
(* The theorems                                                            *)

\* The two points from which nothing returns.
LEMMA MisreadSticks ==
    ASSUME [Next]_vars, misread
    PROVE  misread'
<1>1. CASE ReadVictimOnce \/ ReceiveOnce
  BY <1>1, Zenon DEF ReadVictimOnce, ReceiveOnce
<1>2. CASE ReadVictim
  BY <1>2, Zenon DEF ReadVictim
<1>3. CASE Environment \/ UNCHANGED vars
  BY <1>3 DEF Environment, Unlink, Bind, Listen, Connecting, Connected,
     Refused, GiveUp, TakeOption, CloseConnection, vars, history
<1>4. CASE \/ Invoke \/ WriteToNobody \/ ReadAnswer \/ ReadSecond \/ Upload
           \/ ReadFinal \/ ReadContent \/ AtEndOfFile \/ ClientLost
  BY <1>4 DEF Invoke, WriteToNobody, ReadAnswer, ReadSecond, Upload,
     ReadFinal, ReadContent, ClientLost, AtEndOfFile, ReadAnswerReset,
     ReadAnswerEnd, ReadVictimEnd, ReadSecondEnd, ReadFinalEnd,
     ReadContentEnd, history
<1>5. CASE \/ Pop \/ TakeRequest \/ ReadEnd \/ LockQueue \/ Handle
           \/ HandleRead \/ HandleReadN \/ Reply \/ Reject \/ SendContent
           \/ MakeRoom
  BY <1>5 DEF Pop, TakeRequest, ReadEnd, LockQueue, Handle, HandleRead,
     HandleReadN, Reply, Reject, SendContent, MakeRoom, history
<1>6. CASE \/ AnnounceVictim \/ SendVictim \/ CheckLock \/ Receive \/ Store
           \/ ServerLost \/ WaitForLock \/ WakeUp \/ StrayUnlock \/ EndServer
  BY <1>6 DEF AnnounceVictim, SendVictim, CheckLock, Receive, Store,
     ServerLost, WaitForLock, WakeUp, StrayUnlock, EndServer, history
<1> QED
  BY <1>1, <1>2, <1>3, <1>4, <1>5, <1>6, ActorsOfNext
     DEF ClientStep, WorkerStep, ServerStep

LEMMA GoneSticks ==
    ASSUME [Next]_vars, spc = "gone"
    PROVE  spc' = "gone"
<1>1. CASE Environment \/ ClientStep \/ UNCHANGED vars
  BY <1>1, ClientFrame DEF serverVars, vars
<1>2. CASE WorkerStep
  BY <1>2 DEF WorkerStep, ServerStep, Pop, TakeRequest, ReadEnd, LockQueue,
     Handle, HandleRead, HandleReadN, Reply, Reject, SendContent, MakeRoom,
     AnnounceVictim, SendVictim, CheckLock, Receive, ReceiveOnce, Store,
     ServerLost, WaitForLock, WakeUp, StrayUnlock, EndServer
<1> QED
  BY <1>1, <1>2, ActorsOfNext

LEMMA SyncStep ==
    ASSUME TypeInv, Sync, [Next]_vars
    PROVE  Sync'
<1> SUFFICES ASSUME ~misread' PROVE InSync'
  BY DEF Sync
<1>1. ~misread
  BY MisreadSticks
<1>2. InSync
  BY <1>1 DEF Sync
<1>3. CASE UNCHANGED vars
  BY <1>2, <1>3, SeenUnchanged DEF vars, seen, clientVars, serverVars, history
<1> QED
  BY <1>2, <1>3, ActorsOfNext, EnvironmentStep, InvokeStep, ClientStepsInSync,
     WorkerStepsInSync

LEMMA SyncAlways == Spec => [](TypeInv /\ Sync)
<1>1. Init => Sync
  BY InSyncInit DEF Sync
<1>2. TypeInv /\ Sync /\ [Next]_vars => (TypeInv /\ Sync)'
  BY TypeStep, SyncStep
<1> QED
  BY <1>1, <1>2, TypeInit, PTL DEF Spec

\* The client and the worker agree on which read takes which write, unless an
\* append read a part or an empty victim was taken for an error: no content is
\* taken for a header, and a call that has returned left nothing behind, with
\* any sizes of files and of the socket, evictions, refusals and a server that
\* ends at any step included.
THEOREM EndsInStep == Spec => []InStep
<1>1. TypeInv /\ Sync => InStep
  <2> SUFFICES ASSUME Sync, ~misread
               PROVE  /\ cpc # "lost" /\ spc # "lost"
                      /\ cpc = "idle" /\ spc # "gone" =>
                            /\ toServer = << >> /\ toClient = << >>
                            /\ spc \in {"queued", "reading"}
    BY DEF InStep, ServerEnded
  <2>1. InSync
    BY DEF Sync
  <2> QED
    BY <2>1, PhaseOfClient DEF InSync, Quiet
<1> QED
  BY <1>1, SyncAlways, PTL

LEMMA CallInit == Init => Call!Init
<1> SUFFICES ASSUME Init PROVE Call!Init
  OBVIOUS
<1>1. call.op \in Ops /\ outcome = "pending" /\ ret = 0
  BY DEF Init, NoCall, Rq, Ops
<1>2. (cpc \in InCall) = FALSE
  BY DEF Init, InCall
<1>3. (ServerEnded \/ misread) = FALSE
  BY DEF Init, ServerEnded
<1> QED
  BY <1>1, <1>2, <1>3, Zenon DEF Call!Init

\* A step of the client that neither invokes nor breaks.
LEMMA ClientCalls ==
    ASSUME TypeInv, InSync, ClientStep, ~Invoke, spc # "gone"
    PROVE  /\ UNCHANGED <<call, outcome>>
           /\ cpc \in InCall
           /\ cpc' \in InCall => ret' = ret
<1> USE DEF InCall, history
<1>1. CASE ReadAnswer
  <2> DEFINE s == Head(toClient).status
             n == Head(toClient).n
  <2>1. Answered(s, n) /\ cpc = "answer" /\ UNCHANGED <<call, outcome>>
    BY <1>1 DEF ReadAnswer
  <2> HIDE DEF s, n
  <2>2. cpc' = "idle" \/ ret' = ret
    BY <2>1 DEF Answered, Returns, ReadsContent, ReadsNames, Goes
  <2> QED
    BY <2>1, <2>2
<1>2. CASE ReadVictim \/ ReadVictimOnce
  BY <1>2 DEF ReadVictim, ReadVictimOnce, Returns, Goes
<1>3. CASE ReadSecond \/ Upload \/ ReadFinal \/ ReadContent
  BY <1>3 DEF ReadSecond, Upload, ReadFinal, ReadContent, Returns, Goes
<1>4. ~WriteToNobody /\ ~AtEndOfFile
  BY DEF WriteToNobody, AtEndOfFile, ReadAnswerReset, ReadAnswerEnd,
     ReadVictimEnd, ReadSecondEnd, ReadFinalEnd, ReadContentEnd, EndOfFile,
     ServerEnded
<1> QED
  BY <1>1, <1>2, <1>3, <1>4, NothingLost DEF ClientStep

LEMMA CallStep ==
    ASSUME TypeInv, TypeInv', Sync, [Next]_vars
    PROVE  [Call!Next]_(Call!vars)
<1>1. CASE ServerEnded' \/ misread'
  <2>1. (ServerEnded \/ misread)' = TRUE
    BY <1>1
  <2>2. Call!Break
    BY <2>1, Zenon DEF Call!Break
  <2> QED
    BY <2>2, Zenon DEF Call!Next
<1>2. CASE ~(ServerEnded' \/ misread')
  <2>1. ~misread /\ ~misread' /\ spc # "gone"
    BY <1>2, MisreadSticks, GoneSticks DEF ServerEnded
  <2>2. InSync
    BY <2>1 DEF Sync
  <2>3. (ServerEnded \/ misread)' = (ServerEnded \/ misread)
    BY <1>2, <2>1 DEF ServerEnded
  <2>4. ASSUME UNCHANGED <<call, outcome, ret>>,
               cpc' \in InCall <=> cpc \in InCall
        PROVE  UNCHANGED Call!vars
    <3>1. (cpc \in InCall)' = (cpc \in InCall)
      BY <2>4
    <3> QED
      BY <2>3, <2>4, <3>1, Zenon DEF Call!vars
  <2>5. CASE Environment
    BY <2>2, <2>4, <2>5, EnvironmentStep
  <2>6. CASE Invoke
    <3>1. cpc = "idle" /\ cpc' = "answer" /\ call' \in Request
      BY <2>6, TypesOfOwnersNext DEF Invoke, ClientTypes
    <3>2. /\ ~(cpc \in InCall) /\ (cpc \in InCall)' = TRUE
          /\ call'.op \in Ops
      BY <3>1, RequestFields DEF InCall
    <3>3. outcome' = "pending" /\ ret' = ret
      BY <2>6 DEF Invoke
    <3>4. Call!Invoke
      BY <2>3, <3>2, <3>3, Zenon DEF Call!Invoke
    <3> QED
      BY <3>4, Zenon DEF Call!Next
  <2>7. CASE ClientStep /\ ~Invoke
    <3>1. /\ UNCHANGED <<call, outcome>>
          /\ cpc \in InCall
          /\ cpc' \in InCall => ret' = ret
      BY <2>1, <2>2, <2>7, ClientCalls
    <3>2. CASE cpc' \in InCall
      BY <2>4, <3>1, <3>2
    <3>3. CASE cpc' \notin InCall
      <4>1. outcome # "pending" /\ ret' \in Call!Verdict(call.op, outcome)
        BY <2>1, <2>2, <2>7, <3>1, <3>3, ClientStepsInSync DEF ReturnsVerdict
      <4>2. (cpc \in InCall)' = FALSE
        BY <3>3
      <4>3. UNCHANGED <<call.op, outcome, ServerEnded \/ misread>>
        BY <2>3, <3>1
      <4>4. Call!Return
        BY <3>1, <4>1, <4>2, <4>3, Zenon DEF Call!Return
      <4> QED
        BY <4>4, Zenon DEF Call!Next
    <3> QED
      BY <3>2, <3>3
  <2>8. CASE WorkerStep
    <3>1. UNCHANGED <<cpc, call, ret>>
      BY <2>8, WorkerFrame DEF clientVars
    <3>2. CASE outcome' = outcome
      BY <2>4, <3>1, <3>2
    <3>3. CASE outcome' # outcome
      <4>1. outcome = "pending" /\ cpc \in InCall
        BY <2>1, <2>2, <2>8, <3>3, WorkerStepsInSync DEF ExecutesOnce
      <4>2. outcome' \in {"ok", "empty", "fail"}
        BY <3>3, <4>1, TypesOfOwnersNext DEF OtherTypes
      <4>3. /\ (cpc \in InCall)' = (cpc \in InCall)
            /\ UNCHANGED <<call.op, ret, ServerEnded \/ misread>>
        BY <2>3, <3>1
      <4>4. Call!Execute
        BY <4>1, <4>2, <4>3, Zenon DEF Call!Execute, Call!Outcomes
      <4> QED
        BY <4>4, Zenon DEF Call!Next
    <3> QED
      BY <3>2, <3>3
  <2>9. CASE UNCHANGED vars
    BY <2>4, <2>9 DEF vars, clientVars, history
  <2> QED
    BY <2>5, <2>6, <2>7, <2>8, <2>9, ActorsOfNext
<1> QED
  BY <1>1, <1>2

\* A call of the library returns the verdict of its own, single execution by
\* the server, until the server ends or a misread: the client, the socket and
\* the worker implement RemoteCall.
THEOREM SessionImplementsRemoteCall == Spec => ImplementsRemoteCall
<1>1. TypeInv /\ Sync /\ TypeInv' /\ [Next]_vars => [Call!Next]_(Call!vars)
  BY CallStep
<1> QED
  BY <1>1, CallInit, SyncAlways, PTL DEF Spec, ImplementsRemoteCall, Call!Spec
=============================================================================
