---------------------------- MODULE DispatchProofs ----------------------------
(***************************************************************************)
(* Theorems about Dispatch, for any number of workers, connections and      *)
(* descriptors.                                                             *)
(***************************************************************************)
EXTENDS Dispatch, FiniteSetTheorems, TLAPS

-----------------------------------------------------------------------------
(* Types                                                                   *)

\* A worker that serves a connection popped a descriptor, never the -1 of a
\* failed accept.
TypeInv ==
    /\ TypeOK
    /\ \A w \in Workers : pc[w] \in Serving => fd[w] \in Descriptors

\* The disjuncts of Next, for proofs by cases.
LEMMA NextCases ==
    ASSUME [Next]_vars
    PROVE  \/ Boot \/ MakePipe \/ TestFlags \/ Select \/ AcceptFails \/ Push
           \/ JoinWorkers \/ JoinSignalThread
           \/ \E c \in Conns, f \in Descriptors : Accept(c, f)
           \/ \E w \in Workers :
                  \/ Sleep(w) \/ Retire(w) \/ Pop(w) \/ Read(w) \/ Serve(w)
                  \/ EndOfFile(w) \/ Close(w) \/ SpuriousWakeup(w)
           \/ \E sig \in Signals : Signal(sig)
           \/ ClosePipe \/ WakeWorkers
           \/ \E c \in Conns : Connect(c) \/ Leave(c)
           \/ UNCHANGED vars
  BY DEF Next, MainStep, WorkerStep, SignalStep, Exited

LEMMA TypeStep ==
    ASSUME TypeInv, [Next]_vars
    PROVE  TypeInv'
<1> USE DispatchAssumption
        DEF TypeInv, TypeOK, Goto, Serving, Error, flags, signal, accepted,
            thread
<1>1. CASE \/ Boot \/ MakePipe \/ TestFlags \/ Select \/ JoinWorkers
           \/ JoinSignalThread
  <2>1. CASE Boot
    BY <2>1, Zenon DEF Boot
  <2>2. CASE MakePipe \/ TestFlags \/ Select \/ JoinWorkers
    BY <2>2 DEF MakePipe, TestFlags, Select, JoinWorkers
  <2>3. CASE JoinSignalThread
    BY <2>3 DEF JoinSignalThread
  <2> QED
    BY <1>1, <2>1, <2>2, <2>3
<1>2. CASE AcceptFails
  BY <1>2 DEF AcceptFails
<1>3. CASE Push
  BY <1>3 DEF Push, Waiters
<1>4. ASSUME NEW c \in Conns, NEW f \in Descriptors, Accept(c, f)
      PROVE  TypeInv'
  BY <1>4 DEF Accept
<1>5. ASSUME NEW w \in Workers, Sleep(w) \/ Retire(w) \/ SpuriousWakeup(w)
      PROVE  TypeInv'
  BY <1>5 DEF Sleep, Retire, SpuriousWakeup
<1>6. ASSUME NEW w \in Workers, Pop(w)
      PROVE  TypeInv'
  BY <1>6 DEF Pop
<1>7. ASSUME NEW w \in Workers, Read(w)
      PROVE  TypeInv'
  <2>1. fd[w] \in Descriptors
    BY <1>7 DEF Read
  <2>2. descriptors[fd[w]] \in Conns \cup {NoConn}
    BY <2>1
  <2> QED
    BY <1>7, <2>1, <2>2 DEF Read
<1>8. ASSUME NEW w \in Workers, Serve(w) \/ EndOfFile(w)
      PROVE  TypeInv'
  BY <1>8 DEF Serve, EndOfFile
<1>9. ASSUME NEW w \in Workers, Close(w)
      PROVE  TypeInv'
  BY <1>9 DEF Close
<1>10. ASSUME NEW sig \in Signals, Signal(sig)
       PROVE  TypeInv'
  BY <1>10 DEF Signal
<1>11. CASE ClosePipe \/ WakeWorkers
  <2>1. CASE ClosePipe
    <3>1. /\ pipeClosed' \in BOOLEAN /\ signalThread' = "wakeWorkers"
          /\ UNCHANGED <<master, flags, backlog, accepted, queueLen,
                         descriptors, thread, client>>
      BY <2>1, Zenon DEF ClosePipe, Started
    <3> QED
      BY <3>1, Zenon
  <2>2. CASE WakeWorkers
    BY <2>2 DEF WakeWorkers
  <2> QED
    BY <1>11, <2>1, <2>2
<1>12. ASSUME NEW c \in Conns, Connect(c) \/ Leave(c)
       PROVE  TypeInv'
  BY <1>12 DEF Connect, Leave
<1>13. CASE UNCHANGED vars
  BY <1>13 DEF vars
<1> HIDE DEF TypeInv, TypeOK
<1> QED
  BY NextCases, <1>1, <1>2, <1>3, <1>4, <1>5, <1>6, <1>7, <1>8, <1>9, <1>10,
     <1>11, <1>12, <1>13

LEMMA TypeAlways == Spec => []TypeInv
<1>1. Init => TypeInv
  <2>1. Init => TypeOK
    <3> SUFFICES ASSUME Init PROVE TypeOK
      OBVIOUS
    <3>1. /\ descriptors \in [Descriptors -> Conns \cup {NoConn}]
          /\ fd \in [Workers -> Descriptors \cup {Error}]
          /\ socket \in [Workers -> Conns \cup {NoConn}]
      BY DEF Init
    <3>2. /\ pc \in [Workers -> {"idle", "waiting", "gone"} \cup Serving]
          /\ client \in [Conns -> {"away", "connected", "served", "left"}]
      BY DEF Init
    <3> QED
      BY <3>1, <3>2 DEF Init, TypeOK
  <2>2. Init => \A w \in Workers : pc[w] \notin Serving
    BY DEF Init, Serving
  <2> QED
    BY <2>1, <2>2 DEF TypeInv
<1>2. TypeInv /\ [Next]_vars => TypeInv'
  BY TypeStep
<1> QED
  BY <1>1, <1>2, PTL DEF Spec

\* The main thread, the workers and the signal thread keep their variables in
\* their types; queueLen never goes below zero.
THEOREM DispatchTypeCorrect == Spec => []TypeOK
  BY TypeAlways, PTL DEF TypeInv

-----------------------------------------------------------------------------
(* One descriptor, one worker                                              *)

\* The descriptor main accepted last, not popped yet.
Pending == master = "push" \/ queueLen > 0

\* The single element of the queue is a descriptor that is open and that no
\* worker serves.  It is what makes the next pop return a descriptor of its
\* own; a second accept before that pop is what breaks it (overtaken).
Handover ==
    /\ master \in {"joined", "exited"} => \A w \in Workers : pc[w] = "gone"
    /\ ~overtaken =>
          /\ queueLen <= 1
          /\ master = "push" => queueLen = 0
          /\ Pending /\ master # "exited" =>
                /\ fd_client_skt \in Descriptors
                /\ descriptors[fd_client_skt] # NoConn
                /\ \A w \in Workers :
                      pc[w] \in Serving => fd[w] # fd_client_skt
    /\ OneWorkerEach
    /\ DescriptorKept

LEMMA HandoverStep ==
    ASSUME TypeInv, Handover, [Next]_vars
    PROVE  Handover'
<1> USE DispatchAssumption
        DEF TypeInv, TypeOK, Handover, Pending, OneWorkerEach, DescriptorKept,
            Goto, Serving, Error, flags, signal, accepted, thread
<1>1. CASE Boot \/ MakePipe \/ TestFlags \/ Select \/ JoinWorkers
  BY <1>1 DEF Boot, MakePipe, TestFlags, Select, JoinWorkers
<1>2. CASE JoinSignalThread
  BY <1>2 DEF JoinSignalThread
<1>3. CASE AcceptFails
  BY <1>3 DEF AcceptFails
<1>4. CASE Push
  BY <1>4 DEF Push, Waiters
<1>5. ASSUME NEW c \in Conns, NEW f \in Descriptors, Accept(c, f)
      PROVE  Handover'
  <2>1. CASE overtaken'
    BY <1>5, <2>1 DEF Accept
  <2>2. CASE ~overtaken'
    <3>1. ~overtaken /\ queueLen = 0
      <4> HIDE DEF TypeInv, TypeOK, Handover
      <4>1. overtaken' = (overtaken \/ queueLen > 0)
        BY <1>5 DEF Accept
      <4>2. ~overtaken /\ ~(queueLen > 0)
        BY <2>2, <4>1, Zenon
      <4>3. queueLen \in Nat
        BY DEF TypeInv, TypeOK
      <4> QED
        BY <4>2, <4>3
    <3>2. \A w \in Workers : pc[w] \in Serving => fd[w] # f
      BY <1>5, <3>1 DEF Accept
    <3>3. /\ descriptors'[f] # NoConn /\ fd_client_skt' = f
          /\ \A g \in Descriptors : g # f => descriptors'[g] = descriptors[g]
      BY <1>5 DEF Accept
    <3>4. /\ master' = "push" /\ queueLen' = 0
          /\ pc' = pc /\ fd' = fd /\ socket' = socket
      BY <1>5, <3>1 DEF Accept
    <3>5. \A v \in Workers :
             pc'[v] \in Serving =>
                 /\ fd'[v] # f /\ fd'[v] \in Descriptors
                 /\ descriptors'[fd'[v]] = descriptors[fd[v]]
      BY <3>2, <3>3, <3>4
    <3> QED
      BY <3>1, <3>3, <3>4, <3>5
  <2> QED
    BY <2>1, <2>2
<1>6. ASSUME NEW w \in Workers, Sleep(w) \/ Retire(w) \/ SpuriousWakeup(w)
      PROVE  Handover'
  BY <1>6 DEF Sleep, Retire, SpuriousWakeup
<1>7. ASSUME NEW w \in Workers, Pop(w)
      PROVE  Handover'
  BY <1>7 DEF Pop
<1>8. ASSUME NEW w \in Workers, Read(w)
      PROVE  Handover'
  BY <1>8 DEF Read
<1>9. ASSUME NEW w \in Workers, Serve(w) \/ EndOfFile(w)
      PROVE  Handover'
  BY <1>9 DEF Serve, EndOfFile
<1>10. ASSUME NEW w \in Workers, Close(w)
       PROVE  Handover'
  BY <1>10 DEF Close
<1>11. ASSUME NEW sig \in Signals, Signal(sig)
       PROVE  Handover'
  BY <1>11 DEF Signal
<1>12. CASE ClosePipe \/ WakeWorkers
  BY <1>12 DEF ClosePipe, WakeWorkers
<1>13. ASSUME NEW c \in Conns, Connect(c) \/ Leave(c)
       PROVE  Handover'
  BY <1>13 DEF Connect, Leave
<1>14. CASE UNCHANGED vars
  BY <1>14 DEF vars
<1> HIDE DEF TypeInv, Handover
<1> QED
  BY NextCases, <1>1, <1>2, <1>3, <1>4, <1>5, <1>6, <1>7, <1>8, <1>9, <1>10,
     <1>11, <1>12, <1>13, <1>14

LEMMA HandoverAlways == Spec => []Handover
<1>1. Init => Handover
  BY DEF Init, Handover, Pending, OneWorkerEach, DescriptorKept, Serving
<1>2. TypeInv /\ Handover /\ [Next]_vars => Handover'
  BY HandoverStep
<1> QED
  BY <1>1, <1>2, TypeAlways, PTL DEF Spec

\* While main does not accept with an element still queued, no two workers
\* serve the same descriptor ...
THEOREM DescriptorsNotShared == Spec => []OneWorkerEach
<1>1. Handover => OneWorkerEach
  BY DEF Handover
<1> QED
  BY <1>1, HandoverAlways, PTL

\* ... and none uses a number that was closed or reused under its hands.
THEOREM DescriptorsNotStale == Spec => []DescriptorKept
<1>1. Handover => DescriptorKept
  BY DEF Handover
<1> QED
  BY <1>1, HandoverAlways, PTL

-----------------------------------------------------------------------------
(* No connection is forgotten                                              *)

\* The workers start when the flags are set.
Awake ==
    /\ ~Started => \A w \in Workers : pc[w] = "idle"
    /\ EnoughAwake

LEMMA IdleIsFinite ==
    /\ IsFiniteSet(Idle) /\ Cardinality(Idle) \in Nat
    /\ IsFiniteSet(Idle') /\ Cardinality(Idle') \in Nat
<1>1. Idle \subseteq Workers /\ Idle' \subseteq Workers
  BY DEF Idle
<1> QED
  BY <1>1, DispatchAssumption, FS_Subset, FS_CardinalityType

\* A step that lets no worker stop being idle, and queues nothing.
LEMMA MoreIdle ==
    ASSUME Awake, TypeInv, Idle \subseteq Idle', queueLen' = queueLen,
           Waiters' \subseteq Waiters, Stopping => Stopping'
    PROVE  EnoughAwake'
<1>1. Cardinality(Idle) <= Cardinality(Idle')
  BY IdleIsFinite, FS_Subset
<1>2. Waiters' # {} /\ ~Stopping' => Cardinality(Idle) >= queueLen
  BY DEF Awake, EnoughAwake
<1>3. queueLen \in Nat
  BY DEF TypeInv, TypeOK
<1> QED
  BY <1>1, <1>2, <1>3, IdleIsFinite DEF EnoughAwake

LEMMA AwakeStep ==
    ASSUME TypeInv, Awake, [Next]_vars
    PROVE  Awake'
<1> USE DEF TypeInv, TypeOK, Goto, Serving, flags, signal, accepted, thread
<1>1. CASE Boot
  BY <1>1 DEF Boot, Awake, EnoughAwake, Waiters, Started
<1>2. CASE \/ MakePipe \/ TestFlags \/ Select \/ JoinWorkers \/ JoinSignalThread
           \/ AcceptFails
           \/ \E c \in Conns, f \in Descriptors : Accept(c, f)
           \/ \E w \in Workers : Read(w) \/ Serve(w) \/ EndOfFile(w)
           \/ \E sig \in Signals : Signal(sig)
           \/ ClosePipe
           \/ \E c \in Conns : Connect(c) \/ Leave(c)
           \/ UNCHANGED vars
  <2>1. /\ Idle \subseteq Idle'
        /\ Waiters' \subseteq Waiters
        /\ queueLen' = queueLen
    BY <1>2
       DEF MakePipe, TestFlags, Select, JoinWorkers, JoinSignalThread,
           AcceptFails, Accept, Read, Serve, EndOfFile, Signal, ClosePipe, Connect, Leave,
           vars, Idle, Waiters
  <2>2. Stopping => Stopping'
    BY <1>2
       DEF MakePipe, TestFlags, Select, JoinWorkers, JoinSignalThread,
           AcceptFails, Accept, Read, Serve, EndOfFile, Signal, ClosePipe, Connect, Leave,
           vars, Stopping
  <2>3. ~Started' => \A w \in Workers : pc'[w] = "idle"
    BY <1>2
       DEF MakePipe, TestFlags, Select, JoinWorkers, JoinSignalThread,
           AcceptFails, Accept, Read, Serve, EndOfFile, Signal, ClosePipe, Connect, Leave,
           vars, Awake, Started
  <2> QED
    BY <2>1, <2>2, <2>3, MoreIdle DEF Awake
<1>3. CASE WakeWorkers
  BY <1>3 DEF WakeWorkers, Awake, EnoughAwake, Waiters, Started
<1>4. CASE Push
  <2>1. CASE Waiters = {}
    BY <1>4, <2>1 DEF Push, Awake, EnoughAwake, Waiters, Started
  <2>2. CASE Waiters # {}
    <3>1. PICK w \in Waiters : pc' = [pc EXCEPT ![w] = "idle"]
      BY <1>4, <2>2 DEF Push
    <3>2. w \notin Idle /\ Idle' = Idle \cup {w}
      BY <3>1 DEF Idle, Waiters
    <3>3. Cardinality(Idle') = Cardinality(Idle) + 1
      BY <3>2, IdleIsFinite, FS_AddElement
    <3>4. queueLen' = queueLen + 1 /\ Stopping' = Stopping
      BY <1>4 DEF Push, Stopping
    <3>5. ~Stopping => Cardinality(Idle) >= queueLen
      BY <2>2 DEF Awake, EnoughAwake
    <3>6. Started'
      BY <1>4 DEF Push, Started
    <3> QED
      BY <3>3, <3>4, <3>5, <3>6, IdleIsFinite DEF Awake, EnoughAwake
  <2> QED
    BY <2>1, <2>2
<1>5. ASSUME NEW w \in Workers, Close(w) \/ SpuriousWakeup(w)
      PROVE  Awake'
  <2>1. /\ Idle \subseteq Idle'
        /\ Waiters' \subseteq Waiters
        /\ queueLen' = queueLen
        /\ Stopping => Stopping'
    BY <1>5 DEF Close, SpuriousWakeup, Idle, Waiters, Stopping
  <2>2. ~Started' => \A v \in Workers : pc'[v] = "idle"
    BY <1>5 DEF Close, SpuriousWakeup, Awake, Started
  <2> QED
    BY <2>1, <2>2, MoreIdle DEF Awake
<1>6. ASSUME NEW w \in Workers, Sleep(w)
      PROVE  Awake'
  BY <1>6, IdleIsFinite DEF Sleep, Awake, EnoughAwake, Started
<1>7. ASSUME NEW w \in Workers, Retire(w)
      PROVE  Awake'
  BY <1>7 DEF Retire, Awake, EnoughAwake, Stopping, Started
<1>8. ASSUME NEW w \in Workers, Pop(w)
      PROVE  Awake'
  <2>1. w \in Idle /\ Idle' = Idle \ {w} /\ Waiters' = Waiters
    BY <1>8 DEF Pop, Idle, Waiters
  <2>2. Cardinality(Idle') = Cardinality(Idle) - 1
    BY <2>1, IdleIsFinite, FS_RemoveElement
  <2>3. queueLen' = queueLen - 1 /\ Stopping' = Stopping /\ Started'
    BY <1>8 DEF Pop, Stopping, Started
  <2> QED
    BY <2>1, <2>2, <2>3, IdleIsFinite DEF Awake, EnoughAwake
<1> HIDE DEF TypeInv, TypeOK
<1> QED
  BY NextCases, <1>1, <1>2, <1>3, <1>4, <1>5, <1>6, <1>7, <1>8

\* No push is lost on the workers: with workers asleep, enough others are on
\* their way to take all that is queued.
THEOREM NoConnectionForgotten == Spec => []EnoughAwake
<1>1. Init => Awake
  BY DEF Init, Awake, EnoughAwake, Waiters
<1>2. TypeInv /\ Awake /\ [Next]_vars => Awake'
  BY AwakeStep
<1>3. Awake => EnoughAwake
  BY DEF Awake
<1> QED
  BY <1>1, <1>2, <1>3, TypeAlways, PTL DEF Spec
=============================================================================
