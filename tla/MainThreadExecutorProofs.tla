----------------------- MODULE MainThreadExecutorProofs -----------------------
(***************************************************************************)
(* Proofs about MainThreadExecutor, for every number of tracer threads and *)
(* of requests.                                                            *)
(***************************************************************************)
EXTENDS MainThreadExecutor, SequenceTheorems, TLAPS

-------------------------------------------------------------------------------
(* The inductive invariant.                                                  *)

\* A request is on its way: its client waits for it, and it has not run.
OnItsWay(r) ==
    /\ r = Request(r[1])
    /\ client[r[1]] = "waiting"
    /\ answer[r[1]] = <<>>
    /\ ran[r] = 0

\* Where a request is: in the channel or with the main thread, and never in both.
RouteInv ==
    /\ queue # <<>> => OnItsWay(queue[1]) /\ open
    /\ item # <<>> => OnItsWay(item) /\ server \in {"check", "run"}
    /\ queue # <<>> => item # queue[1]
    /\ server = "run" => item # <<>>

\* How often each request has run, by its number.
RanInv ==
    \A r \in Requests :
       /\ ran[r] <= 1
       /\ r[2] > sent[r[1]] => ran[r] = 0
       /\ r[2] = sent[r[1]] /\ client[r[1]] = "sending" => ran[r] = 0

\* What a client's result channel holds, and what execute has returned to it.
ResultInv ==
    \A c \in Clients :
       /\ client[c] = "none" => sent[c] = 0
       /\ client[c] = "sending" => answer[c] = <<>>
       /\ client[c] \in {"sending", "waiting"} => sent[c] > 0
       /\ answer[c] # <<>> => answer[c] = Request(c) /\ ran[answer[c]] = 1
       /\ got[c] # <<>> => got[c][1] = c /\ ran[got[c]] = 1
       /\ client[c] = "idle" /\ sent[c] > 0 => got[c] = Request(c)

\* No tracer thread has made a request, and none but the root's exists.
NothingBegun ==
    /\ \A c \in Clients : sent[c] = 0
    /\ \A k \in Kids : client[k] = "none"

\* should_serve against the life of the root tracer.
StopInv ==
    /\ open <=> server \notin {"done", "failed"}
    /\ server = "start" =>
          /\ ~should_serve
          /\ \A c \in Clients : answer[c] = <<>> /\ (client[c] = "idle" => sent[c] = 0)
          /\ \A k \in Kids : client[k] = "none"
    /\ client[Root] # "none"
    /\ client[Root] \in {"stopped", "ended"} /\ (should_serve \/ server = "start")
          => NothingBegun
    /\ server = "check" /\ item = <<>> => client[Root] = "ended"
    /\ server \in {"error", "failed"} => should_serve /\ client[Root] = "ended"
    /\ server \in {"joining", "done"} => ~should_serve

IndInv == TypeOK /\ RouteInv /\ RanInv /\ ResultInv /\ StopInv

USE ExecutorAssumption

\* A request is a pair of a client and a number.
LEMMA RequestFields ==
    ASSUME NEW r \in Requests
    PROVE  /\ r[1] \in Clients /\ r[2] \in 1..MaxRequests /\ r = <<r[1], r[2]>>
           /\ r # <<>>
BY DEF Requests

\* A sequence of one element at most.
LEMMA ShortSeq ==
    ASSUME NEW S, NEW s \in Seq(S), Len(s) <= 1
    PROVE  /\ s # <<>> => s[1] \in S /\ Head(s) = s[1] /\ Tail(s) = <<>>
           /\ Len(s) < 1 => s = <<>>
<1>1. s # <<>> => Len(s) = 1
  BY EmptySeq
<1>2. s # <<>> => s[1] \in S /\ Head(s) = s[1]
  BY <1>1
<1>3. s # <<>> => Tail(s) \in Seq(S) /\ Len(Tail(s)) = 0
  BY <1>1
<1>4. s # <<>> => Tail(s) = <<>>
  BY <1>3, EmptySeq
<1> QED BY <1>1, <1>2, <1>4

\* The channel holds one request at most.
LEMMA ChannelOfOne ==
    ASSUME TypeOK
    PROVE  /\ queue # <<>> =>
                  queue[1] \in Requests /\ Head(queue) = queue[1] /\ Tail(queue) = <<>>
           /\ Len(queue) < 1 => queue = <<>>
<1>1. queue \in Seq(Requests) /\ Len(queue) <= 1
  BY DEF TypeOK
<1> QED BY <1>1, ShortSeq

\* The number of a request that was made.
LEMMA RequestType ==
    ASSUME TypeOK, NEW c \in Clients, sent[c] > 0
    PROVE  Request(c) \in Requests
BY DEF TypeOK, Request, Requests

\* The main thread has not begun to serve, and the root tracer has not made a request.
LEMMA InitInv == Init => IndInv
<1> SUFFICES ASSUME Init PROVE IndInv
  OBVIOUS
<1> USE DEF Init
<1>1. TypeOK
  <2>1. queue \in Seq(Requests) /\ Len(queue) <= 1
    BY EmptySeq
  <2>2. sent \in [Clients -> 0..MaxRequests] /\ ran \in [Requests -> Nat]
    OBVIOUS
  <2> QED BY <2>1, <2>2 DEF TypeOK
<1>2. RouteInv /\ RanInv
  BY RequestFields DEF RouteInv, RanInv
<1>3. ResultInv
  BY DEF ResultInv
<1>4. StopInv
  BY DEF StopInv, NothingBegun, Clients
<1> QED BY <1>1, <1>2, <1>3, <1>4 DEF IndInv

-------------------------------------------------------------------------------
(* One lemma per kind of step.                                               *)

\* The main thread reads or writes should_serve, or takes nothing from the channel.
LEMMA ServeFlagStep ==
    ASSUME IndInv, ServeStart \/ ServeLoop \/ ServeCheck
    PROVE  IndInv'
<1> USE DEF ServeStart, ServeLoop, ServeCheck
<1>1. TypeOK'
  BY DEF IndInv, TypeOK
<1>2. RouteInv' /\ RanInv'
  BY DEF IndInv, TypeOK, RouteInv, RanInv, OnItsWay, Request
<1>3. ResultInv'
  BY DEF IndInv, ResultInv, Request
<1>4. StopInv'
  BY DEF IndInv, TypeOK, RouteInv, StopInv, NothingBegun
<1> QED BY <1>1, <1>2, <1>3, <1>4 DEF IndInv

\* The main thread takes a request from the channel, or finds the channel disconnected.
LEMMA ServeRecvStep ==
    ASSUME IndInv, ServeRecv
    PROVE  IndInv'
<1> USE DEF ServeRecv
<1>1. CASE queue # <<>> /\ item' = Head(queue) /\ queue' = Tail(queue) /\ server' = "check"
  <2>1. queue[1] \in Requests /\ item' = queue[1] /\ queue' = <<>> /\ item' # <<>>
    BY <1>1, ChannelOfOne, RequestFields DEF IndInv
  <2>2. TypeOK'
    BY <1>1, <2>1 DEF IndInv, TypeOK
  <2>3. RouteInv' /\ RanInv' /\ ResultInv'
    BY <1>1, <2>1 DEF IndInv, RouteInv, RanInv, ResultInv, OnItsWay, Request
  <2>4. StopInv'
    BY <1>1, <2>1 DEF IndInv, StopInv, NothingBegun
  <2> QED BY <2>2, <2>3, <2>4 DEF IndInv
<1>2. CASE /\ queue = <<>>
           /\ server' = IF Connected THEN "loop" ELSE "check"
           /\ UNCHANGED <<item, queue>>
  <2>1. TypeOK'
    BY <1>2 DEF IndInv, TypeOK
  <2>2. item = <<>>
    BY DEF IndInv, RouteInv
  <2>3. RouteInv' /\ RanInv' /\ ResultInv'
    BY <1>2, <2>2 DEF IndInv, RouteInv, RanInv, ResultInv, OnItsWay, Request
  <2>4. ~Connected => client[Root] = "ended"
    BY DEF IndInv, StopInv, Connected, Clients
  <2>5. StopInv'
    BY <1>2, <2>2, <2>4 DEF IndInv, StopInv, NothingBegun
  <2> QED BY <2>1, <2>3, <2>5 DEF IndInv
<1> QED BY <1>1, <1>2

\* The main thread runs a request, once, and sends its result to the thread that waits.
LEMMA ServeRunStep ==
    ASSUME IndInv, ServeRun
    PROVE  IndInv'
<1> USE DEF ServeRun
<1>1. /\ item \in Requests /\ item[1] \in Clients /\ OnItsWay(item)
      /\ \A r \in Requests : r = <<r[1], r[2]>> /\ r[1] \in Clients
  BY RequestFields DEF IndInv, TypeOK, RouteInv
<1>2. TypeOK'
  BY <1>1 DEF IndInv, TypeOK
<1>3. RouteInv'
  <2>1. queue # <<>> => queue[1] \in Requests
    BY ChannelOfOne DEF IndInv
  <2> QED BY <1>1, <2>1 DEF IndInv, TypeOK, RouteInv, OnItsWay, Request
<1>4. RanInv'
  BY <1>1 DEF IndInv, TypeOK, RanInv, OnItsWay, Request
<1>5. ResultInv'
  BY <1>1 DEF IndInv, TypeOK, ResultInv, OnItsWay, Request
<1>6. StopInv'
  BY DEF IndInv, StopInv, NothingBegun
<1> QED BY <1>2, <1>3, <1>4, <1>5, <1>6 DEF IndInv

\* launch_ptrace drops the receiver.
LEMMA LaunchStep ==
    ASSUME IndInv, LaunchReturns
    PROVE  IndInv'
<1> USE DEF LaunchReturns
<1>1. TypeOK'
  <2>1. queue' \in Seq(Requests) /\ Len(queue') <= 1
    BY EmptySeq
  <2> QED BY <2>1 DEF IndInv, TypeOK
<1>2. RouteInv' /\ RanInv' /\ ResultInv'
  BY DEF IndInv, RouteInv, RanInv, ResultInv, OnItsWay, Request
<1>3. StopInv'
  BY DEF IndInv, StopInv, NothingBegun
<1> QED BY <1>1, <1>2, <1>3 DEF IndInv

\* A tracer thread begins a request, with a result channel of its own.
LEMMA BeginStep ==
    ASSUME IndInv, NEW c \in Clients, BeginExecute(c)
    PROVE  IndInv'
<1> USE DEF BeginExecute
<1>0. \A r \in Requests : r = <<r[1], r[2]>> /\ r[1] \in Clients /\ r[2] \in Nat
  BY RequestFields
<1>1. TypeOK'
  <2>1. sent' \in [Clients -> 0..MaxRequests]
    BY DEF IndInv, TypeOK
  <2>2. answer' \in [Clients -> Requests \cup {<<>>}]
    BY DEF IndInv, TypeOK
  <2>3. client' \in [Clients -> {"none", "idle", "sending", "waiting", "stopped", "ended"}]
    BY DEF IndInv, TypeOK
  <2> QED BY <2>1, <2>2, <2>3 DEF IndInv, TypeOK
<1>2. RouteInv'
  <2>1. queue # <<>> => queue[1] \in Requests
    BY ChannelOfOne DEF IndInv
  <2> QED BY <1>0, <2>1 DEF IndInv, TypeOK, RouteInv, OnItsWay, Request
<1>3. RanInv'
  BY <1>0 DEF IndInv, TypeOK, RanInv
<1>4. ResultInv'
  BY <1>0 DEF IndInv, TypeOK, ResultInv, Request
<1>5. StopInv'
  BY DEF IndInv, TypeOK, StopInv, NothingBegun, Clients
<1> QED BY <1>1, <1>2, <1>3, <1>4, <1>5 DEF IndInv

\* The request enters the channel, or the receiver is gone.
LEMMA SendStep ==
    ASSUME IndInv, NEW c \in Clients, Send(c)
    PROVE  IndInv'
<1> USE DEF Send
<1>0. \A r \in Requests : r = <<r[1], r[2]>> /\ r[1] \in Clients /\ r[2] \in Nat /\ r # <<>>
  BY RequestFields
<1>1. Request(c) \in Requests
  BY RequestType DEF IndInv, ResultInv
<1>2. CASE /\ open /\ Len(queue) < 1
           /\ queue' = Append(queue, Request(c))
           /\ client' = [client EXCEPT ![c] = "waiting"]
  <2>0. queue' = <<Request(c)>>
    BY <1>2, ChannelOfOne DEF IndInv
  <2>1. /\ queue' # <<>> /\ queue'[1] = Request(c)
        /\ Len(queue') = 1 /\ queue' \in Seq(Requests)
    BY <1>1, <2>0
  <2>2. TypeOK'
    BY <1>2, <2>1 DEF IndInv, TypeOK
  <2>3. OnItsWay(Request(c))'
    <3>1. ran[Request(c)] = 0 /\ answer[c] = <<>>
      BY <1>1 DEF IndInv, RanInv, ResultInv, Request
    <3>2. Request(c)' = Request(c) /\ Request(c)[1] = c
      BY DEF Request
    <3> QED BY <1>2, <3>1, <3>2 DEF IndInv, TypeOK, OnItsWay, Request
  <2>4. item # Request(c)
    BY DEF IndInv, RouteInv, OnItsWay, Request
  <2>5. RouteInv'
    BY <1>0, <1>2, <2>1, <2>3, <2>4 DEF IndInv, TypeOK, RouteInv, OnItsWay, Request
  <2>6. RanInv'
    BY <1>0, <1>2 DEF IndInv, TypeOK, RanInv
  <2>7. ResultInv'
    BY <1>2 DEF IndInv, TypeOK, ResultInv, Request
  <2>8. StopInv'
    BY <1>2 DEF IndInv, TypeOK, StopInv, NothingBegun, Clients
  <2> QED BY <2>2, <2>5, <2>6, <2>7, <2>8 DEF IndInv
<1>3. CASE ~open /\ client' = [client EXCEPT ![c] = "ended"] /\ UNCHANGED queue
  <2>1. TypeOK'
    BY <1>3 DEF IndInv, TypeOK
  <2>2. RouteInv'
    BY <1>0, <1>3 DEF IndInv, TypeOK, RouteInv, OnItsWay, Request
  <2>3. RanInv' /\ ResultInv'
    BY <1>0, <1>3 DEF IndInv, TypeOK, RanInv, ResultInv, Request
  <2>4. StopInv'
    BY <1>3 DEF IndInv, TypeOK, StopInv, NothingBegun, Clients
  <2> QED BY <2>1, <2>2, <2>3, <2>4 DEF IndInv
<1> QED BY <1>2, <1>3

\* The result comes back, or never will.
LEMMA ReceiveStep ==
    ASSUME IndInv, NEW c \in Clients, Receive(c)
    PROVE  IndInv'
<1> USE DEF Receive
<1>0. \A r \in Requests : r = <<r[1], r[2]>> /\ r[1] \in Clients /\ r[2] \in Nat /\ r # <<>>
  BY RequestFields
<1>1. TypeOK'
  BY DEF IndInv, TypeOK
<1>2. RouteInv'
  BY <1>0, ChannelOfOne DEF IndInv, TypeOK, RouteInv, OnItsWay, Request
<1>3. RanInv'
  BY <1>0 DEF IndInv, TypeOK, RanInv
<1>4. ResultInv'
  BY <1>0 DEF IndInv, TypeOK, ResultInv, Request
<1>5. StopInv'
  BY DEF IndInv, TypeOK, StopInv, NothingBegun, Clients
<1> QED BY <1>1, <1>2, <1>3, <1>4, <1>5 DEF IndInv

\* A tracer thread starts or ends; stop is the root's last act.
LEMMA LifeStep ==
    ASSUME IndInv, Stop \/ \E c \in Clients : End(c) \/ \E k \in Kids : Fork(c, k)
    PROVE  IndInv'
<1> USE DEF Stop, End, Fork
<1>0. \A r \in Requests : r = <<r[1], r[2]>> /\ r[1] \in Clients /\ r[2] \in Nat /\ r # <<>>
  BY RequestFields
<1>1. TypeOK'
  BY ZenonT(60) DEF IndInv, TypeOK, Clients
<1>2. RouteInv'
  BY <1>0, ChannelOfOne, SMTT(30) DEF IndInv, TypeOK, RouteInv, OnItsWay, Request, Clients
<1>3. RanInv'
  BY <1>0 DEF IndInv, TypeOK, RanInv, Clients
<1>4. ResultInv'
  BY <1>0 DEF IndInv, TypeOK, ResultInv, Request, Clients
<1>5. StopInv'
  BY DEF IndInv, TypeOK, StopInv, NothingBegun, ResultInv, Clients
<1> QED BY <1>1, <1>2, <1>3, <1>4, <1>5 DEF IndInv

-------------------------------------------------------------------------------

\* The invariant holds of every state.
THEOREM Invariance == Spec => []IndInv
<1>1. IndInv /\ [Next]_vars => IndInv'
  <2> SUFFICES ASSUME IndInv, [Next]_vars PROVE IndInv'
    OBVIOUS
  <2>1. CASE Serve
    BY <2>1, ServeFlagStep, ServeRecvStep, ServeRunStep, LaunchStep DEF Serve
  <2>2. ASSUME NEW c \in Clients, BeginExecute(c) \/ Send(c) \/ Receive(c)
        PROVE  IndInv'
    BY <2>2, BeginStep, SendStep, ReceiveStep
  <2>3. CASE Stop \/ \E c \in Clients : End(c) \/ \E k \in Kids : Fork(c, k)
    BY <2>3, LifeStep
  <2>4. CASE UNCHANGED vars
    <3>1. TypeOK' /\ StopInv'
      BY <2>4 DEF vars, IndInv, TypeOK, StopInv, NothingBegun
    <3>2. RouteInv' /\ RanInv' /\ ResultInv'
      BY <2>4 DEF vars, IndInv, RouteInv, RanInv, ResultInv, OnItsWay, Request
    <3> QED BY <3>1, <3>2 DEF IndInv
  <2> QED BY <2>1, <2>2, <2>3, <2>4 DEF Next, Finished
<1> QED BY InitInv, <1>1, PTL DEF Spec

\* Every variable has its type.
THEOREM TypeCorrect == Spec => []TypeOK
<1>1. IndInv => TypeOK
  BY DEF IndInv
<1> QED BY Invariance, <1>1, PTL

\* Executor::execute: however the tracer threads interleave on the channel, each closure runs
\* at most once on the main thread and each thread gets the result of its own.
THEOREM ExactlyOnce == Spec => []OwnResultOnce
<1>1. IndInv => OwnResultOnce
  BY DEF IndInv, RanInv, ResultInv, OwnResultOnce
<1> QED BY Invariance, <1>1, PTL

\* Executor::serve: it mistakes the end of the tracers for a broken channel only when stop
\* came before serve began, and then no request has ever been made.
THEOREM CleanEnd == Spec => []ServeEndsCleanly
<1>1. IndInv => ServeEndsCleanly
  BY DEF IndInv, StopInv, NothingBegun, ServeEndsCleanly
<1> QED BY Invariance, <1>1, PTL
===============================================================================
