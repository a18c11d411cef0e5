-------------------------- MODULE MainThreadExecutor --------------------------
(***************************************************************************)
(* executor/src/lib.rs and launch_ptrace of main/src/lib.rs, with          *)
(* --fix-attach: all ptrace requests run on the main thread.  The tracer   *)
(* threads send closures through a channel of capacity 1 and wait for the  *)
(* result on a channel of their own; the main thread serves until the      *)
(* tracer of the root process calls stop.                                  *)
(*                                                                         *)
(* A client is one tracer thread.  A request is a <<client, number>>; its  *)
(* result is the request itself, so that a wrong result would show.  Every *)
(* read and write of should_serve is an action of its own.                 *)
(***************************************************************************)
EXTENDS Integers, Sequences

CONSTANTS Root,        \* the client that is started by launch_ptrace
          Kids,        \* the clients that are started for child tracees
          MaxRequests  \* bound: requests per client

ASSUME ExecutorAssumption ==
    /\ Root \notin Kids
    /\ MaxRequests \in Nat \ {0}

Clients == {Root} \cup Kids

VARIABLES
    should_serve,
    server,   \* the main thread: see the actions of serve; then "joining", "done"
    item,     \* what recv_timeout returned: a request, or <<>>
    queue,    \* the channel of requests
    open,     \* its receiver exists
    client,   \* "none", "idle", "sending", "waiting", "stopped" or "ended"
    sent,     \* the number of requests each client has made
    answer,   \* the result channel of each client's current request, or <<>>
    got,      \* the last result execute returned to each client
    ran       \* history: how often each request has run

vars == <<should_serve, server, item, queue, open, client, sent, answer, got, ran>>

Request(c) == <<c, sent[c]>>
Requests == Clients \X (1..MaxRequests)

\* A tracer thread drops its clones of the client when it ends.
Connected == \E c \in Clients : client[c] \notin {"none", "ended"}

Init ==
    /\ should_serve = FALSE
    /\ server = "start" /\ item = <<>>
    /\ queue = <<>> /\ open = TRUE
    /\ client = [c \in Clients |-> IF c = Root THEN "idle" ELSE "none"]
    /\ sent = [c \in Clients |-> 0]
    /\ answer = [c \in Clients |-> <<>>]
    /\ got = [c \in Clients |-> <<>>]
    /\ ran = [r \in Requests |-> 0]

-------------------------------------------------------------------------------
(* serve, on the main thread.                                                *)

ServeStart ==
    /\ server = "start"
    /\ should_serve' = TRUE
    /\ server' = "loop"
    /\ UNCHANGED <<item, queue, open, client, sent, answer, got, ran>>

ServeLoop ==
    /\ server = "loop"
    /\ server' = IF should_serve THEN "recv" ELSE "joining"
    /\ UNCHANGED <<should_serve, item, queue, open, client, sent, answer, got, ran>>

\* Mutant: Disconnected is treated as Timeout.
ServeRecvNoDisconnect ==
    /\ server = "recv"
    /\ \/ /\ queue # <<>>
          /\ item' = Head(queue)
          /\ queue' = Tail(queue)
          /\ server' = "check"
       \/ /\ queue = <<>>
          /\ server' = "loop"
          /\ UNCHANGED <<item, queue>>
    /\ UNCHANGED <<should_serve, open, client, sent, answer, got, ran>>

\* recv_timeout: a request, or Disconnected, or Timeout (back to the loop).
ServeRecv ==
    /\ server = "recv"
    /\ \/ /\ queue # <<>>
          /\ item' = Head(queue)
          /\ queue' = Tail(queue)
          /\ server' = "check"
       \/ /\ queue = <<>>
          /\ server' = IF Connected THEN "loop" ELSE "check"
          /\ UNCHANGED <<item, queue>>
    /\ UNCHANGED <<should_serve, open, client, sent, answer, got, ran>>

\* Mutant: should_serve is not read again.
ServeUnchecked ==
    /\ server = "check"
    /\ server' = IF item # <<>> THEN "run" ELSE "error"
    /\ UNCHANGED <<should_serve, item, queue, open, client, sent, answer, got, ran>>

\* should_serve is read again: a request runs either way, Disconnected is an error only
\* while serving.
ServeCheck ==
    /\ server = "check"
    /\ server' = CASE item # <<>> -> "run"
                   [] item = <<>> /\ should_serve -> "error"
                   [] OTHER -> "loop"
    /\ UNCHANGED <<should_serve, item, queue, open, client, sent, answer, got, ran>>

\* Mutant: the result is not sent back.
ServeRunUnsent ==
    /\ server = "run"
    /\ ran' = [ran EXCEPT ![item] = @ + 1]
    /\ item' = <<>>
    /\ server' = "loop"
    /\ UNCHANGED <<should_serve, queue, open, client, sent, answer, got>>

ServeRun ==
    /\ server = "run"
    /\ ran' = [ran EXCEPT ![item] = @ + 1]
    /\ answer' = [answer EXCEPT ![item[1]] = item]
    /\ item' = <<>>
    /\ server' = "loop"
    /\ UNCHANGED <<should_serve, queue, open, client, sent, got>>

\* launch_ptrace: joins the root tracer after serve, or returns the error of serve at
\* once; either way the receiver is dropped, and what is left in the channel with it.
LaunchReturns ==
    /\ server = "error" \/ (server = "joining" /\ client[Root] = "ended")
    /\ server' = IF server = "error" THEN "failed" ELSE "done"
    /\ open' = FALSE
    /\ queue' = <<>>
    /\ UNCHANGED <<should_serve, item, client, sent, answer, got, ran>>

-------------------------------------------------------------------------------
(* execute and stop, on the tracer threads.                                  *)

\* Mutant: one result channel for all requests of a client.
BeginExecuteSharedChannel(c) ==
    /\ client[c] = "idle" /\ sent[c] < MaxRequests
    /\ sent' = [sent EXCEPT ![c] = @ + 1]
    /\ client' = [client EXCEPT ![c] = "sending"]
    /\ UNCHANGED <<should_serve, server, item, queue, open, answer, got, ran>>

BeginExecute(c) ==
    /\ client[c] = "idle" /\ sent[c] < MaxRequests
    /\ sent' = [sent EXCEPT ![c] = @ + 1]
    /\ answer' = [answer EXCEPT ![c] = <<>>]
    /\ client' = [client EXCEPT ![c] = "sending"]
    /\ UNCHANGED <<should_serve, server, item, queue, open, got, ran>>

\* Blocks while the channel is full; fails once the receiver is gone.
Send(c) ==
    /\ client[c] = "sending"
    /\ \/ /\ open /\ Len(queue) < 1
          /\ queue' = Append(queue, Request(c))
          /\ client' = [client EXCEPT ![c] = "waiting"]
       \/ /\ ~open
          /\ client' = [client EXCEPT ![c] = "ended"]
          /\ UNCHANGED queue
    /\ UNCHANGED <<should_serve, server, item, open, sent, answer, got, ran>>

\* The result arrives, or the closure that would send it was dropped.
Receive(c) ==
    /\ client[c] = "waiting"
    /\ \/ /\ answer[c] # <<>>
          /\ got' = [got EXCEPT ![c] = answer[c]]
          /\ client' = [client EXCEPT ![c] = "idle"]
       \/ /\ answer[c] = <<>> /\ ~open /\ item # Request(c)
          /\ client' = [client EXCEPT ![c] = "ended"]
          /\ UNCHANGED got
    /\ UNCHANGED <<should_serve, server, item, queue, open, sent, answer, ran>>

\* A fork event starts the tracer of the child with a clone of the client.
Fork(c, k) ==
    /\ client[c] = "idle" /\ sent[c] > 0
    /\ client[k] = "none"
    /\ client' = [client EXCEPT ![k] = "idle"]
    /\ UNCHANGED <<should_serve, server, item, queue, open, sent, answer, got, ran>>

\* The callback of the root tracer, which may come before its first request; its thread,
\* with the last clones of the client, ends after it.
Stop ==
    /\ client[Root] = "idle"
    /\ should_serve' = FALSE
    /\ client' = [client EXCEPT ![Root] = "stopped"]
    /\ UNCHANGED <<server, item, queue, open, sent, answer, got, ran>>

End(c) ==
    /\ client[c] = IF c = Root THEN "stopped" ELSE "idle"
    /\ client' = [client EXCEPT ![c] = "ended"]
    /\ UNCHANGED <<should_serve, server, item, queue, open, sent, answer, got, ran>>

Finished ==
    /\ server \in {"done", "failed"}
    /\ \A c \in Clients : client[c] \in {"none", "ended"}
    /\ UNCHANGED vars

Serve == ServeStart \/ ServeLoop \/ ServeRecv \/ ServeCheck \/ ServeRun \/ LaunchReturns

Next ==
    \/ Serve
    \/ \E c \in Clients :
          \/ BeginExecute(c) \/ Send(c) \/ Receive(c) \/ End(c)
          \/ \E k \in Kids : Fork(c, k)
    \/ Stop
    \/ Finished

\* The threads are scheduled; a tracer thread need not make a request, but the root
\* tracer ends some day.  A blocked send gets its turn (the channel is fair to senders).
Spec ==
    /\ Init /\ [][Next]_vars
    /\ WF_vars(Serve) /\ WF_vars(Stop) /\ WF_vars(End(Root))
    /\ \A c \in Clients : WF_vars(Receive(c)) /\ SF_vars(Send(c))

-------------------------------------------------------------------------------
(* Properties.                                                               *)

\* Every variable has its type.
TypeOK ==
    /\ should_serve \in BOOLEAN /\ open \in BOOLEAN
    /\ server \in {"start", "loop", "recv", "check", "run", "error", "joining", "done", "failed"}
    /\ item \in Requests \cup {<<>>}
    /\ queue \in Seq(Requests) /\ Len(queue) <= 1
    /\ client \in [Clients -> {"none", "idle", "sending", "waiting", "stopped", "ended"}]
    /\ sent \in [Clients -> 0..MaxRequests]
    /\ answer \in [Clients -> Requests \cup {<<>>}]
    /\ got \in [Clients -> Requests \cup {<<>>}]
    /\ ran \in [Requests -> Nat]

\* execute returns the result of its own closure, which has run exactly once; a ptrace
\* request is never run twice, nor taken from another tracer thread.
OwnResultOnce ==
    /\ \A r \in Requests : ran[r] <= 1
    /\ \A c \in Clients : got[c] # <<>> => got[c][1] = c /\ ran[got[c]] = 1
    /\ \A c \in Clients : client[c] = "idle" /\ sent[c] > 0 => got[c] = Request(c)

\* serve takes the end of the tracers for a broken channel only when stop came before its
\* own first store, so that no request was ever served; otherwise stop is visible before
\* the last sender goes.
ServeEndsCleanly == server \in {"error", "failed"} => \A c \in Clients : sent[c] = 0

\* Every request that was sent is answered, or its thread learns that it never will be.
EveryRequestReturns ==
    \A c \in Clients : client[c] \in {"sending", "waiting"} ~> client[c] \in {"idle", "ended"}

\* launch_ptrace returns after the root tracer has stopped, even when stop came before
\* serve, whose first store overwrites it.
LaunchEnds == client[Root] = "stopped" ~> server \in {"done", "failed"}
===============================================================================
