------------------------------ MODULE Servers ------------------------------
(***************************************************************************)
(* TCPServer: an accept thread and a thread per connection, and stop,      *)
(* which must leave no thread behind that still uses the KVDB.             *)
(*                                                                         *)
(* KVDBServiceImpl (gRPC): every write is stored first and announced       *)
(* after, under subscriptions_mutex_, to the streams that Subscribe calls  *)
(* keep open.                                                              *)
(*                                                                         *)
(* A connection is in one of these states: "queued" by the kernel,         *)
(* "looping" at the test of running_, "receiving" in recv, "requested"     *)
(* with a whole request read, "closed".  The contents of requests and      *)
(* answers are left out: a malformed request or a failed send ends the     *)
(* thread as a disconnect does.  The gRPC library is external: it runs     *)
(* each call in a thread and cancels the context of a stream whose client  *)
(* has gone; a Write to it is dropped, or fails.                           *)
(***************************************************************************)
EXTENDS Naturals, Sequences, FiniteSets, SequencesExt

CONSTANTS Connections,
          Handlers,     \* threads in a Put, a Delete or one turn of a BatchPut
          Streams,      \* Subscribe calls, each made once
          PutsOnly,     \* the streams without include_deletes
          MaxWrites     \* bound: writes through gRPC

VARIABLES serving, listening,
          acceptor,   \* "off", "accepting", "ended", or the connection it has accepted
          conn,       \* [Connections -> state]
          threads,    \* client_threads_
          stopper,    \* where stop is: "idle", "closing", "joinAcceptor", "joinClients"
          handler,    \* [Streams -> "none", "open", "leaving", "returned"]
          cancelled, inactive, \* the streams whose context is cancelled, whose active is false
          subscriptions,       \* subscriptions_, in order
          stored,     \* the operations in the order of the KVDB
          announcing,    \* [Handlers -> number of the write to announce, 0]
          heard,      \* [Streams -> numbers of the announcements]
          since       \* history: writes stored when a stream was registered

tcpVars == <<serving, listening, acceptor, conn, threads, stopper>>
grpcVars == <<handler, cancelled, inactive, subscriptions, stored, announcing, heard, since>>

ServersTypeOK ==
  /\ serving \in BOOLEAN /\ listening \in BOOLEAN
  /\ acceptor \in {"off", "accepting", "ended"} \cup Connections
  /\ conn \in [Connections -> {"none", "queued", "accepted", "looping", "receiving",
                               "requested", "closed"}]
  /\ threads \subseteq Connections
  /\ stopper \in {"idle", "closing", "joinAcceptor", "joinClients"}
  /\ handler \in [Streams -> {"none", "open", "leaving", "returned"}]
  /\ cancelled \subseteq Streams /\ inactive \subseteq Streams
  /\ announcing \in [Handlers -> 0..MaxWrites]

ServersInit ==
  /\ serving = FALSE /\ listening = FALSE
  /\ acceptor = "off" /\ stopper = "idle"
  /\ conn = [x \in Connections |-> "none"]
  /\ threads = {}
  /\ handler = [s \in Streams |-> "none"]
  /\ cancelled = {} /\ inactive = {}
  /\ subscriptions = <<>> /\ stored = <<>>
  /\ announcing = [h \in Handlers |-> 0]
  /\ heard = [s \in Streams |-> <<>>]
  /\ since = [s \in Streams |-> 0]

-----------------------------------------------------------------------------
\* start: the socket listens before running_ is set and the thread begins.
start ==
  /\ ~serving /\ stopper = "idle"
  /\ serving' = TRUE /\ listening' = TRUE /\ acceptor' = "accepting"
  /\ UNCHANGED <<conn, threads, stopper>>

\* A client connects: the kernel queues the connection.  (A name is free again
\* when its thread has been joined: client_threads_ grows until stop.)
Connect(x) ==
  /\ listening /\ conn[x] \in {"none", "closed"} /\ x \notin threads
  /\ conn' = [conn EXCEPT ![x] = "queued"]
  /\ UNCHANGED <<serving, listening, acceptor, threads, stopper>>

\* run: accept returns a connection, or fails once the socket is closed.
Accept(x) ==
  /\ acceptor = "accepting" /\ listening /\ conn[x] = "queued"
  /\ acceptor' = x
  /\ conn' = [conn EXCEPT ![x] = "accepted"]
  /\ UNCHANGED <<serving, listening, threads, stopper>>

AcceptFails ==
  /\ acceptor = "accepting" /\ ~listening
  /\ acceptor' = "ended"
  /\ UNCHANGED <<serving, listening, conn, threads, stopper>>

\* run: the thread of the connection is started, under clients_mutex_.
Spawn ==
  /\ acceptor \in Connections
  /\ conn' = [conn EXCEPT ![acceptor] = "looping"]
  /\ threads' = threads \cup {acceptor}
  /\ acceptor' = IF serving THEN "accepting" ELSE "ended"
  /\ UNCHANGED <<serving, listening, stopper>>

\* handle_client: the loop is entered while running_ holds.
Loop(x) ==
  /\ conn[x] = "looping"
  /\ conn' = [conn EXCEPT ![x] = IF serving THEN "receiving" ELSE "closed"]
  /\ UNCHANGED <<serving, listening, acceptor, threads, stopper>>

\* handle_client: recv returns a request, or the client is gone or wrong.
Receive(x) ==
  /\ conn[x] = "receiving"
  /\ \E next \in {"requested", "closed"} : conn' = [conn EXCEPT ![x] = next]
  /\ UNCHANGED <<serving, listening, acceptor, threads, stopper>>

\* process_request on the KVDB and the answer, which may fail.
process_request(x) ==
  /\ conn[x] = "requested"
  /\ \E next \in {"looping", "closed"} : conn' = [conn EXCEPT ![x] = next]
  /\ UNCHANGED <<serving, listening, acceptor, threads, stopper>>

\* stop: running_ is cleared, the socket is closed, which resets what is queued,
\* the accept thread is joined, and then every client thread.
StopRequested ==
  /\ serving
  /\ serving' = FALSE /\ stopper' = "closing"
  /\ UNCHANGED <<listening, acceptor, conn, threads>>

CloseSocket ==
  /\ stopper = "closing"
  /\ listening' = FALSE /\ stopper' = "joinAcceptor"
  /\ conn' = [x \in Connections |-> IF conn[x] = "queued" THEN "closed" ELSE conn[x]]
  /\ UNCHANGED <<serving, acceptor, threads>>

\* stop without joining the accept thread.
JoinAcceptorNoWait ==
  /\ stopper = "joinAcceptor"
  /\ stopper' = "joinClients"
  /\ UNCHANGED <<serving, listening, acceptor, conn, threads>>

JoinAcceptor ==
  /\ stopper = "joinAcceptor" /\ acceptor = "ended"
  /\ acceptor' = "off" /\ stopper' = "joinClients"
  /\ UNCHANGED <<serving, listening, conn, threads>>

JoinClients ==
  /\ stopper = "joinClients" /\ \A x \in threads : conn[x] = "closed"
  /\ threads' = {} /\ stopper' = "idle"
  /\ UNCHANGED <<serving, listening, acceptor, conn>>

\* What runs by itself: the server's threads and stop, clients apart.
ServerThread ==
  \/ AcceptFails \/ Spawn \/ CloseSocket \/ JoinAcceptor \/ JoinClients
  \/ \E x \in Connections : Accept(x) \/ Loop(x) \/ process_request(x)

TcpThread == ServerThread /\ UNCHANGED grpcVars

TcpNext ==
  /\ \/ start \/ StopRequested \/ ServerThread
     \/ \E x \in Connections : Connect(x) \/ Receive(x)
  /\ UNCHANGED grpcVars

-----------------------------------------------------------------------------
\* Subscribe: the stream is registered; its thread stays in the call.
Subscribe(s) ==
  /\ handler[s] = "none"
  /\ handler' = [handler EXCEPT ![s] = "open"]
  /\ subscriptions' = Append(subscriptions, s)
  /\ since' = [since EXCEPT ![s] = Len(stored)]
  /\ UNCHANGED <<cancelled, inactive, stored, announcing, heard>>

\* The client of the stream goes away.
Cancel(s) ==
  /\ handler[s] = "open" /\ s \notin cancelled
  /\ cancelled' = cancelled \cup {s}
  /\ UNCHANGED <<handler, inactive, subscriptions, stored, announcing, heard, since>>

\* Subscribe sees it, within 100 ms, and takes the subscription off the list.
LeaveLoop(s) ==
  /\ handler[s] = "open" /\ s \in cancelled \cup inactive
  /\ handler' = [handler EXCEPT ![s] = "leaving"]
  /\ UNCHANGED <<cancelled, inactive, subscriptions, stored, announcing, heard, since>>

Unregister(s) ==
  /\ handler[s] = "leaving"
  /\ handler' = [handler EXCEPT ![s] = "returned"]
  /\ subscriptions' = SelectSeq(subscriptions, LAMBDA x : x # s)
  /\ UNCHANGED <<cancelled, inactive, stored, announcing, heard, since>>

\* Put, Delete, a turn of BatchPut: the write to the KVDB.
Write(h) ==
  /\ announcing[h] = 0 /\ Len(stored) < MaxWrites
  /\ \E op \in {"PUT", "DELETE"} : stored' = Append(stored, op)
  /\ announcing' = [announcing EXCEPT ![h] = Len(stored) + 1]
  /\ UNCHANGED <<handler, cancelled, inactive, subscriptions, heard, since>>

\* include_deletes.
Wants(s, n) == s \notin PutsOnly \/ stored[n] # "DELETE"

\* notify_subscribers with an iterator that skips the one behind an erased one.
NotifySkipsAfterErase(h) ==
  LET n == announcing[h] IN
  /\ n > 0
  /\ \E failing \in SUBSET {s \in ToSet(subscriptions) \cap cancelled : Wants(s, n)} :
       /\ inactive' = inactive \cup failing
       /\ subscriptions' = SelectSeq(subscriptions, LAMBDA s : s \notin inactive \cup failing)
       /\ heard' = [s \in Streams |->
            IF \E i \in DOMAIN subscriptions :
                 /\ subscriptions[i] = s /\ s \notin cancelled \cup inactive /\ Wants(s, n)
                 /\ i > 1 => subscriptions[i - 1] \notin failing
              THEN Append(heard[s], n) ELSE heard[s]]
  /\ announcing' = [announcing EXCEPT ![h] = 0]
  /\ UNCHANGED <<handler, cancelled, stored, since>>

\* notify_subscribers: every subscription that wants the operation is written to;
\* the ones that fail (of a client that is gone) or are inactive are erased.
notify_subscribers(h) ==
  LET n == announcing[h] IN
  /\ n > 0
  /\ \E failing \in SUBSET {s \in ToSet(subscriptions) \cap cancelled : Wants(s, n)} :
       /\ inactive' = inactive \cup failing
       /\ subscriptions' = SelectSeq(subscriptions, LAMBDA s : s \notin inactive \cup failing)
       /\ heard' = [s \in Streams |->
            IF s \in ToSet(subscriptions) \ (cancelled \cup inactive) /\ Wants(s, n)
              THEN Append(heard[s], n) ELSE heard[s]]
  /\ announcing' = [announcing EXCEPT ![h] = 0]
  /\ UNCHANGED <<handler, cancelled, stored, since>>

StreamThread(s) == (LeaveLoop(s) \/ Unregister(s)) /\ UNCHANGED tcpVars

GrpcNext ==
  /\ \/ \E s \in Streams : Subscribe(s) \/ Cancel(s) \/ StreamThread(s)
     \/ \E h \in Handlers : Write(h) \/ notify_subscribers(h)
  /\ UNCHANGED tcpVars

-----------------------------------------------------------------------------
\* When stop has returned no thread of the TCP server is left: none can call the
\* KVDB, which the owner may now destroy (tcp_server.cpp stop, run, handle_client).
\* A connection that was accepted while stop ran is among the joined ones.
StoppedIsQuiet ==
  ~serving /\ stopper = "idle" =>
    /\ acceptor = "off"
    /\ \A x \in Connections : conn[x] \in {"none", "closed"}

\* The list holds no stream whose Subscribe call has returned, whose writer is gone
\* (grpc_server.cpp Subscribe), and a client that is there has heard of every
\* write made since it was registered, once its announcement is over, and once
\* only (notify_subscribers).  The order is that of the announcements.
StreamsHearAll ==
  /\ \A s \in ToSet(subscriptions) : handler[s] \in {"open", "leaving"}
  /\ \A s \in Streams : handler[s] = "open" /\ s \notin cancelled =>
       \A n \in (since[s] + 1)..Len(stored) :
         Cardinality({i \in DOMAIN heard[s] : heard[s][i] = n}) =
           IF Wants(s, n) /\ \A h \in Handlers : announcing[h] # n THEN 1 ELSE 0

\* stop is left waiting only for a client thread in recv: closing the socket wakes
\* the accept thread, and every other thread comes to the test of running_
\* (tcp_server.cpp stop, handle_client).  A client that stays connected and silent
\* does hold it up.
StopReturns == []<>(stopper = "idle" \/ \E x \in Connections : conn[x] = "receiving")

\* The calls of the streams whose clients are gone return (grpc_server.cpp Subscribe).
CancelledReturns == []<>(\A s \in cancelled : handler[s] = "returned")
=============================================================================
