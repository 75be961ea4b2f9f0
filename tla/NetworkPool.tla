---------------------------- MODULE NetworkPool ----------------------------
(***************************************************************************)
(* The connections of the daemons and the game (network.cpp) and the pool  *)
(* of threads that sends and receives for them (network_worker.cpp).       *)
(*                                                                         *)
(* One main thread accepts, queues messages, takes received ones and       *)
(* closes; workers pick a connection that nobody has locked, send or       *)
(* receive one message, and report.  What is done under the shard's mutex  *)
(* is one action; a worker that sends or receives holds no mutex.  There   *)
(* is one shard (NUM_SHARDS is 1).                                         *)
(***************************************************************************)
EXTENDS Naturals, Sequences, SequencesExt, FiniteSetsExt, Lists

CONSTANTS
    Conns,      \* connections; handles are never used again
    Workers,    \* threads there may be at once: bounds the pool
    PoolSizes,  \* [min, max] the manager may be constructed with; max 0: no limit
    MaxSent,    \* messages queued per connection
    NoConn

ASSUME NetAssumption ==
    /\ IsFiniteSet(Workers)
    /\ NoConn \notin Conns
    /\ MaxSent \in Nat
    /\ PoolSizes \subseteq [min : Nat, max : Nat]

VARIABLES
    pool,       \* min_threads and max_threads
    managed,    \* the manager exists
    threads,    \* what each worker is at
    job,        \* the connection it has locked, the message it sends, and how it went
    state,      \* sockets_locked
    outgoing,   \* outgoing_bufs
    receives,   \* pending_receives
    received,   \* received_data_queue
    errors,     \* socket_errors
    open,       \* sockets, and their entries of connections
    closed,     \* connections that are gone
    waiting,    \* waiting_sockets: those the main thread polls
    bad,        \* bad_sockets
    queue,      \* disconnection_queue
    phase,      \* what the main thread is at
    sent,       \* messages queued so far
    delivered   \* messages written to the network so far

shardVars == <<threads, job, state, outgoing, receives, received, errors>>
mainVars == <<open, closed, waiting, bad, queue, phase>>
netVars == <<pool, managed, shardVars, mainVars, sent, delivered>>

Idle == [conn |-> NoConn, msg |-> 0, ok |-> TRUE]
Jobs == [conn : Conns \cup {NoConn}, msg : 0..MaxSent, ok : BOOLEAN]

Points == {"off", "loop", "wait", "woken", "send", "write", "recv", "push",
           "report", "zombie"}
Busy == {"send", "write", "recv", "push", "report"}

\* The messages to some connections.
MsgsTo(cs) == [conn : cs, msg : 1..MaxSent]

NetTypeOK ==
    /\ pool \in PoolSizes
    /\ managed \in BOOLEAN
    /\ threads \in [Workers -> Points]
    /\ job \in [Workers -> Jobs]
    /\ \A w \in Workers : threads[w] \in Busy <=> job[w].conn # NoConn
    /\ state \in [Conns -> {"absent", "ready", "locked", "errored", "interrupt"}]
    /\ outgoing \in Seq(MsgsTo(Conns))
    /\ receives \in Seq(Conns)
    /\ received \in Seq(Conns)
    /\ errors \in Nat
    /\ open \subseteq Conns
    /\ closed \subseteq Conns
    /\ waiting \subseteq Conns
    /\ bad \subseteq Conns
    /\ queue \in Seq(Conns)
    /\ phase \in {"run", "closing", "stopping", "joining", "down"}
    /\ sent \in [Conns -> 0..MaxSent]
    /\ delivered \in [Conns -> 0..MaxSent]

NetInit ==
    /\ pool \in PoolSizes
    /\ managed = TRUE
    /\ \E ws \in SUBSET Workers :
          /\ Cardinality(ws) = pool.min
          /\ threads = [w \in Workers |-> IF w \in ws THEN "loop" ELSE "off"]
    /\ job = [w \in Workers |-> Idle]
    /\ state = [c \in Conns |-> "absent"]
    /\ outgoing = <<>> /\ receives = <<>> /\ received = <<>>
    /\ errors = 0
    /\ open = {} /\ closed \in SUBSET Conns /\ waiting = {} /\ bad = {}
    /\ queue = <<>>
    /\ phase = "run"
    /\ sent \in [Conns -> 0..MaxSent]
    /\ delivered = sent

\* waiting_threads: counted up and down under the mutex around the wait.
WaitingThreads == {w \in Workers : threads[w] \in {"wait", "woken"}}

\* notify_one: one of the waiting threads, if there is one.
Notified(t) ==
    LET asleep == {w \in Workers : t[w] = "wait"}
    IN  IF asleep = {} THEN {t} ELSE {[t EXCEPT ![w] = "woken"] : w \in asleep}

\* Mutant of Announce: nobody is woken for a connection that is known.
AnnounceNew(c) ==
    /\ state' = [state EXCEPT ![c] = IF @ = "absent" THEN "ready" ELSE @]
    /\ IF state[c] = "absent" THEN threads' \in Notified(threads) ELSE UNCHANGED threads

\* A job for c is there for whoever finds c unlocked: queue_buffer and
\* receive_data make c's entry in sockets_locked and wake a waiting thread.
Announce(c) ==
    /\ state' = [state EXCEPT ![c] = IF @ = "absent" THEN "ready" ELSE @]
    /\ IF state'[c] \in {"ready", "errored"}
          THEN threads' \in Notified(threads)
          ELSE UNCHANGED threads

NotConn(q, c) == Those(q, Conns \ {c})
NotMsgs(q, c) == Those(q, MsgsTo(Conns \ {c}))

\* Mutant of RemoveBuffers: what was received of c is still returned.
RemoveOutgoing(c) ==
    /\ outgoing' = NotMsgs(outgoing, c)
    /\ UNCHANGED received

\* remove_buffers
RemoveBuffers(c) ==
    /\ outgoing' = NotMsgs(outgoing, c)
    /\ received' = NotConn(received, c)

----------------------------------------------------------------------------
(* The main thread: network.cpp. *)

Accept(c) ==
    /\ phase = "run"
    /\ c \in Conns \ (open \cup closed)
    /\ open' = open \cup {c}
    /\ waiting' = waiting \cup {c}
    /\ UNCHANGED <<pool, managed, shardVars, closed, bad, queue, phase, sent, delivered>>

\* send_data, send_raw_data and send_file: a message is queued.
Send(c) ==
    /\ phase = "run"
    /\ c \in open \ bad
    /\ sent[c] < MaxSent
    /\ sent' = [sent EXCEPT ![c] = @ + 1]
    /\ outgoing' = Append(outgoing, [conn |-> c, msg |-> sent[c] + 1])
    /\ Announce(c)
    /\ UNCHANGED <<pool, managed, job, receives, received, errors, mainVars, delivered>>

\* Mutant of StartReceive: the socket is polled meanwhile.
StartReceivePolling(c) ==
    /\ phase = "run" /\ queue = <<>>
    /\ c \in waiting
    /\ receives' = Append(receives, c)
    /\ Announce(c)
    /\ UNCHANGED <<pool, managed, job, outgoing, received, errors, mainVars, sent, delivered>>

\* receive_data finds that c's socket has something to read.
StartReceive(c) ==
    /\ phase = "run" /\ queue = <<>>
    /\ c \in waiting
    /\ waiting' = waiting \ {c}
    /\ receives' = Append(receives, c)
    /\ Announce(c)
    /\ UNCHANGED <<pool, managed, job, outgoing, received, errors,
                   open, closed, bad, queue, phase, sent, delivered>>

\* receive_data returns a message to the program, and polls its sender again.
TakeReceived ==
    /\ phase = "run" /\ queue = <<>>
    /\ received # <<>>
    /\ received' = Tail(received)
    /\ waiting' = waiting \cup {Head(received)}
    /\ UNCHANGED <<pool, managed, threads, job, state, outgoing, receives, errors,
                   open, closed, bad, queue, phase, sent, delivered>>

\* The program gives up a connection: queue_disconnect.  It does not know the
\* ones whose disconnection was begun.
QueueDisconnect(c) ==
    /\ phase = "run"
    /\ c \in open \ bad
    /\ ~ Contains(queue, c)
    /\ queue' = Append(queue, c)
    /\ UNCHANGED <<pool, managed, shardVars, open, closed, waiting, bad, phase,
                   sent, delivered>>

\* What disconnect does once close_socket has closed c.
Forget(c, q) ==
    /\ open' = open \ {c}
    /\ closed' = closed \cup {c}
    /\ waiting' = waiting \ {c}
    /\ bad' = bad \ {c}
    /\ queue' = RemoveFirst(q, c)

\* Mutant of Disconnect: a second one closes a socket in use.
DisconnectTwice(c, q, badly) ==
    /\ receives' = NotConn(receives, c)
    /\ IF state[c] = "locked"
          THEN /\ state' = [state EXCEPT ![c] = "interrupt"]
               /\ bad' = IF badly THEN bad \cup {c} ELSE bad
               /\ queue' = q
               /\ UNCHANGED <<outgoing, received, open, closed, waiting>>
          ELSE /\ state' = [state EXCEPT ![c] = "absent"]
               /\ RemoveBuffers(c)
               /\ Forget(c, q)

\* disconnect of c, with q for the queue: close_socket, and the rest if it
\* returned true.  badly: an exception has put c among the bad sockets.
Disconnect(c, q, badly) ==
    /\ receives' = NotConn(receives, c)
    /\ IF state[c] \in {"locked", "interrupt"}
          THEN /\ state' = [state EXCEPT ![c] = "interrupt"]
               /\ bad' = IF badly THEN bad \cup {c} ELSE bad
               /\ queue' = q
               /\ UNCHANGED <<outgoing, received, open, closed, waiting>>
          ELSE /\ state' = [state EXCEPT ![c] = "absent"]
               /\ RemoveBuffers(c)
               /\ Forget(c, q)

\* receive_data throws for the first queued connection, and its handler calls
\* the exception's disconnect().
DisconnectQueued ==
    /\ phase = "run"
    /\ queue # <<>>
    /\ Disconnect(Head(queue), Tail(queue), TRUE)
    /\ UNCHANGED <<pool, managed, threads, job, errors, phase, sent, delivered>>

\* The program disconnects at once, as the game server does with a banned
\* address it has just accepted.
Reject(c) ==
    /\ phase = "run"
    /\ c \in open \ bad
    /\ Disconnect(c, queue, FALSE)
    /\ UNCHANGED <<pool, managed, threads, job, errors, phase, sent, delivered>>

\* Mutant of DetectError: the socket is taken out, the connection is not.
DetectErrorOfSocket(c) ==
    /\ phase = "run"
    /\ errors > 0
    /\ state[c] = "errored"
    /\ errors' = errors - 1
    /\ state' = [state EXCEPT ![c] = "absent"]
    /\ receives' = NotConn(receives, c)
    /\ RemoveBuffers(c)
    /\ waiting' = waiting \ {c}
    /\ bad' = bad \cup {c}
    /\ UNCHANGED <<pool, managed, threads, job, open, closed, queue, phase, sent, delivered>>

\* check_error, on every poll: an errored socket is taken out and its
\* connection disconnected by the handler of the exception.
DetectError(c) ==
    /\ phase = "run"
    /\ errors > 0
    /\ state[c] = "errored"
    /\ errors' = errors - 1
    /\ state' = [state EXCEPT ![c] = "absent"]
    /\ receives' = NotConn(receives, c)
    /\ RemoveBuffers(c)
    /\ Forget(c, queue)
    /\ UNCHANGED <<pool, managed, threads, job, phase, sent, delivered>>

\* detect_error finds none and starts counting again.
DetectNone ==
    /\ phase = "run"
    /\ errors > 0
    /\ \A c \in Conns : state[c] # "errored"
    /\ errors' = 0
    /\ UNCHANGED <<pool, managed, threads, job, state, outgoing, receives, received,
                   mainVars, sent, delivered>>

\* The manager is destroyed: disconnect() closes every connection, the last
\* first, trying again until close_socket succeeds.
Shutdown ==
    /\ phase = "run"
    /\ phase' = "closing"
    /\ UNCHANGED <<pool, managed, shardVars, open, closed, waiting, bad, queue,
                   sent, delivered>>

CloseConnection(c) ==
    /\ phase = "closing"
    /\ c \in open
    /\ Disconnect(c, queue, FALSE)
    /\ UNCHANGED <<pool, managed, threads, job, errors, phase, sent, delivered>>

StopManaging ==
    /\ phase = "closing"
    /\ open = {}
    /\ managed' = FALSE
    /\ phase' = "stopping"
    /\ UNCHANGED <<pool, shardVars, open, closed, waiting, bad, queue, sent, delivered>>

\* Mutant of NotifyAll: the threads are left to find out.
NotifyNobody ==
    /\ phase = "stopping"
    /\ errors' = 0
    /\ phase' = "joining"
    /\ UNCHANGED <<pool, managed, threads, job, state, outgoing, receives, received,
                   open, closed, waiting, bad, queue, sent, delivered>>

NotifyAll ==
    /\ phase = "stopping"
    /\ errors' = 0
    /\ threads' = [w \in Workers |-> IF threads[w] = "wait" THEN "woken" ELSE threads[w]]
    /\ phase' = "joining"
    /\ UNCHANGED <<pool, managed, job, state, outgoing, receives, received,
                   open, closed, waiting, bad, queue, sent, delivered>>

JoinAll ==
    /\ phase = "joining"
    /\ \A w \in Workers : threads[w] \in {"off", "zombie"}
    /\ threads' = [w \in Workers |-> "off"]
    /\ phase' = "down"
    /\ UNCHANGED <<pool, managed, job, state, outgoing, receives, received, errors,
                   open, closed, waiting, bad, queue, sent, delivered>>

----------------------------------------------------------------------------
(* The workers: process_queue. *)

\* The threads after w has joined those that exited.
Cleared ==
    [v \in Workers |-> IF managed /\ threads[v] = "zombie" THEN "off" ELSE threads[v]]

\* w waits no longer; if nobody else waits either a thread is added, within
\* max_threads and within Workers.
Leaving(t, w, point) ==
    LET u == [t EXCEPT ![w] = point]
        off == {v \in Workers : t[v] = "off"}
        alone == \A v \in Workers \ {w} : t[v] \notin {"wait", "woken"}
        room == pool.max = 0 \/ Cardinality(Workers \ off) < pool.max
    IN  IF alone /\ managed /\ room /\ off # {}
           THEN {[u EXCEPT ![v] = "loop"] : v \in off}
           ELSE {u}

\* Mutant of NextMsg: any message of an unlocked connection.
NextMsgOfAny(i) ==
    /\ i \in DOMAIN outgoing
    /\ state[outgoing[i].conn] = "ready"

\* The first message, in the order of the queue, whose connection is unlocked.
NextMsg(i) ==
    /\ i \in DOMAIN outgoing
    /\ state[outgoing[i].conn] = "ready"
    /\ \A k \in 1..(i - 1) : state[outgoing[k].conn] # "ready"

NextReceive(i) ==
    /\ \A k \in DOMAIN outgoing : state[outgoing[k].conn] # "ready"
    /\ i \in DOMAIN receives
    /\ state[receives[i]] = "ready"
    /\ \A k \in 1..(i - 1) : state[receives[k]] # "ready"

NoJob ==
    /\ \A k \in DOMAIN outgoing : state[outgoing[k].conn] # "ready"
    /\ \A k \in DOMAIN receives : state[receives[k]] # "ready"

\* Enough threads wait already for w to wait too.
Superfluous == pool.min > 0 /\ Cardinality(WaitingThreads) >= pool.min

\* w is in the loop that looks for a job: t are the threads when it gets there.
Looking(w, t) ==
    \/ /\ threads[w] = "loop" /\ ~ Superfluous
       /\ t = Cleared
    \/ /\ threads[w] = "woken"
       /\ t = threads

PickMsg(w, c) ==
    \E i \in DOMAIN outgoing, t \in {Cleared, threads} :
        /\ Looking(w, t)
        /\ outgoing[i].conn = c
        /\ NextMsg(i)
        /\ state' = [state EXCEPT ![c] = "locked"]
        /\ job' = [job EXCEPT ![w] = [conn |-> c, msg |-> outgoing[i].msg, ok |-> TRUE]]
        /\ outgoing' = RemoveAt(outgoing, i)
        /\ threads' \in Leaving(t, w, "send")
        /\ UNCHANGED <<pool, managed, receives, received, errors, mainVars, sent, delivered>>

PickReceive(w, c) ==
    \E i \in DOMAIN receives, t \in {Cleared, threads} :
        /\ Looking(w, t)
        /\ receives[i] = c
        /\ NextReceive(i)
        /\ state' = [state EXCEPT ![c] = "locked"]
        /\ job' = [job EXCEPT ![w] = [conn |-> c, msg |-> 0, ok |-> TRUE]]
        /\ receives' = RemoveAt(receives, i)
        /\ threads' \in Leaving(t, w, "recv")
        /\ UNCHANGED <<pool, managed, outgoing, received, errors, mainVars, sent, delivered>>

\* Nothing to do: wait for a notification, or exit when the manager is gone.
Rest(w) ==
    /\ \E t \in {Cleared, threads} :
          /\ Looking(w, t)
          /\ threads' = [t EXCEPT ![w] = IF managed THEN "wait" ELSE "zombie"]
    /\ NoJob
    /\ UNCHANGED <<pool, managed, job, state, outgoing, receives, received, errors,
                   mainVars, sent, delivered>>

\* A thread that comes back when enough others wait exits without looking.
Exit(w) ==
    /\ threads[w] = "loop" /\ Superfluous
    /\ threads' = [Cleared EXCEPT ![w] = "zombie"]
    /\ UNCHANGED <<pool, managed, job, state, outgoing, receives, received, errors,
                   mainVars, sent, delivered>>

\* w goes on to point, or to report what it has, ok or not.
GoOn(w, point) ==
    /\ threads' = [threads EXCEPT ![w] = point]
    /\ UNCHANGED job

Finish(w, ok) ==
    /\ threads' = [threads EXCEPT ![w] = "report"]
    /\ job' = [job EXCEPT ![w].ok = ok]

\* send_buffer: the lock is looked at before each piece; all pieces are one here.
CheckLock(w) ==
    /\ threads[w] = "send"
    /\ IF state[job[w].conn] = "locked" THEN GoOn(w, "write") ELSE Finish(w, FALSE)
    /\ UNCHANGED <<pool, managed, state, outgoing, receives, received, errors,
                   mainVars, sent, delivered>>

Write(w) ==
    /\ threads[w] = "write"
    /\ \/ /\ delivered' = [delivered EXCEPT ![job[w].conn] = job[w].msg]
          /\ Finish(w, TRUE)
       \/ /\ Finish(w, FALSE)
          /\ UNCHANGED delivered
    /\ UNCHANGED <<pool, managed, state, outgoing, receives, received, errors,
                   mainVars, sent>>

\* receive_buf: a message arrives whole and the lock still stands; or the peer
\* is gone, is too slow, or the receive is interrupted.
Receive(w) ==
    /\ threads[w] = "recv"
    /\ \/ /\ state[job[w].conn] # "interrupt"
          /\ GoOn(w, "push")
       \/ Finish(w, FALSE)
    /\ UNCHANGED <<pool, managed, state, outgoing, receives, received, errors,
                   mainVars, sent, delivered>>

\* The message is handed to the main thread before the lock is given back.
Push(w) ==
    /\ threads[w] = "push"
    /\ received' = Append(received, job[w].conn)
    /\ Finish(w, TRUE)
    /\ UNCHANGED <<pool, managed, state, outgoing, receives, errors,
                   mainVars, sent, delivered>>

\* check_socket_result
Report(w) ==
    /\ threads[w] = "report"
    /\ state' = [state EXCEPT ![job[w].conn] = IF job[w].ok THEN "ready" ELSE "errored"]
    /\ errors' = IF job[w].ok THEN errors ELSE errors + 1
    /\ threads' = [threads EXCEPT ![w] = "loop"]
    /\ job' = [job EXCEPT ![w] = Idle]
    /\ UNCHANGED <<pool, managed, outgoing, receives, received, mainVars, sent, delivered>>

----------------------------------------------------------------------------
Worker(w) ==
    \/ \E c \in Conns : PickMsg(w, c) \/ PickReceive(w, c)
    \/ Rest(w) \/ Exit(w)
    \/ CheckLock(w) \/ Write(w) \/ Receive(w) \/ Push(w) \/ Report(w)

Poll == TakeReceived \/ DisconnectQueued \/ DetectNone \/ \E c \in Conns : DetectError(c)

Stop == \/ \E c \in Conns : CloseConnection(c)
        \/ StopManaging \/ NotifyAll \/ JoinAll

NetNext ==
    \/ \E c \in Conns : \/ Accept(c) \/ Send(c) \/ StartReceive(c)
                        \/ QueueDisconnect(c) \/ Reject(c)
    \/ Poll
    \/ Shutdown \/ Stop
    \/ \E w \in Workers : Worker(w)

\* Threads run, operations on sockets end (every wait has a timeout), and the
\* program's loop polls for errors and messages; nothing else need happen.
NetFairness ==
    /\ \A w \in Workers : WF_netVars(Worker(w))
    /\ WF_netVars(TakeReceived)
    /\ WF_netVars(DisconnectQueued)
    /\ \A c \in Conns : WF_netVars(DetectError(c))
    /\ WF_netVars(Stop)

NetSpec == NetInit /\ [][NetNext]_netVars /\ NetFairness

----------------------------------------------------------------------------
\* A socket is never used by two threads, and none is using, or will find in a
\* queue, the socket of a connection that was closed and freed; what is queued
\* to be sent or received has its entry among the sockets, as process_queue
\* asserts (network.cpp:642, network_worker.cpp:692, 706, 1079).
SocketsHeldOnce ==
    /\ \A w \in Workers : threads[w] \in Busy =>
          /\ job[w].conn \in open
          /\ state[job[w].conn] \in {"locked", "interrupt"}
          /\ \A v \in Workers \ {w} : threads[v] \in Busy => job[v].conn # job[w].conn
    /\ \A i \in DOMAIN outgoing : outgoing[i].conn \in {c \in open : state[c] # "absent"}
    /\ \A i \in DOMAIN receives : receives[i] \in {c \in open : state[c] # "absent"}
    /\ \A i \in DOMAIN received : received[i] \in open

\* Messages leave in the order they were queued: what is waiting for a
\* connection is what follows the one in hand or written last, with no gap,
\* as long as nothing has failed.
MessagesInOrder ==
    \A c \in Conns : state[c] \in {"ready", "locked", "interrupt"} =>
        LET q == Those(outgoing, MsgsTo({c}))
        IN  /\ \A i \in DOMAIN q : q[i].msg = sent[c] - Len(q) + i
            /\ (\A w \in Workers : job[w].conn # c) => delivered[c] = sent[c] - Len(q)

\* One receive at a time: a connection is polled, queued for a receive, being
\* received from, or its message waits to be taken (network.cpp:727, 778).
OneReceive ==
    \A c \in Conns :
        LET hands == {w \in Workers : job[w].conn = c /\ threads[w] \in {"recv", "push"}}
            n(q) == Len(Those(q, {c}))
        IN  (IF c \in waiting THEN 1 ELSE 0) + n(receives) + Cardinality(hands)
              + n(received) <= 1

\* Where each connection is, for Link.
PlaceOf(c) == IF c \in open THEN "open" ELSE IF c \in closed THEN "gone" ELSE "new"

Promised == INSTANCE Link WITH place <- [c \in Conns |-> PlaceOf(c)], written <- delivered,
                               inbox <- [c \in Conns |-> Len(Those(received, {c}))]

\* Each connection does as the link promises, step by step: also one that fails, or
\* is given up while a worker has it, skips and repeats nothing, and no message of
\* one that is closed leaves or is returned (network_worker.cpp:671, network.cpp:778).
LinkSpec == Promised!LinkSpec

\* A pool of a fixed size, as the game's, sends every message, or its connection
\* fails or is closed.
FixedPoolSends ==
    \A c \in Conns : (pool.min = pool.max /\ delivered[c] < sent[c])
                         ~> (delivered[c] = sent[c] \/ c \in closed)

\* Destroying the manager ends: every thread is joined.
ShutdownEnds == (phase = "closing") ~> (phase = "down")

\* An error of a connection closes it.
ErrorsClose == \A c \in Conns : (state[c] = "errored") ~> (c \in closed)

\* "The socket will be closed when it has finished its send/receive"
\* (network.hpp:128).
DisconnectCloses == \A c \in Conns : (state[c] = "interrupt") ~> (c \in closed)
===========================================================================
