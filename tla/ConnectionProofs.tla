--------------------------- MODULE ConnectionProofs ---------------------------
(***************************************************************************)
(* Connections of the game and the daemons: that an operation in a thread  *)
(* leaves a connection exactly when its caller was told so, and stays as   *)
(* long as its thread uses it; that no socket is used by two threads or    *)
(* after it was closed, that messages leave in order, and that the pool is *)
(* a link for each connection.  For any number of operations, connections  *)
(* and threads.                                                            *)
(***************************************************************************)
EXTENDS NetworkPool, AsyncOperation, ListsProofs, FiniteSetTheorems

USE OpAssumption

\* Operations are executed in order, and have a result when that is over; one
\* that is still to be executed has no trace.
InOrder ==
    \A o \in Operations :
        /\ result[o] # "none" <=> o < next
        /\ runner[o] = "none" <=> (o > next \/ (o = next /\ caller = "idle"))

\* While the caller has the mutex of an operation it was not notified.
NotYet == caller = "process" => ~ finished[next]

\* What a thread leaves, it leaves when it is over, and only one thing.
ThreadLeaves ==
    \A o \in Operations :
        /\ (finished[o] \/ failed[o]) => runner[o] \in {"end", "gone"}
        /\ o \in linked => runner[o] \in {"end", "gone"} /\ finished[o] /\ ~ failed[o]
        /\ runner[o] \in {"end", "gone"} => failed[o] \/ aborted[o] \/ o \in linked

\* What the caller was told is so.
CallerTold ==
    \A o \in Operations :
        /\ aborted[o] <=> result[o] = "aborted"
        /\ aborted[o] => o \notin linked
        /\ result[o] = "failed" => failed[o]
        /\ result[o] = "connected" => o \in linked

\* The list of operations holds those whose thread is not over.
AllKept ==
    \A o \in Operations : runner[o] \notin {"none", "gone"} => Contains(active, o)

OpIInv == OpTypeOK /\ InOrder /\ NotYet /\ ThreadLeaves /\ CallerTold /\ AllKept

LEMMA InitOpIInv == OpInit => OpIInv
<1> SUFFICES ASSUME OpInit PROVE OpIInv
  OBVIOUS
<1>1. \A o \in Operations : o \in Nat /\ o >= 1
  BY DEF Operations
<1>2. OpTypeOK
  <2>1. next \in 1..(MaxOps + 1) /\ active \in Seq(Operations)
    BY DEF OpInit, OpAssumption
  <2> QED
    BY <2>1 DEF OpInit, OpTypeOK
<1>3. InOrder /\ NotYet
  BY <1>1 DEF OpInit, InOrder, NotYet
<1>4. ThreadLeaves /\ CallerTold /\ AllKept
  BY DEF OpInit, ThreadLeaves, CallerTold, AllKept
<1> QED
  BY <1>2, <1>3, <1>4 DEF OpIInv

-----------------------------------------------------------------------------
(* The list of operations *)

\* Dropping the oldest operations keeps every one whose thread is not over.
LEMMA KeptKeeps ==
    ASSUME active \in Seq(Operations)
    PROVE  /\ Kept \in Seq(Operations)
           /\ \A o \in Operations :
                Contains(active, o) /\ runner[o] # "gone" => Contains(Kept, o)
<1> DEFINE live == {i \in DOMAIN active : runner[active[i]] # "gone"}
           first == CHOOSE i \in live : \A k \in live : i <= k
<1>1. DOMAIN active = 1..Len(active) /\ Len(active) \in Nat
  OBVIOUS
<1>2. CASE live = {}
  <2>1. Kept = <<>>
    BY <1>2 DEF Kept
  <2>2. ASSUME NEW o \in Operations, Contains(active, o), runner[o] # "gone"
        PROVE  FALSE
    BY <1>1, <1>2, <2>2 DEF Contains
  <2> QED
    BY <2>1, <2>2
<1>3. CASE live # {}
  <2>1. Kept = SubSeq(active, first, Len(active))
    BY <1>3 DEF Kept
  <2>2. first \in live /\ \A k \in live : first <= k
    <3>1. live \subseteq Nat
      BY <1>1
    <3>2. \E i \in live : \A k \in live : i <= k
      BY <1>3, <3>1, LeastOf, Zenon
    <3> QED
      BY <3>2, Zenon
  <2> HIDE DEF first
  <2>3. first \in 1..Len(active)
    BY <1>1, <2>2
  <2>4. \A i \in first..Len(active) : active[i] \in Operations
    BY <1>1, <2>3
  <2>5. /\ Kept \in Seq(Operations)
        /\ Len(Kept) = Len(active) - first + 1
        /\ \A i \in 1..(Len(active) - first + 1) : Kept[i] = active[first + i - 1]
    BY <1>1, <2>1, <2>3, <2>4, SubSeqProperties
  <2>6. ASSUME NEW o \in Operations, Contains(active, o), runner[o] # "gone"
        PROVE  Contains(Kept, o)
    <3>1. PICK i \in 1..Len(active) : active[i] = o
      BY <2>6 DEF Contains
    <3>2. i \in live
      BY <1>1, <2>6, <3>1
    <3>3. first <= i
      BY <2>2, <3>2
    <3>4. i - first + 1 \in 1..(Len(active) - first + 1) /\ first + (i - first + 1) - 1 = i
      BY <1>1, <2>3, <3>1, <3>3
    <3>5. Kept[i - first + 1] = o
      BY <2>5, <3>1, <3>4
    <3> QED
      BY <2>5, <3>4, <3>5 DEF Contains
  <2> QED
    BY <2>5, <2>6
<1> QED
  BY <1>2, <1>3

\* Appending an operation keeps the others.
LEMMA AppendKeeps ==
    ASSUME NEW s \in Seq(Operations), NEW e \in Operations
    PROVE  /\ Append(s, e) \in Seq(Operations)
           /\ Contains(Append(s, e), e)
           /\ \A o \in Operations : Contains(s, o) => Contains(Append(s, e), o)
BY AppendProperties, LenProperties DEF Contains

-----------------------------------------------------------------------------
(* The caller *)

LEMMA ExecuteKeeps == OpIInv /\ Execute => OpIInv'
<1> SUFFICES ASSUME OpIInv, Execute PROVE OpIInv'
  OBVIOUS
<1>1. next \in Operations
  BY DEF OpIInv, OpTypeOK, Execute, Operations
<1>2. OpTypeOK'
  BY <1>1, KeptKeeps, AppendKeeps DEF OpIInv, OpTypeOK, Execute
<1>3. InOrder' /\ NotYet' /\ ThreadLeaves' /\ CallerTold'
  BY <1>1 DEF OpIInv, OpTypeOK, Execute, InOrder, NotYet, ThreadLeaves, CallerTold, Operations
<1>4. AllKept'
  <2> SUFFICES ASSUME NEW o \in Operations, runner'[o] \notin {"none", "gone"}
               PROVE  Contains(active', o)
    BY DEF AllKept
  <2>1. active \in Seq(Operations) /\ active' = Append(Kept, next)
    BY DEF OpIInv, OpTypeOK, Execute
  <2>2. CASE o = next
    BY <1>1, <2>1, <2>2, KeptKeeps, AppendKeeps
  <2>3. CASE o # next
    <3>1. runner[o] \notin {"none", "gone"}
      BY <2>3 DEF OpIInv, OpTypeOK, Execute
    <3>2. Contains(Kept, o)
      BY <2>1, <3>1, KeptKeeps DEF OpIInv, AllKept
    <3> QED
      BY <1>1, <2>1, <3>2, KeptKeeps, AppendKeeps
  <2> QED
    BY <2>2, <2>3
<1> QED
  BY <1>2, <1>3, <1>4 DEF OpIInv

LEMMA CallerKeeps == OpIInv /\ (KeepWaiting \/ Abort \/ Wake) => OpIInv'
<1> SUFFICES ASSUME OpIInv, KeepWaiting \/ Abort \/ Wake PROVE OpIInv'
  OBVIOUS
<1>1. caller # "idle" /\ next \in Operations
  BY DEF OpIInv, OpTypeOK, KeepWaiting, Abort, Wake
<1>2. AllKept'
  BY DEF OpIInv, AllKept, KeepWaiting, Abort, Wake, Returned
<1>3. CASE KeepWaiting
  BY <1>1, <1>2, <1>3 DEF OpIInv, OpTypeOK, KeepWaiting, InOrder, NotYet, ThreadLeaves, CallerTold
<1>4. CASE Abort
  <2>1. next \notin linked
    BY <1>1, <1>4 DEF OpIInv, Abort, NotYet, ThreadLeaves
  <2> QED
    BY <1>1, <1>2, <1>4, <2>1 DEF OpIInv, OpTypeOK, Abort, Returned, InOrder, NotYet,
       ThreadLeaves, CallerTold, Operations
<1>5. CASE Wake
  <2>1. CASE finished[next]
    <3>1. failed[next] \/ next \in linked
      BY <1>1, <2>1 DEF OpIInv, ThreadLeaves, CallerTold, InOrder, OpTypeOK
    <3>2. /\ result' = [result EXCEPT ![next] = IF failed[next] THEN "failed" ELSE "connected"]
          /\ caller' = "idle" /\ next' = next + 1
      BY <1>5, <2>1 DEF Wake, Returned
    <3>3. UNCHANGED <<runner, aborted, finished, failed, active, linked, wild>>
      BY <1>5 DEF Wake
    <3>4. next \in 1..MaxOps /\ next' \in 1..(MaxOps + 1)
      BY <1>1, <3>2 DEF Operations, OpAssumption
    <3>5. OpTypeOK'
      BY <1>1, <3>2, <3>3, <3>4 DEF OpIInv, OpTypeOK
    <3>6. InOrder'
      BY <1>1, <3>2, <3>3, <3>4 DEF OpIInv, OpTypeOK, InOrder, Operations
    <3>7. NotYet' /\ ThreadLeaves'
      BY <3>2, <3>3 DEF OpIInv, NotYet, ThreadLeaves
    <3>8. result[next] = "none"
      BY <1>1, <3>4 DEF OpIInv, InOrder
    <3>9. CallerTold'
      BY <1>1, <3>1, <3>2, <3>3, <3>8 DEF OpIInv, OpTypeOK, CallerTold
    <3> QED
      BY <1>2, <3>5, <3>6, <3>7, <3>9 DEF OpIInv
  <2>2. CASE ~ finished[next]
    BY <1>1, <1>2, <1>5, <2>2 DEF OpIInv, OpTypeOK, Wake, InOrder, NotYet,
       ThreadLeaves, CallerTold
  <2> QED
    BY <2>1, <2>2
<1> QED
  BY <1>3, <1>4, <1>5

-----------------------------------------------------------------------------
(* The threads *)

LEMMA RunnerKeeps == ASSUME NEW t \in Operations
                     PROVE  OpIInv /\ Runner(t) => OpIInv'
<1> SUFFICES ASSUME OpIInv, Runner(t) PROVE OpIInv'
  OBVIOUS
<1>1. runner[t] \notin {"none", "gone"} /\ runner'[t] # "none"
  BY DEF OpIInv, OpTypeOK, Runner, CopyPointer, OpenSocket, AddConnection, EndThread, Goes
<1>2. AllKept'
  BY <1>1 DEF OpIInv, OpTypeOK, AllKept, Runner, CopyPointer, OpenSocket, AddConnection,
              EndThread, Goes
<1>3. InOrder'
  BY <1>1 DEF OpIInv, OpTypeOK, InOrder, Runner, CopyPointer, OpenSocket, AddConnection,
              EndThread, Goes
<1>4. CASE CopyPointer(t)
  <2>1. OpTypeOK'
    BY <1>4 DEF OpIInv, OpTypeOK, CopyPointer, Goes
  <2>2. NotYet'
    BY <1>4 DEF OpIInv, OpTypeOK, CopyPointer, Goes, NotYet
  <2>3. ThreadLeaves'
    BY <1>4 DEF OpIInv, OpTypeOK, CopyPointer, Goes, ThreadLeaves, CallerTold
  <2>4. CallerTold'
    BY <1>4 DEF OpIInv, OpTypeOK, CopyPointer, Goes, ThreadLeaves, CallerTold
  <2> QED
    BY <1>2, <1>3, <2>1, <2>2, <2>3, <2>4 DEF OpIInv
<1>5. CASE OpenSocket(t)
  <2>1. OpTypeOK'
    BY <1>5 DEF OpIInv, OpTypeOK, OpenSocket, Goes
  <2>2. NotYet'
    BY <1>5 DEF OpIInv, OpTypeOK, OpenSocket, Goes, NotYet
  <2>3. ThreadLeaves'
    BY <1>5 DEF OpIInv, OpTypeOK, OpenSocket, Goes, ThreadLeaves, CallerTold
  <2>4. CallerTold'
    BY <1>5 DEF OpIInv, OpTypeOK, OpenSocket, Goes, ThreadLeaves, CallerTold
  <2> QED
    BY <1>2, <1>3, <2>1, <2>2, <2>3, <2>4 DEF OpIInv
<1>6. CASE AddConnection(t)
  <2>1. OpTypeOK'
    BY <1>6 DEF OpIInv, OpTypeOK, AddConnection, Goes
  <2>2. NotYet'
    BY <1>6 DEF OpIInv, OpTypeOK, AddConnection, Goes, Free, NotYet
  <2>3. ThreadLeaves'
    BY <1>6 DEF OpIInv, OpTypeOK, AddConnection, Goes, ThreadLeaves, CallerTold
  <2>4. CallerTold'
    BY <1>6 DEF OpIInv, OpTypeOK, AddConnection, Goes, ThreadLeaves, CallerTold
  <2> QED
    BY <1>2, <1>3, <2>1, <2>2, <2>3, <2>4 DEF OpIInv
<1>7. CASE EndThread(t)
  <2>1. OpTypeOK'
    BY <1>7 DEF OpIInv, OpTypeOK, EndThread, Goes
  <2>2. NotYet'
    BY <1>7 DEF OpIInv, OpTypeOK, EndThread, Goes, Free, NotYet
  <2>3. ThreadLeaves'
    BY <1>7 DEF OpIInv, OpTypeOK, EndThread, Goes, ThreadLeaves, CallerTold
  <2>4. CallerTold'
    BY <1>7 DEF OpIInv, OpTypeOK, EndThread, Goes, ThreadLeaves, CallerTold
  <2> QED
    BY <1>2, <1>3, <2>1, <2>2, <2>3, <2>4 DEF OpIInv
<1> QED
  BY <1>4, <1>5, <1>6, <1>7 DEF Runner

-----------------------------------------------------------------------------

LEMMA NextOpIInv == OpIInv /\ [OpNext]_opVars => OpIInv'
<1> SUFFICES ASSUME OpIInv, [OpNext]_opVars PROVE OpIInv'
  OBVIOUS
<1>1. CASE UNCHANGED opVars
  BY <1>1 DEF opVars, OpIInv, OpTypeOK, InOrder, NotYet, ThreadLeaves, CallerTold, AllKept
<1>2. CASE OpNext
  BY <1>2, ExecuteKeeps, CallerKeeps, RunnerKeeps DEF OpNext, Caller
<1> QED
  BY <1>1, <1>2

LEMMA AlwaysOpIInv == OpSpec => []OpIInv
<1>1. OpInit => OpIInv
  BY InitOpIInv
<1>2. OpIInv /\ [OpNext]_opVars => OpIInv'
  BY NextOpIInv
<1> QED
  BY <1>1, <1>2, PTL DEF OpSpec

\* The variables keep their types (thread.hpp:227, network.cpp:384).
THEOREM OpTypeCorrect == OpSpec => []OpTypeOK
<1>1. OpIInv => OpTypeOK
  BY DEF OpIInv
<1> QED
  BY <1>1, AlwaysOpIInv, PTL

\* However the user's giving up and the thread's connecting follow each other, a
\* connection is left exactly when the caller was told it succeeded
\* (network.cpp:443, thread.cpp:176).
THEOREM LinkedAreHandedOverAlways == OpSpec => []LinkedAreHandedOver
<1>1. OpIInv => LinkedAreHandedOver
  BY DEF OpIInv, OpTypeOK, ThreadLeaves, CallerTold, LinkedAreHandedOver
<1> QED
  BY <1>1, AlwaysOpIInv, PTL

\* The constructor that drops old operations drops none that a thread uses,
\* for any number of operations (thread.hpp:248, thread.cpp:139).
THEOREM ThreadsHaveTheirOperationAlways == OpSpec => []ThreadsHaveTheirOperation
<1>1. OpIInv => ThreadsHaveTheirOperation
  BY DEF OpIInv, AllKept, ThreadsHaveTheirOperation
<1> QED
  BY <1>1, AlwaysOpIInv, PTL
-----------------------------------------------------------------------------
(* The pool: threads *)

USE NetAssumption

\* The threads that serve a connection are the same, and at the same point.
BusyKept(ws) ==
    \A v \in ws : threads'[v] = threads[v] \/ {threads[v], threads'[v]} \cap Busy = {}

LEMMA NotifiedBusy ==
    ASSUME NetTypeOK, threads' \in Notified(threads)
    PROVE  threads' \in [Workers -> Points] /\ BusyKept(Workers)
<1>1. \/ threads' = threads
      \/ \E w \in Workers : threads[w] = "wait" /\ threads' = [threads EXCEPT ![w] = "woken"]
  BY DEF Notified
<1> QED
  BY <1>1 DEF NetTypeOK, Points, Busy, BusyKept

LEMMA AnnounceBusy ==
    ASSUME NetTypeOK, NEW c \in Conns, Announce(c)
    PROVE  threads' \in [Workers -> Points] /\ BusyKept(Workers)
<1>1. UNCHANGED threads \/ threads' \in Notified(threads)
  BY DEF Announce
<1>2. CASE UNCHANGED threads
  BY <1>2 DEF NetTypeOK, BusyKept
<1> QED
  BY <1>1, <1>2, NotifiedBusy

LEMMA LookingBusy ==
    ASSUME NetTypeOK, NEW w \in Workers, NEW t, Looking(w, t)
    PROVE  /\ t \in [Workers -> Points] /\ threads[w] \in {"loop", "woken"}
           /\ \A v \in Workers : t[v] = threads[v] \/ {threads[v], t[v]} \cap Busy = {}
BY DEF NetTypeOK, Looking, Cleared, Points, Busy

LEMMA LeavingBusy ==
    ASSUME NetTypeOK, NEW w \in Workers, NEW t, Looking(w, t), NEW point \in Points,
           threads' \in Leaving(t, w, point)
    PROVE  /\ threads' \in [Workers -> Points] /\ threads'[w] = point
           /\ threads[w] \in {"loop", "woken"} /\ BusyKept(Workers \ {w})
<1> DEFINE u == [t EXCEPT ![w] = point]
<1>1. /\ t \in [Workers -> Points] /\ threads[w] \in {"loop", "woken"}
      /\ \A v \in Workers : t[v] = threads[v] \/ {threads[v], t[v]} \cap Busy = {}
  BY LookingBusy
<1>2. t[w] = threads[w]
  BY DEF Looking, Cleared
<1>3. threads' = u \/ \E v \in Workers : t[v] = "off" /\ threads' = [u EXCEPT ![v] = "loop"]
  BY DEF Leaving
<1>4. u \in [Workers -> Points] /\ u[w] = point /\ \A v \in Workers \ {w} : u[v] = t[v]
  BY <1>1
<1> HIDE DEF u
<1>5. CASE threads' = u
  BY <1>1, <1>4, <1>5 DEF BusyKept
<1>6. ASSUME NEW v \in Workers, t[v] = "off", threads' = [u EXCEPT ![v] = "loop"]
      PROVE  /\ threads' \in [Workers -> Points] /\ threads'[w] = point
             /\ BusyKept(Workers \ {w})
  <2>1. v # w
    BY <1>1, <1>2, <1>6
  <2>2. /\ threads' \in [Workers -> Points] /\ threads'[v] = "loop"
        /\ \A x \in Workers \ {v} : threads'[x] = u[x]
    BY <1>4, <1>6 DEF Points
  <2>3. {t[v], "loop"} \cap Busy = {}
    BY <1>6 DEF Busy
  <2>4. threads[v] \notin Busy
    BY <1>1, <1>6 DEF Busy
  <2> QED
    BY <1>1, <1>4, <2>1, <2>2, <2>3, <2>4 DEF BusyKept
<1> QED
  BY <1>1, <1>3, <1>5, <1>6

-----------------------------------------------------------------------------
(* The pool: lists of messages and connections *)

LEMMA NotConnKept ==
    ASSUME NEW q \in Seq(Conns), NEW c \in Conns
    PROVE  /\ NotConn(q, c) \in Seq(Conns)
           /\ \A i \in DOMAIN NotConn(q, c) : NotConn(q, c)[i] \in Range(q) \ {c}
           /\ \A d \in Conns : Those(NotConn(q, c), {d}) =
                                  IF d = c THEN <<>> ELSE Those(q, {d})
<1> DEFINE r == NotConn(q, c)
<1>1. r \in Seq(Conns \ {c}) /\ Range(r) = Range(q) \cap (Conns \ {c})
  <2>1. Conns \cap (Conns \ {c}) = Conns \ {c}
    OBVIOUS
  <2> QED
    BY <2>1, ThoseType DEF NotConn
<1>2. ASSUME NEW d \in Conns
      PROVE  Those(r, {d}) = IF d = c THEN <<>> ELSE Those(q, {d})
  <2>1. Those(r, {d}) = Those(q, {d} \cap (Conns \ {c}))
    BY ThoseThose DEF NotConn
  <2>2. CASE d = c
    <3>1. {d} \cap (Conns \ {c}) = {}
      BY <2>2
    <3>2. Those(q, {}) = <<>>
      BY ThoseNone
    <3> QED
      BY <2>1, <2>2, <3>1, <3>2
  <2>3. CASE d # c
    <3>1. {d} \cap (Conns \ {c}) = {d}
      BY <2>3
    <3> QED
      BY <2>1, <2>3, <3>1
  <2> QED
    BY <2>2, <2>3
<1> HIDE DEF r
<1>3. r \in Seq(Conns) /\ \A i \in DOMAIN r : r[i] \in Range(q) \ {c}
  BY <1>1 DEF Range
<1> QED
  BY <1>2, <1>3 DEF r

LEMMA NotMsgsKept ==
    ASSUME NEW q \in Seq(MsgsTo(Conns)), NEW c \in Conns
    PROVE  /\ NotMsgs(q, c) \in Seq(MsgsTo(Conns))
           /\ \A i \in DOMAIN NotMsgs(q, c) :
                 NotMsgs(q, c)[i] \in Range(q) /\ NotMsgs(q, c)[i].conn # c
           /\ \A d \in Conns \ {c} : Those(NotMsgs(q, c), MsgsTo({d})) = Those(q, MsgsTo({d}))
<1> DEFINE r == NotMsgs(q, c)
           S == MsgsTo(Conns \ {c})
<1>1. S \subseteq MsgsTo(Conns) /\ \A m \in S : m.conn # c
  BY DEF MsgsTo
<1>2. r \in Seq(MsgsTo(Conns) \cap S) /\ Range(r) = Range(q) \cap S
  BY ThoseType DEF NotMsgs
<1>3. ASSUME NEW d \in Conns \ {c}
      PROVE  Those(r, MsgsTo({d})) = Those(q, MsgsTo({d}))
  <2>1. MsgsTo({d}) \cap S = MsgsTo({d})
    BY DEF MsgsTo
  <2>2. r = Those(q, S)
    BY DEF NotMsgs
  <2> HIDE DEF r, S
  <2> DEFINE C == MsgsTo(Conns)
  <2>3. q \in Seq(C)
    OBVIOUS
  <2> HIDE DEF C
  <2>4. \A U, T : Those(Those(q, T), U) = Those(q, U \cap T)
    BY <2>3, ThoseThose
  <2> QED
    BY <2>1, <2>2, <2>4
<1> HIDE DEF r, S
<1>4. MsgsTo(Conns) \cap S = S /\ S \subseteq MsgsTo(Conns)
  BY <1>1
<1>5. r \in Seq(MsgsTo(Conns)) /\ \A i \in DOMAIN r : r[i] \in Range(q) /\ r[i].conn # c
  BY <1>1, <1>2, <1>4 DEF Range
<1> QED
  BY <1>3, <1>5 DEF r

LEMMA RemoveFirstType ==
    ASSUME NEW C, NEW q \in Seq(C), NEW c
    PROVE  RemoveFirst(q, c) \in Seq(C)
<1>1. ASSUME NEW T, T \subseteq 1..Len(q), T # {} PROVE Min(T) \in 1..Len(q)
  <2>1. T \subseteq Nat
    BY <1>1
  <2>2. \E i \in T : \A k \in T : i <= k
    BY <1>1, <2>1, LeastOf, Zenon
  <2>3. Min(T) \in T
    BY <2>2 DEF Min
  <2> QED
    BY <1>1, <2>3
<1> DEFINE T == {i \in 1..Len(q) : q[i] = c}
<1>2. CASE T = {}
  BY <1>2 DEF RemoveFirst
<1>3. CASE T # {}
  <2>1. Min(T) \in 1..Len(q)
    <3> HIDE DEF T
    <3>1. T \subseteq 1..Len(q)
      BY DEF T
    <3> QED
      BY <1>1, <1>3, <3>1
  <2>2. RemoveFirst(q, c) = RemoveAt(q, Min(T))
    BY <1>3 DEF RemoveFirst, SelectInSeq
  <2> HIDE DEF T
  <2> QED
    BY <2>1, <2>2, RemovedAt
<1> QED
  BY <1>2, <1>3

-----------------------------------------------------------------------------
(* The pool: types *)

LEMMA InitNetType == NetInit => NetTypeOK
<1> SUFFICES ASSUME NetInit PROVE NetTypeOK
  OBVIOUS
<1>1. threads \in [Workers -> Points] /\ \A w \in Workers : threads[w] \notin Busy
  BY DEF NetInit, Points, Busy
<1>2. job \in [Workers -> Jobs] /\ \A w \in Workers : job[w].conn = NoConn
  BY DEF NetInit, Idle, Jobs
<1>3. /\ state \in [Conns -> {"absent", "ready", "locked", "errored", "interrupt"}]
      /\ outgoing = <<>> /\ receives = <<>> /\ received = <<>> /\ queue = <<>>
      /\ pool \in PoolSizes /\ managed = TRUE /\ errors = 0 /\ phase = "run"
      /\ open = {} /\ closed \in SUBSET Conns /\ waiting = {} /\ bad = {}
      /\ sent \in [Conns -> 0..MaxSent] /\ delivered = sent
  BY DEF NetInit
<1> QED
  BY <1>1, <1>2, <1>3 DEF NetTypeOK

\* What Disconnect leaves has its type, and nothing of c in the lists of
\* receives.
LEMMA DisconnectTypes ==
    ASSUME NetTypeOK, NEW c \in Conns, NEW q \in Seq(Conns), NEW badly, Disconnect(c, q, badly)
    PROVE  /\ state' \in [Conns -> {"absent", "ready", "locked", "errored", "interrupt"}]
           /\ outgoing' \in Seq(MsgsTo(Conns)) /\ receives' \in Seq(Conns)
           /\ received' \in Seq(Conns) /\ queue' \in Seq(Conns)
           /\ open' \subseteq Conns /\ closed' \subseteq Conns
           /\ waiting' \subseteq Conns /\ bad' \subseteq Conns
<1>1. /\ NotConn(receives, c) \in Seq(Conns) /\ NotConn(received, c) \in Seq(Conns)
      /\ NotMsgs(outgoing, c) \in Seq(MsgsTo(Conns)) /\ RemoveFirst(q, c) \in Seq(Conns)
  BY NotConnKept, NotMsgsKept, RemoveFirstType DEF NetTypeOK
<1> QED
  BY <1>1 DEF NetTypeOK, Disconnect, RemoveBuffers, Forget

LEMMA MainTypes ==
    ASSUME NetTypeOK, NEW c \in Conns,
           \/ Accept(c) \/ Send(c) \/ StartReceive(c) \/ QueueDisconnect(c)
           \/ Reject(c) \/ CloseConnection(c)
    PROVE  NetTypeOK'
<1>1. CASE Accept(c)
  BY <1>1 DEF NetTypeOK, Accept, shardVars
<1>2. CASE Send(c)
  <2>1. threads' \in [Workers -> Points] /\ BusyKept(Workers)
    BY <1>2, AnnounceBusy DEF Send
  <2>2. state' \in [Conns -> {"absent", "ready", "locked", "errored", "interrupt"}]
    BY <1>2 DEF NetTypeOK, Send, Announce
  <2>3. sent[c] + 1 \in 1..MaxSent /\ sent' \in [Conns -> 0..MaxSent]
    BY <1>2 DEF NetTypeOK, Send
  <2>4. [conn |-> c, msg |-> sent[c] + 1] \in MsgsTo(Conns)
    BY <2>3 DEF MsgsTo
  <2>5. outgoing' \in Seq(MsgsTo(Conns))
    BY <1>2, <2>4, AppendKept DEF NetTypeOK, Send
  <2> QED
    BY <1>2, <2>1, <2>2, <2>3, <2>5 DEF NetTypeOK, Send, mainVars, BusyKept
<1>3. CASE StartReceive(c)
  <2>1. threads' \in [Workers -> Points] /\ BusyKept(Workers)
    BY <1>3, AnnounceBusy DEF StartReceive
  <2>2. state' \in [Conns -> {"absent", "ready", "locked", "errored", "interrupt"}]
    BY <1>3 DEF NetTypeOK, StartReceive, Announce
  <2>3. receives' \in Seq(Conns)
    BY <1>3, AppendKept DEF NetTypeOK, StartReceive
  <2> QED
    BY <1>3, <2>1, <2>2, <2>3 DEF NetTypeOK, StartReceive, BusyKept
<1>4. CASE QueueDisconnect(c)
  <2>1. queue' \in Seq(Conns)
    BY <1>4, AppendKept DEF NetTypeOK, QueueDisconnect
  <2> QED
    BY <1>4, <2>1 DEF NetTypeOK, QueueDisconnect, shardVars
<1>5. CASE Reject(c)
  BY <1>5, DisconnectTypes DEF NetTypeOK, Reject
<1>6. CASE CloseConnection(c)
  BY <1>6, DisconnectTypes DEF NetTypeOK, CloseConnection
<1> QED
  BY <1>1, <1>2, <1>3, <1>4, <1>5, <1>6

LEMMA PollTypes == ASSUME NetTypeOK, Poll PROVE NetTypeOK'
<1>1. CASE TakeReceived
  BY <1>1 DEF NetTypeOK, TakeReceived
<1>2. CASE DisconnectQueued
  <2>1. Head(queue) \in Conns /\ Tail(queue) \in Seq(Conns)
    BY <1>2 DEF NetTypeOK, DisconnectQueued
  <2> QED
    BY <1>2, <2>1, DisconnectTypes DEF NetTypeOK, DisconnectQueued
<1>3. CASE DetectNone
  BY <1>3 DEF NetTypeOK, DetectNone, mainVars
<1>4. ASSUME NEW c \in Conns, DetectError(c) PROVE NetTypeOK'
  <2>1. /\ NotConn(receives, c) \in Seq(Conns) /\ NotConn(received, c) \in Seq(Conns)
        /\ NotMsgs(outgoing, c) \in Seq(MsgsTo(Conns)) /\ RemoveFirst(queue, c) \in Seq(Conns)
    BY NotConnKept, NotMsgsKept, RemoveFirstType DEF NetTypeOK
  <2>2. errors' \in Nat
    BY <1>4 DEF NetTypeOK, DetectError
  <2>3. state' \in [Conns -> {"absent", "ready", "locked", "errored", "interrupt"}]
    BY <1>4 DEF NetTypeOK, DetectError
  <2>4. /\ receives' \in Seq(Conns) /\ received' \in Seq(Conns)
        /\ outgoing' \in Seq(MsgsTo(Conns)) /\ queue' \in Seq(Conns)
        /\ open' \subseteq Conns /\ closed' \subseteq Conns
        /\ waiting' \subseteq Conns /\ bad' \subseteq Conns
    BY <1>4, <2>1 DEF NetTypeOK, DetectError, RemoveBuffers, Forget
  <2> QED
    BY <1>4, <2>2, <2>3, <2>4 DEF NetTypeOK, DetectError
<1> QED
  BY <1>1, <1>2, <1>3, <1>4 DEF Poll

LEMMA StopTypes == ASSUME NetTypeOK, Shutdown \/ Stop PROVE NetTypeOK'
<1>1. CASE Shutdown
  BY <1>1 DEF NetTypeOK, Shutdown, shardVars
<1>2. ASSUME NEW c \in Conns, CloseConnection(c) PROVE NetTypeOK'
  BY <1>2, MainTypes
<1>3. CASE StopManaging
  BY <1>3 DEF NetTypeOK, StopManaging, shardVars
<1>4. CASE NotifyAll
  BY <1>4 DEF NetTypeOK, NotifyAll, Points, Busy
<1>5. CASE JoinAll
  BY <1>5 DEF NetTypeOK, JoinAll, Points, Busy
<1> QED
  BY <1>1, <1>2, <1>3, <1>4, <1>5 DEF Stop

LEMMA PickTypes ==
    ASSUME NetTypeOK, NEW w \in Workers, NEW c \in Conns, PickMsg(w, c) \/ PickReceive(w, c)
    PROVE  NetTypeOK'
<1>1. CASE PickMsg(w, c)
  <2>1. PICK i \in DOMAIN outgoing, t \in {Cleared, threads} :
           /\ Looking(w, t) /\ outgoing[i].conn = c /\ outgoing' = RemoveAt(outgoing, i)
           /\ job' = [job EXCEPT ![w] = [conn |-> c, msg |-> outgoing[i].msg, ok |-> TRUE]]
           /\ threads' \in Leaving(t, w, "send")
    BY <1>1 DEF PickMsg
  <2>2. /\ threads' \in [Workers -> Points] /\ threads'[w] = "send"
        /\ threads[w] \in {"loop", "woken"} /\ BusyKept(Workers \ {w})
    BY <2>1, LeavingBusy DEF Points
  <2>3. outgoing' \in Seq(MsgsTo(Conns)) /\ outgoing[i].msg \in 0..MaxSent
    <3>1. i \in 1..Len(outgoing) /\ outgoing[i] \in MsgsTo(Conns)
      BY DEF NetTypeOK
    <3>2. RemoveAt(outgoing, i) \in Seq(MsgsTo(Conns))
      BY <3>1, RemovedAt DEF NetTypeOK
    <3> QED
      BY <2>1, <3>1, <3>2 DEF MsgsTo
  <2>4. job' \in [Workers -> Jobs] /\ job'[w].conn = c /\ \A v \in Workers \ {w} : job'[v] = job[v]
    BY <2>1, <2>3 DEF NetTypeOK, Jobs
  <2>5. \A v \in Workers : threads'[v] \in Busy <=> job'[v].conn # NoConn
    BY <2>2, <2>4 DEF NetTypeOK, Busy, BusyKept
  <2> QED
    BY <1>1, <2>2, <2>3, <2>4, <2>5 DEF NetTypeOK, PickMsg, mainVars
<1>2. CASE PickReceive(w, c)
  <2>1. PICK i \in DOMAIN receives, t \in {Cleared, threads} :
           /\ Looking(w, t) /\ receives[i] = c /\ receives' = RemoveAt(receives, i)
           /\ job' = [job EXCEPT ![w] = [conn |-> c, msg |-> 0, ok |-> TRUE]]
           /\ threads' \in Leaving(t, w, "recv")
    BY <1>2 DEF PickReceive
  <2>2. /\ threads' \in [Workers -> Points] /\ threads'[w] = "recv"
        /\ threads[w] \in {"loop", "woken"} /\ BusyKept(Workers \ {w})
    BY <2>1, LeavingBusy DEF Points
  <2>3. receives' \in Seq(Conns)
    <3>1. i \in 1..Len(receives)
      BY DEF NetTypeOK
    <3> QED
      BY <2>1, <3>1, RemovedAt DEF NetTypeOK
  <2>4. job' \in [Workers -> Jobs] /\ job'[w].conn = c /\ \A v \in Workers \ {w} : job'[v] = job[v]
    BY <2>1 DEF NetTypeOK, Jobs
  <2>5. \A v \in Workers : threads'[v] \in Busy <=> job'[v].conn # NoConn
    BY <2>2, <2>4 DEF NetTypeOK, Busy, BusyKept
  <2> QED
    BY <1>2, <2>2, <2>3, <2>4, <2>5 DEF NetTypeOK, PickReceive, mainVars
<1> QED
  BY <1>1, <1>2

LEMMA WorkTypes ==
    ASSUME NetTypeOK, NEW w \in Workers,
           \/ Rest(w) \/ Exit(w) \/ CheckLock(w) \/ Write(w) \/ Receive(w) \/ Push(w) \/ Report(w)
    PROVE  NetTypeOK'
<1>1. CASE Rest(w)
  <2>1. PICK t \in {Cleared, threads} :
           /\ Looking(w, t)
           /\ threads' = [t EXCEPT ![w] = IF managed THEN "wait" ELSE "zombie"]
    BY <1>1 DEF Rest
  <2>2. threads' \in [Workers -> Points] /\ BusyKept(Workers)
    BY <2>1, LookingBusy DEF Points, Busy, BusyKept
  <2> QED
    BY <1>1, <2>2 DEF NetTypeOK, Rest, mainVars, BusyKept
<1>2. CASE Exit(w)
  <2>1. threads' \in [Workers -> Points] /\ BusyKept(Workers)
    BY <1>2 DEF NetTypeOK, Exit, Cleared, Points, Busy, BusyKept
  <2> QED
    BY <1>2, <2>1 DEF NetTypeOK, Exit, mainVars, BusyKept
<1>3. ASSUME threads[w] \in Busy PROVE job[w].conn \in Conns
  BY <1>3 DEF NetTypeOK, Jobs
<1>4. ASSUME NEW p \in Busy, GoOn(w, p), threads[w] \in Busy
      PROVE  /\ threads' \in [Workers -> Points] /\ job' \in [Workers -> Jobs]
             /\ \A v \in Workers : threads'[v] \in Busy <=> job'[v].conn # NoConn
  BY <1>4 DEF NetTypeOK, GoOn, Points, Busy
<1>5. ASSUME NEW ok \in BOOLEAN, Finish(w, ok), threads[w] \in Busy
      PROVE  /\ threads' \in [Workers -> Points] /\ job' \in [Workers -> Jobs]
             /\ \A v \in Workers : threads'[v] \in Busy <=> job'[v].conn # NoConn
  <2>1. /\ threads' \in [Workers -> Points] /\ threads'[w] = "report"
        /\ \A v \in Workers \ {w} : threads'[v] = threads[v]
    BY <1>5 DEF NetTypeOK, Finish, Points
  <2>2. job' \in [Workers -> Jobs] /\ \A v \in Workers : job'[v].conn = job[v].conn
    BY <1>5 DEF NetTypeOK, Finish, Jobs
  <2> QED
    BY <1>5, <2>1, <2>2 DEF NetTypeOK, Busy
<1>6. CASE CheckLock(w)
  <2>1. threads[w] \in Busy /\ (GoOn(w, "write") \/ Finish(w, FALSE))
    BY <1>6 DEF CheckLock, Busy
  <2>2. "write" \in Busy
    BY DEF Busy
  <2> QED
    BY <1>4, <1>5, <1>6, <2>1, <2>2 DEF NetTypeOK, CheckLock, mainVars
<1>7. CASE Write(w)
  <2>1. threads[w] \in Busy /\ \E ok \in BOOLEAN : Finish(w, ok)
    BY <1>7 DEF Write, Busy
  <2>2. job[w].conn \in Conns /\ job[w].msg \in 0..MaxSent
    BY <1>3, <2>1 DEF NetTypeOK, Jobs
  <2>3. delivered' \in [Conns -> 0..MaxSent]
    BY <1>7, <2>2 DEF NetTypeOK, Write
  <2> QED
    BY <1>5, <1>7, <2>1, <2>3 DEF NetTypeOK, Write, mainVars
<1>8. CASE Receive(w)
  <2>1. threads[w] \in Busy /\ (GoOn(w, "push") \/ Finish(w, FALSE))
    BY <1>8 DEF Receive, Busy
  <2>2. "push" \in Busy
    BY DEF Busy
  <2> QED
    BY <1>4, <1>5, <1>8, <2>1, <2>2 DEF NetTypeOK, Receive, mainVars
<1>9. CASE Push(w)
  <2>1. threads[w] \in Busy /\ Finish(w, TRUE)
    BY <1>9 DEF Push, Busy
  <2>2. received' \in Seq(Conns)
    BY <1>3, <1>9, <2>1, AppendKept DEF NetTypeOK, Push
  <2> QED
    BY <1>5, <1>9, <2>1, <2>2 DEF NetTypeOK, Push, mainVars
<1>10. CASE Report(w)
  <2>1. threads[w] \in Busy
    BY <1>10 DEF Report, Busy
  <2>2. state' \in [Conns -> {"absent", "ready", "locked", "errored", "interrupt"}]
    BY <1>3, <1>10, <2>1 DEF NetTypeOK, Report
  <2>3. /\ job' \in [Workers -> Jobs] /\ job'[w].conn = NoConn
        /\ \A v \in Workers \ {w} : job'[v] = job[v]
    BY <1>10 DEF NetTypeOK, Report, Jobs, Idle
  <2>4. /\ threads' \in [Workers -> Points] /\ threads'[w] = "loop"
        /\ \A v \in Workers \ {w} : threads'[v] = threads[v]
    BY <1>10 DEF NetTypeOK, Report, Points
  <2>5. \A v \in Workers : threads'[v] \in Busy <=> job'[v].conn # NoConn
    BY <2>3, <2>4 DEF NetTypeOK, Busy
  <2>6. errors' \in Nat
    BY <1>10 DEF NetTypeOK, Report
  <2> QED
    BY <1>10, <2>2, <2>3, <2>4, <2>5, <2>6 DEF NetTypeOK, Report, mainVars
<1> QED
  BY <1>1, <1>2, <1>6, <1>7, <1>8, <1>9, <1>10

LEMMA NextNetType == ASSUME NetTypeOK, [NetNext]_netVars PROVE NetTypeOK'
<1>1. CASE UNCHANGED netVars
  BY <1>1 DEF NetTypeOK, netVars, shardVars, mainVars
<1>2. CASE NetNext
  BY <1>2, MainTypes, PollTypes, StopTypes, PickTypes, WorkTypes DEF NetNext, Worker
<1> QED
  BY <1>1, <1>2

\* The variables keep their types, and a thread has a connection exactly while it
\* sends, receives or reports (network_worker.cpp:659).
THEOREM NetTypeCorrect == NetSpec => []NetTypeOK
<1>1. NetInit => NetTypeOK
  BY InitNetType
<1>2. NetTypeOK /\ [NetNext]_netVars => NetTypeOK'
  BY NextNetType
<1> QED
  BY <1>1, <1>2, PTL DEF NetSpec

-----------------------------------------------------------------------------
(* The pool: what a step does to the connections *)

Quiet ==
    /\ BusyKept(Workers)
    /\ UNCHANGED <<job, state, outgoing, receives, received, open, closed, waiting,
                   sent, delivered>>

Closes(c) ==
    /\ state[c] \notin {"locked", "interrupt"}
    /\ state' = [state EXCEPT ![c] = "absent"]
    /\ open' = open \ {c}
    /\ closed' = closed \cup {c}
    /\ waiting' = waiting \ {c}
    /\ receives' = NotConn(receives, c)
    /\ RemoveBuffers(c)
    /\ UNCHANGED <<threads, job, sent, delivered>>

Interrupts(c) ==
    /\ state[c] \in {"locked", "interrupt"}
    /\ state' = [state EXCEPT ![c] = "interrupt"]
    /\ receives' = NotConn(receives, c)
    /\ UNCHANGED <<threads, job, outgoing, received, open, closed, waiting, sent, delivered>>

Serves(w) == CheckLock(w) \/ Write(w) \/ Receive(w) \/ Push(w)

LEMMA RestingSteps ==
    ASSUME NetTypeOK,
           \/ Shutdown \/ StopManaging \/ NotifyAll \/ JoinAll \/ DetectNone
           \/ (\E c \in Conns : QueueDisconnect(c))
           \/ (\E w \in Workers : Rest(w) \/ Exit(w))
           \/ UNCHANGED netVars
    PROVE  Quiet
<1>1. CASE Shutdown \/ StopManaging \/ DetectNone \/ UNCHANGED netVars
  BY <1>1 DEF Shutdown, StopManaging, DetectNone, netVars, shardVars, mainVars, Quiet, BusyKept
<1>2. CASE NotifyAll
  BY <1>2 DEF NetTypeOK, NotifyAll, Quiet, BusyKept, Busy
<1>3. CASE JoinAll
  BY <1>3 DEF NetTypeOK, JoinAll, Quiet, BusyKept, Busy
<1>4. ASSUME NEW c \in Conns, QueueDisconnect(c) PROVE Quiet
  BY <1>4 DEF QueueDisconnect, shardVars, Quiet, BusyKept
<1>5. ASSUME NEW w \in Workers, Rest(w) PROVE Quiet
  <2>1. PICK t \in {Cleared, threads} :
           /\ Looking(w, t)
           /\ threads' = [t EXCEPT ![w] = IF managed THEN "wait" ELSE "zombie"]
    BY <1>5 DEF Rest
  <2>2. BusyKept(Workers)
    BY <2>1, LookingBusy DEF Points, Busy, BusyKept
  <2> QED
    BY <1>5, <2>2 DEF Rest, mainVars, Quiet
<1>6. ASSUME NEW w \in Workers, Exit(w) PROVE Quiet
  <2>1. BusyKept(Workers)
    BY <1>6 DEF NetTypeOK, Exit, Cleared, Points, Busy, BusyKept
  <2> QED
    BY <1>6, <2>1 DEF Exit, mainVars, Quiet
<1> QED
  BY <1>1, <1>2, <1>3, <1>4, <1>5, <1>6

LEMMA ClosingSteps ==
    ASSUME NetTypeOK,
           \/ DisconnectQueued
           \/ \E c \in Conns : Reject(c) \/ CloseConnection(c) \/ DetectError(c)
    PROVE  \E c \in Conns : Closes(c) \/ Interrupts(c)
<1>1. ASSUME NEW c \in Conns, NEW q, NEW badly, Disconnect(c, q, badly),
             UNCHANGED <<threads, job, sent, delivered>>
      PROVE  Closes(c) \/ Interrupts(c)
  BY <1>1 DEF Disconnect, Forget, Closes, Interrupts
<1>2. CASE DisconnectQueued
  <2>1. Head(queue) \in Conns
    BY <1>2 DEF NetTypeOK, DisconnectQueued
  <2> QED
    BY <1>1, <1>2, <2>1 DEF DisconnectQueued
<1>3. ASSUME NEW c \in Conns, Reject(c) \/ CloseConnection(c)
      PROVE  Closes(c) \/ Interrupts(c)
  BY <1>1, <1>3 DEF Reject, CloseConnection
<1>4. ASSUME NEW c \in Conns, DetectError(c) PROVE Closes(c)
  BY <1>4 DEF DetectError, Forget, Closes
<1> QED
  BY <1>2, <1>3, <1>4

LEMMA NetSteps ==
    ASSUME NetTypeOK, [NetNext]_netVars
    PROVE  \/ Quiet
           \/ \E c \in Conns : \/ Accept(c) \/ Send(c) \/ StartReceive(c)
                               \/ Closes(c) \/ Interrupts(c)
           \/ TakeReceived
           \/ \E w \in Workers : \/ \E c \in Conns : PickMsg(w, c) \/ PickReceive(w, c)
                                 \/ Serves(w) \/ Report(w)
BY RestingSteps, ClosingSteps DEF NetNext, Poll, Stop, Worker, Serves

\* A thread that serves a connection goes on with it.
LEMMA ServingSteps ==
    ASSUME NetTypeOK, NEW w \in Workers, Serves(w)
    PROVE  /\ job[w].conn \in Conns
           /\ \A v \in Workers : job'[v].conn = job[v].conn
           /\ \A v \in Workers \ {w} : job'[v] = job[v] /\ threads'[v] = threads[v]
           /\ UNCHANGED <<state, outgoing, receives, open, closed, waiting, sent>>
<1>1. threads[w] \in Busy /\ ((\E p \in Points : GoOn(w, p)) \/ \E ok \in BOOLEAN : Finish(w, ok))
  BY DEF Serves, CheckLock, Write, Receive, Push, Busy, Points
<1>2. job[w].conn \in Conns
  BY <1>1 DEF NetTypeOK, Jobs
<1>3. /\ \A v \in Workers : job'[v].conn = job[v].conn
      /\ \A v \in Workers \ {w} : job'[v] = job[v] /\ threads'[v] = threads[v]
  <2>1. CASE \E p \in Points : GoOn(w, p)
    BY <2>1 DEF NetTypeOK, GoOn
  <2>2. ASSUME NEW ok \in BOOLEAN, Finish(w, ok)
        PROVE  /\ \A v \in Workers : job'[v].conn = job[v].conn
               /\ \A v \in Workers \ {w} : job'[v] = job[v] /\ threads'[v] = threads[v]
    BY <2>2 DEF NetTypeOK, Jobs, Finish
  <2> QED
    BY <1>1, <2>1, <2>2
<1>4. UNCHANGED <<state, outgoing, receives, open, closed, waiting, sent>>
  BY DEF Serves, CheckLock, Write, Receive, Push, mainVars
<1> QED
  BY <1>2, <1>3, <1>4
-----------------------------------------------------------------------------
(* The pool: each socket in one hand *)

Known == {c \in open : state[c] # "absent"}

\* Who has locked a connection has it alone; what is queued is of known ones.
NetHeld ==
    /\ waiting \subseteq open
    /\ \A w \in Workers : job[w].conn # NoConn =>
          job[w].conn \in open /\ state[job[w].conn] \in {"locked", "interrupt"}
    /\ \A w, v \in Workers : job[w].conn # NoConn /\ job[v].conn = job[w].conn => v = w
    /\ \A i \in DOMAIN outgoing : outgoing[i].conn \in Known
    /\ \A i \in DOMAIN receives : receives[i] \in Known
    /\ \A i \in DOMAIN received : received[i] \in open

LEMMA AppendAll ==
    ASSUME NEW C, NEW q \in Seq(C), NEW c \in C, NEW S
    PROVE  (\A i \in DOMAIN Append(q, c) : Append(q, c)[i] \in S) <=>
               c \in S /\ \A i \in DOMAIN q : q[i] \in S
<1>1. /\ DOMAIN Append(q, c) = 1..(Len(q) + 1) /\ DOMAIN q = 1..Len(q)
      /\ \A i \in 1..Len(q) : Append(q, c)[i] = q[i]
      /\ Append(q, c)[Len(q) + 1] = c /\ Len(q) \in Nat
  OBVIOUS
<1> DEFINE p == Append(q, c)
           n == Len(q)
<1>2. 1..(n + 1) = 1..n \cup {n + 1}
  BY <1>1
<1> HIDE DEF p, n
<1>3. /\ DOMAIN p = 1..n \cup {n + 1} /\ \A i \in 1..n : p[i] = q[i]
      /\ DOMAIN q = 1..n /\ p[n + 1] = c
  BY <1>1, <1>2 DEF p, n
<1>4. (\A i \in DOMAIN p : p[i] \in S) <=> c \in S /\ \A i \in DOMAIN q : q[i] \in S
  BY <1>3, Zenon
<1> QED
  BY <1>4 DEF p

LEMMA HeadAndTail ==
    ASSUME NEW C, NEW q \in Seq(C), q # <<>>
    PROVE  /\ Head(q) \in Range(q)
           /\ \A i \in DOMAIN Tail(q) : Tail(q)[i] \in Range(q)
<1>1. /\ Len(q) \in Nat /\ Len(q) # 0 /\ DOMAIN q = 1..Len(q) /\ Head(q) = q[1]
      /\ DOMAIN Tail(q) = 1..(Len(q) - 1)
      /\ \A i \in 1..(Len(q) - 1) : Tail(q)[i] = q[i + 1]
  OBVIOUS
<1>2. 1 \in 1..Len(q) /\ \A i \in 1..(Len(q) - 1) : i + 1 \in 1..Len(q)
  BY <1>1
<1> QED
  BY <1>1, <1>2, Zenon DEF Range

LEMMA MainHeld ==
    ASSUME NetTypeOK, NetHeld, NEW c \in Conns, Accept(c) \/ Send(c) \/ StartReceive(c)
    PROVE  NetHeld'
<1>1. CASE Accept(c)
  BY <1>1 DEF Accept, shardVars, NetHeld, Known
<1>2. ASSUME Announce(c), c \in open, open' = open
      PROVE  /\ Known' = Known \cup {c}
             /\ \A d \in Conns : state[d] \in {"locked", "interrupt"} => state'[d] = state[d]
  BY <1>2 DEF NetTypeOK, Announce, Known
<1>3. CASE Send(c)
  <2>1. /\ Announce(c) /\ c \in open
        /\ UNCHANGED <<open, job, receives, received, waiting>>
        /\ outgoing' = Append(outgoing, [conn |-> c, msg |-> sent[c] + 1])
    BY <1>3 DEF Send, mainVars
  <2>2. sent[c] + 1 \in 1..MaxSent
    BY <1>3 DEF Send, NetTypeOK
  <2>3. [conn |-> c, msg |-> sent[c] + 1] \in MsgsTo(Conns)
    BY <2>2 DEF MsgsTo
  <2>4. \A i \in DOMAIN outgoing' : outgoing'[i].conn \in Known'
    <3> DEFINE S == {m \in MsgsTo(Conns) : m.conn \in Known'}
    <3>1. \A i \in DOMAIN outgoing : outgoing[i] \in S
      BY <1>2, <2>1 DEF NetHeld, NetTypeOK
    <3>2. [conn |-> c, msg |-> sent[c] + 1] \in S
      BY <1>2, <2>1, <2>3
    <3> DEFINE C == MsgsTo(Conns)
               m == [conn |-> c, msg |-> sent[c] + 1]
    <3>3. outgoing \in Seq(C) /\ m \in C /\ m \in S /\ outgoing' = Append(outgoing, m)
      BY <2>1, <2>3, <3>2 DEF NetTypeOK
    <3> HIDE DEF S, C, m
    <3>4. \A i \in DOMAIN outgoing' : outgoing'[i] \in S
      BY <3>1, <3>3, AppendAll
    <3> QED
      BY <3>4 DEF S
  <2>5. /\ \A i \in DOMAIN receives' : receives'[i] \in Known'
        /\ \A i \in DOMAIN received' : received'[i] \in open'
        /\ waiting' \subseteq open'
    BY <1>2, <2>1 DEF NetHeld
  <2> QED
    BY <1>2, <2>1, <2>4, <2>5 DEF NetHeld, NetTypeOK
<1>4. CASE StartReceive(c)
  <2>1. /\ Announce(c) /\ c \in open /\ waiting' = waiting \ {c}
        /\ UNCHANGED <<open, job, outgoing, received>>
        /\ receives' = Append(receives, c)
    BY <1>4 DEF StartReceive, NetHeld
  <2>2. \A i \in DOMAIN receives' : receives'[i] \in Known'
    <3>1. \A i \in DOMAIN receives : receives[i] \in Known'
      BY <1>2, <2>1 DEF NetHeld
    <3> DEFINE K == Known'
    <3>2. receives \in Seq(Conns) /\ c \in K
      BY <1>2, <2>1 DEF NetTypeOK
    <3> HIDE DEF K
    <3>3. \A i \in DOMAIN Append(receives, c) : Append(receives, c)[i] \in K
      BY <3>1, <3>2, AppendAll DEF K
    <3> QED
      BY <2>1, <3>3 DEF K
  <2>3. /\ \A i \in DOMAIN outgoing' : outgoing'[i].conn \in Known'
        /\ \A i \in DOMAIN received' : received'[i] \in open'
        /\ waiting' \subseteq open'
    BY <1>2, <2>1 DEF NetHeld
  <2> QED
    BY <1>2, <2>1, <2>2, <2>3 DEF NetHeld, NetTypeOK
<1> QED
  BY <1>1, <1>3, <1>4

LEMMA ClosingHeld ==
    ASSUME NetTypeOK, NetHeld, NEW c \in Conns, Closes(c) \/ Interrupts(c)
    PROVE  NetHeld'
<1>1. /\ \A i \in DOMAIN NotConn(receives, c) : NotConn(receives, c)[i] \in Range(receives) \ {c}
      /\ \A i \in DOMAIN NotConn(received, c) : NotConn(received, c)[i] \in Range(received) \ {c}
      /\ \A i \in DOMAIN NotMsgs(outgoing, c) :
            /\ NotMsgs(outgoing, c)[i] \in Range(outgoing)
            /\ NotMsgs(outgoing, c)[i].conn # c
  BY NotConnKept, NotMsgsKept DEF NetTypeOK
<1>2. /\ \A d \in Range(receives) : d \in Known
      /\ \A d \in Range(received) : d \in open
      /\ \A m \in Range(outgoing) : m.conn \in Known
  BY DEF NetHeld, Range
<1>3. CASE Closes(c)
  <2>1. Known' = Known \ {c} /\ open' = open \ {c} /\ UNCHANGED job
    BY <1>3 DEF Closes, NetTypeOK, Known
  <2>2. /\ \A i \in DOMAIN receives' : receives'[i] \in Known'
        /\ \A i \in DOMAIN received' : received'[i] \in open'
        /\ \A i \in DOMAIN outgoing' : outgoing'[i].conn \in Known'
    BY <1>1, <1>2, <1>3, <2>1 DEF Closes, RemoveBuffers
  <2>3. \A w \in Workers : job[w].conn # NoConn => job[w].conn # c
    BY <1>3 DEF Closes, NetHeld
  <2>4. waiting' \subseteq open' /\ \A d \in Conns \ {c} : state'[d] = state[d]
    BY <1>3 DEF Closes, NetHeld, NetTypeOK
  <2> QED
    BY <2>1, <2>2, <2>3, <2>4 DEF NetHeld, NetTypeOK
<1>4. CASE Interrupts(c)
  <2>1. /\ Known \subseteq Known'
        /\ \A d \in Conns : state[d] \in {"locked", "interrupt"} =>
              state'[d] \in {"locked", "interrupt"}
    BY <1>4 DEF Interrupts, NetTypeOK, Known
  <2>2. \A i \in DOMAIN receives' : receives'[i] \in Known'
    BY <1>1, <1>2, <1>4, <2>1 DEF Interrupts
  <2> QED
    BY <1>4, <2>1, <2>2 DEF Interrupts, NetHeld, NetTypeOK
<1> QED
  BY <1>3, <1>4

LEMMA PickHeld ==
    ASSUME NetTypeOK, NetHeld, NEW w \in Workers, NEW c \in Conns,
           PickMsg(w, c) \/ PickReceive(w, c)
    PROVE  /\ NetHeld'
           /\ c \in open /\ job[w].conn = NoConn /\ \A v \in Workers : job[v].conn # c
<1>1. \A v \in Workers : job[v].conn # NoConn <=> threads[v] \in Busy
  BY DEF NetTypeOK
<1>2. job[w].conn = NoConn
  <2>1. threads[w] \in {"loop", "woken"}
    BY DEF PickMsg, PickReceive, Looking
  <2> QED
    BY <1>1, <2>1 DEF Busy
<1>3. /\ state[c] = "ready" /\ c \in open
      /\ state' = [state EXCEPT ![c] = "locked"]
      /\ UNCHANGED <<open, received, waiting>>
      /\ \E m, ok : job' = [job EXCEPT ![w] = [conn |-> c, msg |-> m, ok |-> ok]]
  BY DEF PickMsg, PickReceive, NextMsg, NextReceive, mainVars, NetHeld, Known
<1>4. \A v \in Workers : job[v].conn # c
  BY <1>3 DEF NetHeld, NetTypeOK
<1>5. /\ job'[w].conn = c /\ \A v \in Workers \ {w} : job'[v] = job[v]
      /\ Known' = Known /\ state'[c] = "locked"
      /\ \A d \in Conns \ {c} : state'[d] = state[d]
  BY <1>3 DEF NetTypeOK, Known
<1>6. /\ \A i \in DOMAIN outgoing' : outgoing'[i].conn \in Known
      /\ \A i \in DOMAIN receives' : receives'[i] \in Known
  <2>1. \A d \in Range(receives) : d \in Known
    BY DEF NetHeld, Range
  <2>2. \A m \in Range(outgoing) : m.conn \in Known
    BY DEF NetHeld, Range
  <2>3. CASE PickMsg(w, c)
    <3>1. PICK i \in DOMAIN outgoing : outgoing' = RemoveAt(outgoing, i)
      BY <2>3 DEF PickMsg
    <3>2. i \in 1..Len(outgoing) /\ outgoing \in Seq(MsgsTo(Conns))
      BY DEF NetTypeOK
    <3>3. Range(outgoing') \subseteq Range(outgoing)
      BY <3>1, <3>2, RemovedAt
    <3> QED
      BY <2>2, <2>3, <3>3 DEF PickMsg, NetHeld, Range
  <2>4. CASE PickReceive(w, c)
    <3>1. PICK i \in DOMAIN receives : receives' = RemoveAt(receives, i)
      BY <2>4 DEF PickReceive
    <3>2. i \in 1..Len(receives) /\ receives \in Seq(Conns)
      BY DEF NetTypeOK
    <3>3. Range(receives') \subseteq Range(receives)
      BY <3>1, <3>2, RemovedAt
    <3> QED
      BY <2>1, <2>4, <3>3 DEF PickReceive, NetHeld, Range
  <2> QED
    BY <2>3, <2>4
<1>7. /\ waiting' \subseteq open' /\ \A i \in DOMAIN received' : received'[i] \in open'
  BY <1>3 DEF NetHeld
<1>8. \A v \in Workers : job'[v].conn # NoConn =>
         job'[v].conn \in open /\ state'[job'[v].conn] \in {"locked", "interrupt"}
  BY <1>3, <1>4, <1>5 DEF NetHeld, NetTypeOK
<1>9. \A u, v \in Workers : job'[u].conn # NoConn /\ job'[v].conn = job'[u].conn => v = u
  BY <1>3, <1>4, <1>5 DEF NetHeld, NetTypeOK
<1> QED
  BY <1>2, <1>3, <1>4, <1>5, <1>6, <1>7, <1>8, <1>9 DEF NetHeld

LEMMA NextNetHeld == ASSUME NetTypeOK, NetHeld, [NetNext]_netVars PROVE NetHeld'
<1>1. CASE Quiet
  BY <1>1 DEF Quiet, NetHeld, Known
<1>2. CASE TakeReceived
  <2>1. /\ received # <<>> /\ received' = Tail(received)
        /\ waiting' = waiting \cup {Head(received)}
        /\ UNCHANGED <<job, state, outgoing, receives, open>>
    BY <1>2 DEF TakeReceived
  <2>2. /\ Head(received) \in Range(received)
        /\ \A i \in DOMAIN Tail(received) : Tail(received)[i] \in Range(received)
    BY <2>1, HeadAndTail DEF NetTypeOK
  <2>3. \A d \in Range(received) : d \in open
    BY DEF NetHeld, Range
  <2> QED
    BY <2>1, <2>2, <2>3 DEF NetHeld, Known
<1>3. ASSUME NEW w \in Workers, Serves(w) PROVE NetHeld'
  <2>1. /\ job[w].conn \in Conns /\ \A v \in Workers : job'[v].conn = job[v].conn
        /\ UNCHANGED <<state, outgoing, receives, open, waiting>>
    BY <1>3, ServingSteps
  <2>2. job[w].conn \in open
    BY <2>1 DEF NetHeld
  <2>3. received' = received \/ received' = Append(received, job[w].conn)
    BY <1>3 DEF Serves, CheckLock, Write, Receive, Push
  <2>4. \A i \in DOMAIN received' : received'[i] \in open
    <3>1. received \in Seq(Conns) /\ \A i \in DOMAIN received : received[i] \in open
      BY DEF NetHeld, NetTypeOK
    <3>2. CASE received' = Append(received, job[w].conn)
      <4>1. \A i \in DOMAIN Append(received, job[w].conn) :
               Append(received, job[w].conn)[i] \in open
        BY <2>1, <2>2, <3>1, AppendAll
      <4> QED
        BY <3>2, <4>1
    <3> QED
      BY <2>3, <3>1, <3>2
  <2> QED
    BY <2>1, <2>4 DEF NetHeld, Known
<1>4. ASSUME NEW w \in Workers, Report(w) PROVE NetHeld'
  <2>1. /\ threads[w] = "report" /\ job' = [job EXCEPT ![w] = Idle]
        /\ state' = [state EXCEPT ![job[w].conn] = IF job[w].ok THEN "ready" ELSE "errored"]
        /\ UNCHANGED <<outgoing, receives, received, open, waiting>>
    BY <1>4 DEF Report, mainVars
  <2>2. job[w].conn \in Conns
    BY <2>1 DEF NetTypeOK, Busy, Jobs
  <2>3. /\ Known \subseteq Known' /\ \A d \in Conns \ {job[w].conn} : state'[d] = state[d]
    BY <2>1, <2>2 DEF NetTypeOK, Known
  <2>4. job'[w].conn = NoConn /\ \A v \in Workers \ {w} : job'[v] = job[v]
    BY <2>1 DEF NetTypeOK, Idle
  <2>5. \A v \in Workers : job'[v].conn # NoConn =>
           /\ v # w /\ job[v].conn # NoConn /\ job'[v].conn = job[v].conn
           /\ job[v].conn \in Conns /\ job[v].conn # job[w].conn
    BY <2>2, <2>4 DEF NetHeld, NetTypeOK, Jobs
  <2> QED
    BY <2>1, <2>3, <2>4, <2>5 DEF NetHeld
<1> QED
  BY <1>1, <1>2, <1>3, <1>4, NetSteps, MainHeld, ClosingHeld, PickHeld

LEMMA HeldIs == NetTypeOK /\ NetHeld => SocketsHeldOnce
BY DEF NetTypeOK, NetHeld, SocketsHeldOnce, Known

LEMMA AlwaysNetHeld == NetSpec => [](NetTypeOK /\ NetHeld)
<1>1. NetInit => NetTypeOK /\ NetHeld
  <2>1. NetInit => NetHeld
    BY DEF NetInit, NetHeld, Idle
  <2> QED
    BY <2>1, InitNetType
<1>2. NetTypeOK /\ NetHeld /\ [NetNext]_netVars => (NetTypeOK /\ NetHeld)'
  BY NextNetType, NextNetHeld
<1> QED
  BY <1>1, <1>2, PTL DEF NetSpec

\* Whatever order threads and the main thread run in, for any number of either: a
\* socket is in one hand, and neither a thread nor a queue has one that was closed
\* (network_worker.cpp:706, 1079, network.cpp:642).
THEOREM SocketsHeldOnceAlways == NetSpec => []SocketsHeldOnce
BY AlwaysNetHeld, HeldIs, PTL

-----------------------------------------------------------------------------
(* The pool: one receive at a time *)

Count(q, c) == Len(Those(q, {c}))
Polled(c) == IF c \in waiting THEN 1 ELSE 0
ReadBy(c) == {w \in Workers : job[w].conn = c /\ threads[w] \in {"recv", "push"}}
Handed(c) == IF ReadBy(c) = {} THEN 0 ELSE 1

NetOne == \A c \in Conns :
    Polled(c) + Count(receives, c) + Handed(c) + Count(received, c) <= 1

LEMMA CountAppend ==
    ASSUME NEW q \in Seq(Conns), NEW c \in Conns, NEW d \in Conns
    PROVE  /\ Count(q, d) \in Nat
           /\ Count(Append(q, c), d) = IF c = d THEN Count(q, d) + 1 ELSE Count(q, d)
<1>1. Those(q, {d}) \in Seq(Conns \cap {d})
  BY ThoseType
<1>2. Those(Append(q, c), {d}) = IF c \in {d} THEN Append(Those(q, {d}), c) ELSE Those(q, {d})
  BY ThoseAppend
<1> QED
  BY <1>1, <1>2 DEF Count

LEMMA CountTail ==
    ASSUME NEW q \in Seq(Conns), q # <<>>, NEW d \in Conns
    PROVE  Count(q, d) = IF Head(q) = d THEN Count(Tail(q), d) + 1 ELSE Count(Tail(q), d)
<1> DEFINE e == <<>>
           h == Append(e, Head(q))
<1>1. /\ e \in Seq(Conns) /\ Head(q) \in Conns /\ Tail(q) \in Seq(Conns)
      /\ h \in Seq(Conns) /\ q = h \o Tail(q)
  OBVIOUS
<1>2. Those(e, {d}) = <<>>
  BY ThoseEmpty
<1>3. Those(h, {d}) = IF Head(q) = d THEN <<d>> ELSE <<>>
  <2> HIDE DEF e
  <2>1. Those(h, {d}) = IF Head(q) \in {d} THEN Append(Those(e, {d}), Head(q)) ELSE Those(e, {d})
    BY <1>1, ThoseAppend
  <2> QED
    BY <1>2, <2>1
<1> HIDE DEF h
<1>4. Those(q, {d}) = Those(h, {d}) \o Those(Tail(q), {d})
  <2>1. \A S : Those(h \o Tail(q), S) = Those(h, S) \o Those(Tail(q), S)
    BY <1>1, ThoseBoth
  <2> QED
    BY <1>1, <2>1
<1> DEFINE r == Those(Tail(q), {d})
<1>5. r \in Seq(Conns)
  <2>1. r \in Seq(Conns \cap {d})
    BY <1>1, ThoseType
  <2> QED
    BY <2>1
<1> HIDE DEF r
<1>6. Len(<<d>> \o r) = Len(r) + 1 /\ <<>> \o r = r
  BY <1>5
<1>7. Len(Those(q, {d})) = IF Head(q) = d THEN Len(r) + 1 ELSE Len(r)
  BY <1>3, <1>4, <1>6 DEF r
<1> QED
  BY <1>7 DEF Count, r

LEMMA CountNone ==
    ASSUME NEW q \in Seq(Conns), NEW d \in Conns, \A i \in DOMAIN q : q[i] # d
    PROVE  Count(q, d) = 0
<1>1. Those(q, {d}) = <<>>
  BY ThoseNone
<1> QED
  BY <1>1 DEF Count

LEMMA CountErased ==
    ASSUME NEW q \in Seq(Conns), NEW c \in Conns, NEW d \in Conns
    PROVE  Count(NotConn(q, c), d) = IF d = c THEN 0 ELSE Count(q, d)
<1>1. Those(NotConn(q, c), {d}) = IF d = c THEN <<>> ELSE Those(q, {d})
  BY NotConnKept
<1> QED
  BY <1>1 DEF Count

LEMMA CountRemoved ==
    ASSUME NEW q \in Seq(Conns), NEW i \in DOMAIN q, NEW d \in Conns
    PROVE  Count(RemoveAt(q, i), d) = IF q[i] = d THEN Count(q, d) - 1 ELSE Count(q, d)
<1>1. i \in 1..Len(q)
  OBVIOUS
<1>2. /\ q[i] \notin {d} => Those(RemoveAt(q, i), {d}) = Those(q, {d})
      /\ q[i] \in {d} => Len(Those(RemoveAt(q, i), {d})) = Len(Those(q, {d})) - 1
  BY <1>1, RemovedAt
<1> QED
  BY <1>2 DEF Count

\* What a connection has in all lists, as numbers.
LEMMA OneTypes ==
    ASSUME NetTypeOK, NEW c \in Conns
    PROVE  /\ Polled(c) \in {0, 1} /\ Handed(c) \in {0, 1}
           /\ Count(receives, c) \in Nat /\ Count(received, c) \in Nat
BY CountAppend DEF NetTypeOK, Polled, Handed

LEMMA MainOne ==
    ASSUME NetTypeOK, NetHeld, NetOne, NEW c \in Conns,
           Accept(c) \/ Send(c) \/ StartReceive(c) \/ Closes(c) \/ Interrupts(c)
    PROVE  NetOne'
<1> SUFFICES ASSUME NEW d \in Conns
             PROVE  (Polled(d) + Count(receives, d) + Handed(d) + Count(received, d) <= 1)'
  BY DEF NetOne
<1>1. /\ Polled(d) + Count(receives, d) + Handed(d) + Count(received, d) <= 1
      /\ Polled(d) \in {0, 1} /\ Handed(d) \in {0, 1}
      /\ Count(receives, d) \in Nat /\ Count(received, d) \in Nat
  BY OneTypes DEF NetOne
<1>2. receives \in Seq(Conns) /\ received \in Seq(Conns)
  BY DEF NetTypeOK
<1>3. CASE Accept(c)
  <2>1. /\ c \notin open /\ waiting' = waiting \cup {c}
        /\ UNCHANGED <<threads, job, receives, received>>
    BY <1>3 DEF Accept, shardVars
  <2>2. ReadBy(d)' = ReadBy(d)
    BY <2>1 DEF ReadBy
  <2>3. CASE d = c
    <3>1. Count(receives, d) = 0 /\ Count(received, d) = 0
      BY <1>2, <2>1, <2>3, CountNone DEF NetHeld, Known
    <3>2. ReadBy(d) = {}
      BY <2>1, <2>3 DEF ReadBy, NetHeld, NetTypeOK
    <3> QED
      BY <2>1, <2>2, <3>1, <3>2 DEF Polled, Handed
  <2>4. CASE d # c
    BY <1>1, <2>1, <2>2, <2>4 DEF Polled, Handed
  <2> QED
    BY <2>3, <2>4
<1>4. ASSUME Announce(c), UNCHANGED job PROVE Handed(d)' \in {0, 1} /\ Handed(d)' <= Handed(d)
  <2>1. BusyKept(Workers)
    BY <1>4, AnnounceBusy
  <2>2. ReadBy(d)' \subseteq ReadBy(d)
    BY <1>4, <2>1 DEF ReadBy, BusyKept, Busy
  <2> QED
    BY <2>2 DEF Handed
<1>5. CASE Send(c)
  <2>1. Announce(c) /\ UNCHANGED <<job, receives, received, waiting>>
    BY <1>5 DEF Send, mainVars
  <2> QED
    BY <1>1, <1>4, <2>1 DEF Polled
<1>6. CASE StartReceive(c)
  <2>1. /\ Announce(c) /\ UNCHANGED <<job, received>> /\ receives' = Append(receives, c)
        /\ c \in waiting /\ waiting' = waiting \ {c}
    BY <1>6 DEF StartReceive
  <2>2. Count(receives', d) = IF c = d THEN Count(receives, d) + 1 ELSE Count(receives, d)
    BY <1>2, <2>1, CountAppend
  <2>3. Polled(d)' = IF c = d THEN Polled(d) - 1 ELSE Polled(d)
    BY <2>1 DEF Polled
  <2>4. Handed(d)' \in {0, 1} /\ Handed(d)' <= Handed(d) /\ received' = received
    BY <1>4, <2>1
  <2> QED
    BY <1>1, <2>2, <2>3, <2>4
<1>7. CASE Closes(c) \/ Interrupts(c)
  <2>1. /\ UNCHANGED <<threads, job>> /\ waiting' \subseteq waiting
        /\ receives' = NotConn(receives, c)
        /\ received' = received \/ received' = NotConn(received, c)
    BY <1>7 DEF Closes, Interrupts, RemoveBuffers
  <2>2. Handed(d)' = Handed(d) /\ Polled(d)' \in {0, 1} /\ Polled(d)' <= Polled(d)
    BY <2>1 DEF Handed, ReadBy, Polled
  <2>3. /\ Count(NotConn(receives, c), d) = IF d = c THEN 0 ELSE Count(receives, d)
        /\ Count(NotConn(received, c), d) = IF d = c THEN 0 ELSE Count(received, d)
    BY <1>2, CountErased
  <2>4. /\ Count(receives', d) \in Nat /\ Count(receives', d) <= Count(receives, d)
        /\ Count(received', d) \in Nat /\ Count(received', d) <= Count(received, d)
    BY <1>1, <2>1, <2>3
  <2> QED
    BY <1>1, <2>2, <2>4
<1> QED
  BY <1>3, <1>5, <1>6, <1>7

LEMMA PickOne ==
    ASSUME NetTypeOK, NetHeld, NetOne, NEW w \in Workers, NEW c \in Conns,
           PickMsg(w, c) \/ PickReceive(w, c)
    PROVE  NetOne'
<1> SUFFICES ASSUME NEW d \in Conns
             PROVE  (Polled(d) + Count(receives, d) + Handed(d) + Count(received, d) <= 1)'
  BY DEF NetOne
<1>1. /\ Polled(d) + Count(receives, d) + Handed(d) + Count(received, d) <= 1
      /\ Polled(d) \in {0, 1} /\ Handed(d) \in {0, 1}
      /\ Count(receives, d) \in Nat /\ Count(received, d) \in Nat
  BY OneTypes DEF NetOne
<1>2. job[w].conn = NoConn /\ \A v \in Workers : job[v].conn # c
  BY PickHeld
<1>3. /\ UNCHANGED <<received, waiting>>
      /\ \E m, ok : job' = [job EXCEPT ![w] = [conn |-> c, msg |-> m, ok |-> ok]]
  BY DEF PickMsg, PickReceive, mainVars
<1>4. job'[w].conn = c /\ \A v \in Workers \ {w} : job'[v] = job[v]
  BY <1>3 DEF NetTypeOK
<1>5. BusyKept(Workers \ {w}) /\ (PickMsg(w, c) => threads'[w] = "send")
  <2>1. CASE PickMsg(w, c)
    <3>1. PICK t \in {Cleared, threads} : Looking(w, t) /\ threads' \in Leaving(t, w, "send")
      BY <2>1 DEF PickMsg
    <3> QED
      BY <3>1, LeavingBusy DEF Points
  <2>2. CASE PickReceive(w, c) /\ ~ PickMsg(w, c)
    <3>1. PICK t \in {Cleared, threads} : Looking(w, t) /\ threads' \in Leaving(t, w, "recv")
      BY <2>2 DEF PickReceive
    <3> QED
      BY <2>2, <3>1, LeavingBusy DEF Points
  <2> QED
    BY <2>1, <2>2
<1>6. Polled(d)' = Polled(d)
  BY <1>3 DEF Polled
<1>7. CASE PickMsg(w, c)
  <2>1. ReadBy(d)' \subseteq ReadBy(d)
    BY <1>4, <1>5, <1>7 DEF ReadBy, BusyKept, Busy
  <2>2. receives' = receives
    BY <1>7 DEF PickMsg
  <2> QED
    BY <1>1, <1>3, <1>6, <2>1, <2>2 DEF Handed
<1>8. CASE PickReceive(w, c)
  <2>1. PICK i \in DOMAIN receives : receives[i] = c /\ receives' = RemoveAt(receives, i)
    BY <1>8 DEF PickReceive
  <2>2. Count(receives', d) = IF c = d THEN Count(receives, d) - 1 ELSE Count(receives, d)
    BY <2>1, CountRemoved DEF NetTypeOK
  <2>3. d # c => ReadBy(d)' \subseteq ReadBy(d)
    BY <1>4, <1>5 DEF ReadBy, BusyKept, Busy
  <2>4. d = c => ReadBy(d) = {}
    BY <1>2 DEF ReadBy
  <2>5. /\ Handed(d)' \in {0, 1} /\ d # c => Handed(d)' <= Handed(d)
        /\ d = c => Handed(d) = 0
    BY <2>3, <2>4 DEF Handed
  <2>6. Handed(d)' \in {0, 1}
    BY DEF Handed
  <2>7. Handed(d)' <= IF d = c THEN Handed(d) + 1 ELSE Handed(d)
    BY <2>3, <2>4, <2>6 DEF Handed
  <2> QED
    BY <1>1, <1>3, <1>6, <2>2, <2>6, <2>7
<1> QED
  BY <1>7, <1>8

LEMMA ServeOne ==
    ASSUME NetTypeOK, NetHeld, NetOne, NEW w \in Workers, Serves(w)
    PROVE  NetOne'
<1> SUFFICES ASSUME NEW d \in Conns
             PROVE  (Polled(d) + Count(receives, d) + Handed(d) + Count(received, d) <= 1)'
  BY DEF NetOne
<1>1. /\ Polled(d) + Count(receives, d) + Handed(d) + Count(received, d) <= 1
      /\ Polled(d) \in {0, 1} /\ Handed(d) \in {0, 1}
      /\ Count(receives, d) \in Nat /\ Count(received, d) \in Nat
  BY OneTypes DEF NetOne
<1>2. /\ job[w].conn \in Conns /\ \A v \in Workers : job'[v].conn = job[v].conn
      /\ \A v \in Workers \ {w} : job'[v] = job[v] /\ threads'[v] = threads[v]
      /\ UNCHANGED <<receives, waiting>>
  BY ServingSteps
<1>3. Polled(d)' = Polled(d) /\ Handed(d)' \in {0, 1}
  BY <1>2 DEF Polled, Handed
<1>4. CASE CheckLock(w) \/ Write(w) \/ Receive(w)
  <2>1. received' = received
    BY <1>4 DEF CheckLock, Write, Receive
  <2>2. threads'[w] \in {"recv", "push"} => threads[w] \in {"recv", "push"}
    BY <1>4 DEF CheckLock, Write, Receive, GoOn, Finish, NetTypeOK, Points
  <2>3. ReadBy(d)' \subseteq ReadBy(d)
    BY <1>2, <2>2 DEF ReadBy
  <2>4. Handed(d)' <= Handed(d)
    BY <2>3 DEF Handed
  <2> QED
    BY <1>1, <1>2, <1>3, <2>1, <2>4
<1>5. CASE Push(w)
  <2>1. threads[w] = "push" /\ threads'[w] = "report" /\ received' = Append(received, job[w].conn)
    BY <1>5 DEF Push, Finish, NetTypeOK, Points
  <2>2. Count(received', d) = IF job[w].conn = d THEN Count(received, d) + 1
                                                 ELSE Count(received, d)
    <3>1. received \in Seq(Conns)
      BY DEF NetTypeOK
    <3>2. \A c \in Conns : Count(Append(received, c), d) =
             IF c = d THEN Count(received, d) + 1 ELSE Count(received, d)
      BY <3>1, CountAppend
    <3> QED
      BY <1>2, <2>1, <3>2
  <2>3. ReadBy(d)' \subseteq ReadBy(d)
    BY <1>2, <2>1 DEF ReadBy
  <2>4. d = job[w].conn => w \in ReadBy(d) /\ ReadBy(d)' = {}
    <3> SUFFICES ASSUME d = job[w].conn PROVE w \in ReadBy(d) /\ ReadBy(d)' = {}
      OBVIOUS
    <3>1. \A v \in Workers : job[v].conn = d => v = w
      BY <1>2 DEF NetHeld
    <3> QED
      BY <1>2, <2>1, <3>1 DEF ReadBy
  <2>5. Handed(d)' <= IF job[w].conn = d THEN Handed(d) - 1 ELSE Handed(d)
    BY <2>3, <2>4 DEF Handed
  <2> QED
    BY <1>1, <1>2, <1>3, <2>2, <2>5
<1> QED
  BY <1>4, <1>5 DEF Serves

LEMMA NextNetOne == ASSUME NetTypeOK, NetHeld, NetOne, [NetNext]_netVars PROVE NetOne'
<1>1. ASSUME Quiet \/ TakeReceived \/ \E w \in Workers : Report(w), NEW d \in Conns
      PROVE  (Polled(d) + Count(receives, d) + Handed(d) + Count(received, d) <= 1)'
  <2>1. /\ Polled(d) + Count(receives, d) + Handed(d) + Count(received, d) <= 1
        /\ Polled(d) \in {0, 1} /\ Handed(d) \in {0, 1}
        /\ Count(receives, d) \in Nat /\ Count(received, d) \in Nat
    BY OneTypes DEF NetOne
  <2>2. CASE Quiet
    <3>1. ReadBy(d)' \subseteq ReadBy(d)
      BY <2>2 DEF Quiet, ReadBy, BusyKept, Busy
    <3> QED
      BY <2>1, <2>2, <3>1 DEF Quiet, Handed, Polled
  <2>3. CASE TakeReceived
    <3>1. /\ received # <<>> /\ received' = Tail(received)
          /\ waiting' = waiting \cup {Head(received)}
          /\ UNCHANGED <<threads, job, receives>>
      BY <2>3 DEF TakeReceived
    <3>2. Count(received, d) =
             IF Head(received) = d THEN Count(received', d) + 1 ELSE Count(received', d)
      BY <3>1, CountTail DEF NetTypeOK
    <3>3. Count(received', d) \in Nat
      <4>1. received' \in Seq(Conns)
        BY <3>1 DEF NetTypeOK
      <4> QED
        BY <4>1, CountAppend
    <3>4. Handed(d)' = Handed(d)
      BY <3>1 DEF Handed, ReadBy
    <3>5. /\ Head(received) = d => Polled(d)' = 1
          /\ Head(received) # d => Polled(d)' = Polled(d)
      BY <3>1 DEF Polled
    <3>6. CASE Head(received) = d
      BY <2>1, <3>1, <3>2, <3>3, <3>4, <3>5, <3>6
    <3>7. CASE Head(received) # d
      BY <2>1, <3>1, <3>2, <3>3, <3>4, <3>5, <3>7
    <3> QED
      BY <3>6, <3>7
  <2>4. ASSUME NEW w \in Workers, Report(w)
        PROVE  (Polled(d) + Count(receives, d) + Handed(d) + Count(received, d) <= 1)'
    <3>1. /\ job' = [job EXCEPT ![w] = Idle] /\ threads' = [threads EXCEPT ![w] = "loop"]
          /\ UNCHANGED <<receives, received, waiting>>
      BY <2>4 DEF Report, mainVars
    <3>2. ReadBy(d)' \subseteq ReadBy(d)
      BY <3>1 DEF ReadBy, NetTypeOK
    <3> QED
      BY <2>1, <3>1, <3>2 DEF Handed, Polled
  <2> QED
    BY <1>1, <2>2, <2>3, <2>4
<1>2. ASSUME Quiet \/ TakeReceived \/ \E w \in Workers : Report(w) PROVE NetOne'
  BY <1>1, <1>2 DEF NetOne
<1> QED
  BY <1>2, NetSteps, MainOne, PickOne, ServeOne

LEMMA OneIs == NetTypeOK /\ NetHeld /\ NetOne => OneReceive
<1> SUFFICES ASSUME NetTypeOK, NetHeld, NetOne, NEW c \in Conns
             PROVE  Polled(c) + Count(receives, c) + Cardinality(ReadBy(c))
                      + Count(received, c) <= 1
  BY DEF OneReceive, Polled, Count, ReadBy
<1>1. ASSUME NEW w \in ReadBy(c) PROVE ReadBy(c) = {w}
  <2>1. job[w].conn = c /\ c # NoConn
    BY DEF ReadBy
  <2>2. \A v \in Workers : job[v].conn = c => v = w
    BY <2>1 DEF ReadBy, NetHeld
  <2> QED
    BY <2>2 DEF ReadBy
<1>2. Cardinality(ReadBy(c)) = Handed(c)
  BY <1>1, FS_EmptySet, FS_Singleton DEF Handed
<1> QED
  BY <1>2 DEF NetOne

LEMMA AlwaysNetOne == NetSpec => [](NetTypeOK /\ NetHeld /\ NetOne)
<1>1. NetInit => NetOne
  <2> SUFFICES ASSUME NetInit, NEW c \in Conns
               PROVE  Polled(c) + Count(receives, c) + Handed(c) + Count(received, c) <= 1
    BY DEF NetOne
  <2>1. Count(<<>>, c) = 0
    BY ThoseEmpty DEF Count
  <2>2. ReadBy(c) = {} /\ Polled(c) = 0
    BY DEF NetInit, Idle, ReadBy, Polled
  <2>3. receives = <<>> /\ received = <<>>
    BY DEF NetInit
  <2> QED
    BY <2>1, <2>2, <2>3 DEF Handed
<1>2. NetOne /\ (NetTypeOK /\ NetHeld) /\ [NetNext]_netVars => NetOne'
  BY NextNetOne
<1> QED
  BY <1>1, <1>2, AlwaysNetHeld, PTL DEF NetSpec

\* A connection is polled, or queued for one receive, or read from by one thread,
\* or has one message waiting to be taken, for any number of threads
\* (network.cpp:727, 778).
THEOREM OneReceiveAlways == NetSpec => []OneReceive
BY AlwaysNetOne, OneIs, PTL

-----------------------------------------------------------------------------
(* The pool: messages in order *)

Left(c) == Those(outgoing, MsgsTo({c}))
Written(c) == sent[c] - Len(Left(c))

\* The message in hand is the last one taken from the queue; the one delivered
\* last is that one, once it is written, and until it is taken the one before.
InTurn(c) ==
    /\ \A i \in DOMAIN Left(c) : Left(c)[i].msg = Written(c) + i
    /\ (\A w \in Workers : job[w].conn # c) => delivered[c] = Written(c)
    /\ \A w \in Workers : job[w].conn = c =>
          /\ threads[w] \in {"send", "write"} => job[w].msg = Written(c)
          /\ (threads[w] \in {"recv", "push"} \/ (threads[w] = "report" /\ job[w].ok)) =>
                delivered[c] = Written(c)

NetOrder ==
    /\ open \cap closed = {}
    /\ \A c \in Conns :
          /\ state[c] # "absent" => c \in open
          /\ state[c] = "absent" /\ c \notin closed => delivered[c] = sent[c]
          /\ state[c] \in {"ready", "locked", "interrupt"} => InTurn(c)

\* The message in hand is the one after the last that was delivered.
NextUp ==
    \A w \in Workers :
        threads[w] \in {"send", "write"} => job[w].msg = delivered[job[w].conn] + 1

LEMMA LeftType == ASSUME NetTypeOK, NEW c \in Conns
                  PROVE  /\ Left(c) \in Seq(MsgsTo(Conns)) /\ Written(c) \in Int
                         /\ sent[c] \in Int /\ Len(Left(c)) \in Nat
<1>1. Left(c) \in Seq(MsgsTo(Conns) \cap MsgsTo({c}))
  <2> DEFINE C == MsgsTo(Conns)
  <2>1. outgoing \in Seq(C)
    BY DEF NetTypeOK
  <2> HIDE DEF C
  <2>2. \A S : Those(outgoing, S) \in Seq(C \cap S)
    BY <2>1, ThoseType
  <2> QED
    BY <2>2 DEF C, Left
<1>2. sent[c] \in Nat
  BY DEF NetTypeOK
<1> QED
  BY <1>1, <1>2 DEF Written

LEMMA LeftNone == ASSUME NetTypeOK, NetHeld, NEW c \in Conns, c \notin Known
                  PROVE  Left(c) = <<>>
<1>1. \A i \in DOMAIN outgoing : outgoing[i] \notin MsgsTo({c})
  BY DEF NetHeld, MsgsTo
<1>2. Those(outgoing, MsgsTo({c})) = <<>>
  <2> DEFINE C == MsgsTo(Conns)
             S == MsgsTo({c})
  <2>1. outgoing \in Seq(C) /\ \A i \in DOMAIN outgoing : outgoing[i] \notin S
    BY <1>1 DEF NetTypeOK
  <2> HIDE DEF C, S
  <2>2. Those(outgoing, S) = <<>>
    BY <2>1, ThoseNone
  <2> QED
    BY <2>2 DEF S
<1> QED
  BY <1>2 DEF Left

LEMMA InTurnKept ==
    ASSUME NEW c \in Conns, InTurn(c), Left(c)' = Left(c), sent'[c] = sent[c],
           delivered'[c] = delivered[c],
           \A v \in Workers : job[v].conn = c \/ job'[v].conn = c =>
               job'[v] = job[v] /\ threads'[v] = threads[v]
    PROVE  InTurn(c)'
<1>1. Written(c)' = Written(c)
  BY DEF Written
<1> QED
  BY <1>1 DEF InTurn

LEMMA Unlocked == ASSUME NetTypeOK, NetHeld, NEW c \in Conns,
                         state[c] \notin {"locked", "interrupt"}
                  PROVE  \A w \in Workers : job[w].conn # c
BY DEF NetHeld

\* Announce starts with a connection from which nothing is missing.
LEMMA Announced ==
    ASSUME NetTypeOK, NetHeld, NetOrder, NEW c \in Conns, c \in open, Announce(c)
    PROVE  /\ state'[c] = IF state[c] = "absent" THEN "ready" ELSE state[c]
           /\ \A d \in Conns \ {c} : state'[d] = state[d]
           /\ state[c] \in {"absent", "ready", "locked", "interrupt"} => InTurn(c)
<1>1. ASSUME state[c] = "absent" PROVE InTurn(c)
  <2>1. Left(c) = <<>>
    BY <1>1, LeftNone DEF Known
  <2>2. delivered[c] = sent[c] /\ sent[c] \in Nat
    BY <1>1 DEF NetOrder, NetTypeOK
  <2>3. \A w \in Workers : job[w].conn # c
    BY <1>1, Unlocked
  <2> QED
    BY <2>1, <2>2, <2>3 DEF InTurn, Written
<1> QED
  BY <1>1 DEF Announce, NetOrder, NetTypeOK

LEMMA SendOrder ==
    ASSUME NetTypeOK, NetHeld, NetOrder, NEW c \in Conns, Send(c)
    PROVE  NetOrder'
<1> DEFINE m == [conn |-> c, msg |-> sent[c] + 1]
<1>1. /\ Announce(c) /\ c \in open /\ outgoing' = Append(outgoing, m)
      /\ sent' = [sent EXCEPT ![c] = @ + 1] /\ sent[c] + 1 \in 1..MaxSent
      /\ UNCHANGED <<job, open, closed, delivered>>
  BY DEF Send, mainVars, NetTypeOK
<1>2. m \in MsgsTo(Conns) /\ \A d \in Conns : m \in MsgsTo({d}) <=> d = c
  BY <1>1 DEF MsgsTo
<1>3. /\ state'[c] = IF state[c] = "absent" THEN "ready" ELSE state[c]
      /\ \A d \in Conns \ {c} : state'[d] = state[d]
      /\ state[c] \in {"absent", "ready", "locked", "interrupt"} => InTurn(c)
  BY <1>1, Announced
<1>4. \A d \in Conns : Left(d)' = IF d = c THEN Append(Left(d), m) ELSE Left(d)
  <2> DEFINE C == MsgsTo(Conns)
  <2>1. outgoing \in Seq(C) /\ m \in C
    BY <1>2 DEF NetTypeOK
  <2> HIDE DEF C, m
  <2>2. \A S : Those(Append(outgoing, m), S) =
                  IF m \in S THEN Append(Those(outgoing, S), m) ELSE Those(outgoing, S)
    BY <2>1, ThoseAppend
  <2> QED
    BY <1>1, <1>2, <2>2 DEF Left
<1>5. BusyKept(Workers)
  BY <1>1, AnnounceBusy
<1>6. \A v \in Workers, d \in Conns : job[v].conn = d \/ job'[v].conn = d =>
         job'[v] = job[v] /\ threads'[v] = threads[v]
  BY <1>1, <1>5 DEF BusyKept, NetTypeOK
<1>7. ASSUME NEW d \in Conns \ {c}, InTurn(d) PROVE InTurn(d)'
  BY <1>1, <1>4, <1>6, <1>7, InTurnKept DEF NetTypeOK
<1>8. ASSUME InTurn(c) PROVE InTurn(c)'
  <2> DEFINE p == Left(c)
             n == Len(p)
  <2>1. /\ p \in Seq(MsgsTo(Conns)) /\ n \in Nat /\ sent[c] \in Int
    BY LeftType
  <2>2. /\ Left(c)' = Append(p, m) /\ sent'[c] = sent[c] + 1
    BY <1>1, <1>4 DEF NetTypeOK
  <2>3. /\ Len(Append(p, m)) = n + 1 /\ DOMAIN Append(p, m) = 1..(n + 1) /\ DOMAIN p = 1..n
        /\ \A i \in 1..n : Append(p, m)[i] = p[i]
        /\ Append(p, m)[n + 1] = m
    BY <2>1
  <2>4. Written(c)' = Written(c) /\ Written(c) = sent[c] - n
    <3>1. Written(c)' = sent'[c] - Len(Left(c)') /\ Written(c) = sent[c] - n
      BY DEF Written
    <3> QED
      BY <2>1, <2>2, <2>3, <3>1
  <2>5. m.msg = Written(c) + (n + 1)
    BY <2>1, <2>4
  <2>6. \A i \in 1..n : p[i].msg = Written(c) + i
    BY <1>8, <2>3 DEF InTurn
  <2> HIDE DEF p, n, m
  <2>7. \A i \in DOMAIN Append(p, m) : Append(p, m)[i].msg = Written(c) + i
    <3> SUFFICES ASSUME NEW i \in 1..(n + 1) PROVE Append(p, m)[i].msg = Written(c) + i
      BY <2>3
    <3>1. i = n + 1 \/ i \in 1..n
      BY <2>1
    <3> QED
      BY <2>3, <2>5, <2>6, <3>1
  <2> QED
    BY <1>1, <1>6, <1>8, <2>2, <2>4, <2>7 DEF InTurn
<1> QED
  BY <1>1, <1>3, <1>7, <1>8 DEF NetOrder, NetTypeOK

LEMMA MainOrder ==
    ASSUME NetTypeOK, NetHeld, NetOrder, NEW c \in Conns,
           Accept(c) \/ StartReceive(c) \/ Closes(c) \/ Interrupts(c)
    PROVE  NetOrder'
<1>1. CASE Accept(c)
  <2>1. /\ open' = open \cup {c} /\ c \notin closed
        /\ UNCHANGED <<threads, job, state, outgoing, closed, sent, delivered>>
    BY <1>1 DEF Accept, shardVars
  <2> QED
    BY <2>1 DEF NetOrder, InTurn, Written, Left
<1>2. CASE StartReceive(c)
  <2>1. /\ Announce(c) /\ c \in open
        /\ UNCHANGED <<job, outgoing, open, closed, sent, delivered>>
    BY <1>2 DEF StartReceive, NetHeld
  <2>2. /\ state'[c] = IF state[c] = "absent" THEN "ready" ELSE state[c]
        /\ \A d \in Conns \ {c} : state'[d] = state[d]
        /\ state[c] \in {"absent", "ready", "locked", "interrupt"} => InTurn(c)
    BY <2>1, Announced
  <2>3. BusyKept(Workers)
    BY <2>1, AnnounceBusy
  <2>4. \A d \in Conns : InTurn(d) => InTurn(d)'
    BY <2>1, <2>3, InTurnKept DEF BusyKept, NetTypeOK, Left
  <2> QED
    BY <2>1, <2>2, <2>4 DEF NetOrder, NetTypeOK
<1>3. CASE Closes(c)
  <2>1. /\ state' = [state EXCEPT ![c] = "absent"] /\ open' = open \ {c}
        /\ closed' = closed \cup {c} /\ outgoing' = NotMsgs(outgoing, c)
        /\ UNCHANGED <<threads, job, sent, delivered>>
    BY <1>3 DEF Closes, RemoveBuffers
  <2>2. \A d \in Conns \ {c} : Left(d)' = Left(d)
    BY <2>1, NotMsgsKept DEF NetTypeOK, Left
  <2>3. \A d \in Conns \ {c} : InTurn(d) => InTurn(d)'
    BY <2>1, <2>2, InTurnKept
  <2> QED
    BY <2>1, <2>3 DEF NetOrder, NetTypeOK
<1>4. CASE Interrupts(c)
  <2>1. /\ state[c] \in {"locked", "interrupt"} /\ state' = [state EXCEPT ![c] = "interrupt"]
        /\ UNCHANGED <<threads, job, outgoing, open, closed, sent, delivered>>
    BY <1>4 DEF Interrupts
  <2>2. \A d \in Conns : InTurn(d) => InTurn(d)'
    BY <2>1, InTurnKept DEF Left
  <2> QED
    BY <2>1, <2>2 DEF NetOrder, NetTypeOK
<1> QED
  BY <1>1, <1>2, <1>3, <1>4

LEMMA PickOrder ==
    ASSUME NetTypeOK, NetHeld, NetOrder, NEW w \in Workers, NEW c \in Conns,
           PickMsg(w, c) \/ PickReceive(w, c)
    PROVE  NetOrder' /\ (NextUp => NextUp')
<1>1. job[w].conn = NoConn /\ \A v \in Workers : job[v].conn # c
  BY PickHeld
<1>2. /\ state[c] = "ready" /\ state' = [state EXCEPT ![c] = "locked"]
      /\ UNCHANGED <<open, closed, sent, delivered>>
  BY DEF PickMsg, PickReceive, NextMsg, NextReceive, mainVars
<1>3. InTurn(c)
  BY <1>2 DEF NetOrder
<1>4. delivered[c] = Written(c)
  BY <1>1, <1>3 DEF InTurn
<1>5. ASSUME BusyKept(Workers \ {w}), job'[w].conn = c,
             \A v \in Workers \ {w} : job'[v] = job[v],
             \A d \in Conns \ {c} : Left(d)' = Left(d), InTurn(c)',
             threads'[w] \in {"send", "write"} => job'[w].msg = delivered[c] + 1
      PROVE  NetOrder' /\ (NextUp => NextUp')
  <2>1. ASSUME NEW d \in Conns \ {c}, InTurn(d) PROVE InTurn(d)'
    <3>1. \A v \in Workers : job[v].conn = d \/ job'[v].conn = d =>
             job'[v] = job[v] /\ threads'[v] = threads[v]
      BY <1>1, <1>5 DEF BusyKept, NetTypeOK
    <3> QED
      BY <1>2, <1>5, <2>1, <3>1, InTurnKept
  <2>2. NetOrder'
    BY <1>2, <1>5, <2>1 DEF NetOrder, NetTypeOK
  <2>3. ASSUME NextUp PROVE NextUp'
    <3>1. \A v \in Workers \ {w} :
             threads'[v] \in {"send", "write"} => threads'[v] = threads[v]
      BY <1>5 DEF BusyKept, Busy
    <3> QED
      BY <1>2, <1>5, <2>3, <3>1 DEF NextUp
  <2> QED
    BY <2>2, <2>3
<1>6. CASE PickMsg(w, c)
  <2>1. PICK i \in DOMAIN outgoing, t \in {Cleared, threads} :
           /\ Looking(w, t) /\ outgoing[i].conn = c /\ NextMsg(i)
           /\ outgoing' = RemoveAt(outgoing, i)
           /\ job' = [job EXCEPT ![w] = [conn |-> c, msg |-> outgoing[i].msg, ok |-> TRUE]]
           /\ threads' \in Leaving(t, w, "send")
    BY <1>6 DEF PickMsg
  <2>2. threads'[w] = "send" /\ BusyKept(Workers \ {w})
    BY <2>1, LeavingBusy DEF Points
  <2>3. /\ job'[w] = [conn |-> c, msg |-> outgoing[i].msg, ok |-> TRUE]
        /\ \A v \in Workers \ {w} : job'[v] = job[v]
    BY <2>1 DEF NetTypeOK
  <2>4. /\ i \in 1..Len(outgoing) /\ outgoing[i] \in MsgsTo({c})
        /\ \A k \in 1..(i - 1) : outgoing[k] \notin MsgsTo({c})
        /\ \A d \in Conns \ {c} : outgoing[i] \notin MsgsTo({d})
    <3>1. i \in 1..Len(outgoing) /\ outgoing[i] \in MsgsTo(Conns)
      BY DEF NetTypeOK
    <3>2. \A k \in 1..(i - 1) : outgoing[k].conn # c
      BY <1>2, <2>1 DEF NextMsg
    <3> QED
      BY <2>1, <3>1, <3>2 DEF MsgsTo
  <2>5. /\ \A d \in Conns \ {c} : Left(d)' = Left(d)
        /\ Left(c) = <<outgoing[i]>> \o Left(c)'
        /\ outgoing' \in Seq(MsgsTo(Conns))
    <3> DEFINE C == MsgsTo(Conns)
    <3>1. outgoing \in Seq(C) /\ i \in 1..Len(outgoing)
      BY <2>4 DEF NetTypeOK
    <3> HIDE DEF C
    <3>2. /\ RemoveAt(outgoing, i) \in Seq(C)
          /\ \A S : /\ outgoing[i] \notin S => Those(RemoveAt(outgoing, i), S) = Those(outgoing, S)
                    /\ outgoing[i] \in S =>
                          ((\A k \in 1..(i - 1) : outgoing[k] \notin S) =>
                           Those(outgoing, S) = <<outgoing[i]>> \o Those(RemoveAt(outgoing, i), S))
      BY <3>1, RemovedAt
    <3> QED
      BY <2>1, <2>4, <3>2 DEF C, Left
  <2> DEFINE p == Left(c)'
             m == outgoing[i]
  <2>6. p \in Seq(MsgsTo(Conns))
    <3>1. \A S : Those(outgoing', S) \in Seq(MsgsTo(Conns))
      <4> DEFINE C == MsgsTo(Conns)
      <4>1. outgoing' \in Seq(C)
        BY <2>5
      <4> HIDE DEF C
      <4>2. \A S : Those(outgoing', S) \in Seq(C \cap S)
        BY <4>1, ThoseType
      <4>3. \A S : Seq(C \cap S) \subseteq Seq(C)
        OBVIOUS
      <4> QED
        BY <4>2, <4>3 DEF C
    <3> QED
      BY <3>1 DEF Left
  <2>7. m \in MsgsTo(Conns) /\ sent[c] \in Int /\ sent'[c] = sent[c]
    BY <1>2, <2>1, LeftType DEF NetTypeOK
  <2>8. Left(c) = <<m>> \o p
    BY <2>5
  <2>9. job'[w].msg = m.msg
    BY <2>3
  <2> HIDE DEF p, m
  <2> DEFINE r == <<m>> \o p
             n == Len(p)
  <2>10. /\ n \in Nat /\ Len(r) = n + 1 /\ r[1] = m
         /\ DOMAIN p = 1..n /\ DOMAIN r = 1..(n + 1)
         /\ \A k \in 1..n : r[k + 1] = p[k]
    BY <2>6, <2>7
  <2> HIDE DEF r, n
  <2>11. Written(c) = sent[c] - (n + 1)
    BY <2>8, <2>10 DEF Written, r
  <2>12. Written(c)' = sent[c] - n
    <3>1. Written(c)' = sent'[c] - Len(Left(c)')
      BY DEF Written
    <3> QED
      BY <2>7, <3>1 DEF p, n
  <2>13. \A k \in 1..(n + 1) : r[k].msg = Written(c) + k
    BY <1>3, <2>8, <2>10 DEF InTurn, r
  <2>14. m.msg = Written(c)' /\ m.msg = Written(c) + 1
    <3>1. 1 \in 1..(n + 1)
      BY <2>10
    <3>2. m.msg = Written(c) + 1
      BY <2>10, <2>13, <3>1
    <3>3. Written(c)' = Written(c) + 1
      BY <2>7, <2>10, <2>11, <2>12
    <3> QED
      BY <3>2, <3>3
  <2>15. \A k \in DOMAIN p : p[k].msg = Written(c)' + k
    <3> SUFFICES ASSUME NEW k \in 1..n PROVE p[k].msg = Written(c)' + k
      BY <2>10
    <3>1. k + 1 \in 1..(n + 1) /\ p[k] = r[k + 1]
      BY <2>10
    <3>2. p[k].msg = Written(c) + (k + 1)
      BY <2>13, <3>1
    <3>3. k \in Int /\ Written(c)' = Written(c) + 1 /\ Written(c) \in Int
      BY <2>7, <2>10, <2>11, <2>12
    <3> QED
      BY <3>2, <3>3
  <2>16. \A v \in Workers : job'[v].conn = c => v = w
    BY <1>1, <2>3
  <2>17. InTurn(c)'
    <3>1. /\ \A k \in DOMAIN Left(c)' : Left(c)'[k].msg = Written(c)' + k
      BY <2>15 DEF p
    <3>2. job'[w].conn = c
      BY <2>3
    <3>3. \A v \in Workers : job'[v].conn = c =>
             v = w /\ threads'[v] = "send" /\ job'[v].msg = Written(c)'
      BY <2>2, <2>9, <2>14, <2>16
    <3> QED
      BY <3>1, <3>2, <3>3 DEF InTurn
  <2> QED
    BY <1>4, <1>5, <2>2, <2>3, <2>5, <2>9, <2>14, <2>17
<1>7. CASE PickReceive(w, c)
  <2>1. PICK t \in {Cleared, threads} :
           /\ Looking(w, t)
           /\ job' = [job EXCEPT ![w] = [conn |-> c, msg |-> 0, ok |-> TRUE]]
           /\ threads' \in Leaving(t, w, "recv")
    BY <1>7 DEF PickReceive
  <2>2. threads'[w] = "recv" /\ BusyKept(Workers \ {w})
    BY <2>1, LeavingBusy DEF Points
  <2>3. /\ job'[w] = [conn |-> c, msg |-> 0, ok |-> TRUE]
        /\ \A v \in Workers \ {w} : job'[v] = job[v]
    BY <2>1 DEF NetTypeOK
  <2>4. outgoing' = outgoing
    BY <1>7 DEF PickReceive
  <2>5. \A d \in Conns : Left(d)' = Left(d)
    BY <2>4 DEF Left
  <2>6. Written(c)' = Written(c)
    BY <1>2, <2>5 DEF Written
  <2>7. \A v \in Workers : job'[v].conn = c => v = w
    BY <1>1, <2>3
  <2>8. InTurn(c)'
    BY <1>2, <1>3, <1>4, <2>2, <2>3, <2>5, <2>6, <2>7 DEF InTurn
  <2> QED
    BY <1>5, <2>2, <2>3, <2>5, <2>8
<1> QED
  BY <1>6, <1>7

LEMMA ServeOrder ==
    ASSUME NetTypeOK, NetHeld, NetOrder, NEW w \in Workers, Serves(w)
    PROVE  NetOrder'
<1> PICK c \in Conns : job[w].conn = c
  BY ServingSteps
<1>1. /\ c \in Conns /\ \A v \in Workers : job'[v].conn = job[v].conn
      /\ \A v \in Workers \ {w} : job'[v] = job[v] /\ threads'[v] = threads[v]
      /\ UNCHANGED <<state, outgoing, open, closed, sent>>
  BY ServingSteps
<1>2. \A d \in Conns : Left(d)' = Left(d) /\ Written(d)' = Written(d)
  BY <1>1 DEF Left, Written
<1>3. c # NoConn /\ state[c] \in {"locked", "interrupt"} /\ \A v \in Workers : job[v].conn = c => v = w
  BY <1>1 DEF NetHeld
<1>4. InTurn(c)
  BY <1>1, <1>3 DEF NetOrder
<1>5. \A d \in Conns \ {c} : delivered'[d] = delivered[d]
  BY <1>1 DEF Serves, CheckLock, Write, Receive, Push, NetTypeOK
<1>6. ASSUME NEW d \in Conns \ {c}, InTurn(d) PROVE InTurn(d)'
  <2>1. \A v \in Workers : job[v].conn = d \/ job'[v].conn = d =>
           job'[v] = job[v] /\ threads'[v] = threads[v]
    BY <1>1
  <2> QED
    BY <1>1, <1>2, <1>5, <1>6, <2>1, InTurnKept
<1>7. threads[w] = "send" \/ threads[w] = "write" => job[w].msg = Written(c)
  BY <1>4 DEF InTurn
<1>8. threads[w] \in {"recv", "push"} => delivered[c] = Written(c)
  BY <1>4 DEF InTurn
<1>9. \/ threads'[w] = "report" /\ ~ job'[w].ok
      \/ threads'[w] = "write" /\ job'[w].msg = Written(c)
      \/ threads'[w] \in {"push", "report"} /\ delivered'[c] = Written(c)
  <2>1. CASE CheckLock(w)
    BY <1>7, <2>1 DEF CheckLock, GoOn, Finish, NetTypeOK, Points, Jobs
  <2>2. CASE Write(w)
    BY <1>1, <1>7, <2>2 DEF Write, Finish, NetTypeOK, Points, Jobs
  <2>3. CASE Receive(w)
    BY <1>8, <2>3 DEF Receive, GoOn, Finish, NetTypeOK, Points, Jobs
  <2>4. CASE Push(w)
    BY <1>8, <2>4 DEF Push, Finish, NetTypeOK, Points, Jobs
  <2> QED
    BY <2>1, <2>2, <2>3, <2>4 DEF Serves
<1>10. InTurn(c)'
  <2>1. \A i \in DOMAIN Left(c)' : Left(c)'[i].msg = Written(c)' + i
    BY <1>1, <1>2, <1>4 DEF InTurn
  <2>2. job'[w].conn = c /\ \A v \in Workers : job'[v].conn = c => v = w
    BY <1>1, <1>3
  <2>3. Written(c)' = Written(c)
    BY <1>1, <1>2
  <2> QED
    BY <1>9, <2>1, <2>2, <2>3 DEF InTurn
<1> QED
  BY <1>1, <1>3, <1>5, <1>6, <1>10 DEF NetOrder

LEMMA ReportOrder ==
    ASSUME NetTypeOK, NetHeld, NetOrder, NEW w \in Workers, Report(w)
    PROVE  NetOrder'
<1> PICK c \in Conns : job[w].conn = c
  BY DEF Report, NetTypeOK, Busy, Jobs
<1>1. /\ threads[w] = "report" /\ job' = [job EXCEPT ![w] = Idle]
      /\ state' = [state EXCEPT ![c] = IF job[w].ok THEN "ready" ELSE "errored"]
      /\ threads' = [threads EXCEPT ![w] = "loop"]
      /\ UNCHANGED <<outgoing, open, closed, sent, delivered>>
  BY DEF Report, mainVars
<1>2. c \in Conns /\ c # NoConn
  OBVIOUS
<1>3. /\ c \in open /\ state[c] \in {"locked", "interrupt"}
      /\ \A v \in Workers : job[v].conn = c => v = w
  BY <1>2 DEF NetHeld
<1>4. /\ job'[w].conn = NoConn
      /\ \A v \in Workers \ {w} : job'[v] = job[v] /\ threads'[v] = threads[v]
  BY <1>1 DEF NetTypeOK, Idle
<1>5. \A d \in Conns : Left(d)' = Left(d) /\ Written(d)' = Written(d)
  BY <1>1 DEF Left, Written
<1>6. ASSUME NEW d \in Conns \ {c}, InTurn(d) PROVE InTurn(d)'
  <2>1. \A v \in Workers : job[v].conn = d \/ job'[v].conn = d =>
           job'[v] = job[v] /\ threads'[v] = threads[v]
    BY <1>4
  <2> QED
    BY <1>1, <1>5, <1>6, <2>1, InTurnKept
<1>7. InTurn(c)
  BY <1>2, <1>3 DEF NetOrder
<1>8. job[w].ok => delivered[c] = Written(c)
  BY <1>1, <1>7 DEF InTurn
<1>9. ASSUME job[w].ok PROVE InTurn(c)'
  <2>1. \A v \in Workers : job'[v].conn # c
    BY <1>2, <1>3, <1>4
  <2>2. delivered'[c] = Written(c)'
    BY <1>1, <1>2, <1>5, <1>8, <1>9
  <2>3. \A i \in DOMAIN Left(c)' : Left(c)'[i].msg = Written(c)' + i
    BY <1>2, <1>5, <1>7 DEF InTurn
  <2> QED
    BY <2>1, <2>2, <2>3 DEF InTurn
<1>10. /\ state'[c] = IF job[w].ok THEN "ready" ELSE "errored"
       /\ \A d \in Conns \ {c} : state'[d] = state[d]
  BY <1>1, <1>2 DEF NetTypeOK
<1> QED
  BY <1>1, <1>2, <1>3, <1>6, <1>9, <1>10 DEF NetOrder

LEMMA NextNetOrder == ASSUME NetTypeOK, NetHeld, NetOrder, [NetNext]_netVars PROVE NetOrder'
<1>1. CASE Quiet
  <2>1. \A c \in Conns, v \in Workers : job[v].conn = c => threads'[v] = threads[v]
    BY <1>1 DEF Quiet, BusyKept, NetTypeOK
  <2>2. \A c \in Conns : InTurn(c) => InTurn(c)'
    BY <1>1, <2>1, InTurnKept DEF Quiet, Left
  <2> QED
    BY <1>1, <2>2 DEF Quiet, NetOrder
<1>2. CASE TakeReceived
  BY <1>2 DEF TakeReceived, NetOrder, InTurn, Written, Left
<1> QED
  BY <1>1, <1>2, NetSteps, SendOrder, MainOrder, PickOrder, ServeOrder, ReportOrder

LEMMA OrderIs == NetOrder => MessagesInOrder
BY DEF NetOrder, InTurn, Written, Left, MessagesInOrder

LEMMA AlwaysNetOrder == NetSpec => []NetOrder
<1>1. NetInit => NetOrder
  BY DEF NetInit, NetOrder
<1>2. NetOrder /\ (NetTypeOK /\ NetHeld) /\ [NetNext]_netVars => NetOrder'
  BY NextNetOrder
<1> QED
  BY <1>1, <1>2, AlwaysNetHeld, PTL DEF NetSpec

\* Messages to a connection leave in the order they were queued and without a gap,
\* whichever threads take them, and whatever is received, interrupted or closed
\* meanwhile (network_worker.cpp:692, 718).
THEOREM MessagesInOrderAlways == NetSpec => []MessagesInOrder
BY AlwaysNetOrder, OrderIs, PTL

-----------------------------------------------------------------------------
(* The pool: it is a link *)

\* What waits for its disconnection is or was open.
Asked == queue \in Seq(open \cup closed)

LinkIInv == (NetTypeOK /\ NetHeld) /\ NetOne /\ NetOrder /\ NextUp /\ Asked

LEMMA NextNextUp == ASSUME NetTypeOK, NetHeld, NetOrder, NextUp, [NetNext]_netVars PROVE NextUp'
<1>1. ASSUME BusyKept(Workers), UNCHANGED <<job, delivered>> PROVE NextUp'
  BY <1>1 DEF NextUp, BusyKept, Busy
<1>2. ASSUME NEW c \in Conns, Send(c) \/ StartReceive(c) PROVE NextUp'
  <2>1. BusyKept(Workers) /\ UNCHANGED <<job, delivered>>
    BY <1>2, AnnounceBusy DEF Send, StartReceive
  <2> QED
    BY <1>1, <2>1
<1>3. CASE Quiet \/ TakeReceived \/ \E c \in Conns : Accept(c) \/ Closes(c) \/ Interrupts(c)
  BY <1>3 DEF Quiet, TakeReceived, Accept, shardVars, Closes, Interrupts, BusyKept, NextUp, Busy
<1>4. ASSUME NEW w \in Workers, Serves(w) PROVE NextUp'
  <2>1. /\ job[w].conn \in Conns
        /\ \A v \in Workers : job'[v].conn = job[v].conn
        /\ \A v \in Workers \ {w} : job'[v] = job[v] /\ threads'[v] = threads[v]
    BY <1>4, ServingSteps
  <2>2. /\ threads'[w] \in {"send", "write"} =>
              threads[w] \in {"send", "write"} /\ job'[w] = job[w] /\ delivered' = delivered
        /\ \A c \in Conns \ {job[w].conn} : delivered'[c] = delivered[c]
    BY <1>4 DEF Serves, CheckLock, Write, Receive, Push, GoOn, Finish, NetTypeOK, Points
  <2>3. ASSUME NEW v \in Workers \ {w}, threads[v] \in {"send", "write"}
        PROVE  delivered'[job[v].conn] = delivered[job[v].conn]
    <3>1. job[v].conn \in Conns
      BY <2>3 DEF NetTypeOK, Busy, Jobs
    <3>2. job[v].conn # job[w].conn
      BY <2>1, <2>3, <3>1 DEF NetHeld, NetTypeOK, NetAssumption, Jobs, Busy
    <3> QED
      BY <2>2, <3>1, <3>2
  <2>4. \A v \in Workers \ {w} : threads'[v] \in {"send", "write"} =>
           job'[v].msg = delivered'[job'[v].conn] + 1
    BY <2>1, <2>3 DEF NextUp
  <2>5. threads'[w] \in {"send", "write"} => job'[w].msg = delivered'[job'[w].conn] + 1
    BY <2>1, <2>2 DEF NextUp
  <2> QED
    BY <2>4, <2>5 DEF NextUp
<1>5. ASSUME NEW w \in Workers, Report(w) PROVE NextUp'
  BY <1>5 DEF NetTypeOK, Report, mainVars, NextUp
<1> QED
  BY <1>2, <1>3, <1>4, <1>5, NetSteps, PickOrder

\* The program gives up what is open; what was given up is taken out of the
\* queue when it is closed.
LEMMA NextAsked == ASSUME NetTypeOK, Asked, [NetNext]_netVars PROVE Asked'
<1> DEFINE A == open \cup closed
<1>1. ASSUME A \subseteq A', queue' = queue PROVE Asked'
  <2>1. Seq(A) \subseteq Seq(A')
    BY <1>1
  <2> QED
    BY <1>1, <2>1 DEF Asked
<1>2. ASSUME NEW q \in Seq(A), NEW c \in Conns, c \in A, NEW badly, Disconnect(c, q, badly)
      PROVE  Asked'
  <2>1. A' = A /\ queue' \in {q, RemoveFirst(q, c)}
    BY <1>2 DEF Disconnect, Forget
  <2>2. RemoveFirst(q, c) \in Seq(A)
    BY RemoveFirstType
  <2> QED
    BY <2>1, <2>2 DEF Asked
<1>3. ASSUME NEW c \in Conns, QueueDisconnect(c) PROVE Asked'
  <2>1. c \in A /\ queue' = Append(queue, c) /\ A' = A
    BY <1>3 DEF QueueDisconnect
  <2> QED
    BY <2>1 DEF Asked
<1>4. CASE DisconnectQueued
  <2>1. Head(queue) \in A /\ Tail(queue) \in Seq(A) /\ Head(queue) \in Conns
    BY <1>4 DEF DisconnectQueued, Asked, NetTypeOK
  <2> QED
    BY <1>2, <1>4, <2>1 DEF DisconnectQueued
<1>5. ASSUME NEW c \in Conns, Reject(c) \/ CloseConnection(c) PROVE Asked'
  BY <1>2, <1>5 DEF Reject, CloseConnection, Asked
<1>6. ASSUME NEW c \in Conns, DetectError(c) PROVE Asked'
  <2>1. A \subseteq A' /\ queue' = RemoveFirst(queue, c)
    BY <1>6 DEF DetectError, Forget
  <2>2. RemoveFirst(queue, c) \in Seq(A)
    BY RemoveFirstType DEF Asked
  <2>3. Seq(A) \subseteq Seq(A')
    BY <2>1
  <2> QED
    BY <2>1, <2>2, <2>3 DEF Asked
<1>7. CASE \/ UNCHANGED netVars
           \/ TakeReceived \/ DetectNone \/ Shutdown \/ StopManaging \/ NotifyAll \/ JoinAll
           \/ \E c \in Conns : Accept(c) \/ Send(c) \/ StartReceive(c)
  BY <1>1, <1>7 DEF netVars, mainVars, TakeReceived, DetectNone, Shutdown, StopManaging, NotifyAll,
     JoinAll, Accept, Send, StartReceive
<1>8. ASSUME NEW w \in Workers, Worker(w) PROVE Asked'
  <2>1. UNCHANGED mainVars
    BY <1>8 DEF Worker, PickMsg, PickReceive, Rest, Exit, CheckLock, Write, Receive, Push, Report
  <2> QED
    BY <1>1, <2>1 DEF mainVars
<1> QED
  BY <1>3, <1>4, <1>5, <1>6, <1>7, <1>8 DEF NetNext, Poll, Stop

LEMMA AlwaysLinkIInv == NetSpec => []LinkIInv
<1>1. NetInit => NextUp /\ Asked
  BY DEF NetInit, NextUp, Asked
<1>2. /\ NextUp /\ Asked /\ (NetTypeOK /\ NetHeld) /\ NetOrder /\ [NetNext]_netVars
      => (NextUp /\ Asked)'
  BY NextNextUp, NextAsked
<1>3. NetSpec => [](NextUp /\ Asked)
  BY <1>1, <1>2, AlwaysNetHeld, AlwaysNetOrder, PTL DEF NetSpec
<1>4. (NetTypeOK /\ NetHeld /\ NetOne) /\ NetOrder /\ (NextUp /\ Asked) => LinkIInv
  BY DEF LinkIInv
<1> QED
  BY <1>3, <1>4, AlwaysNetOne, AlwaysNetOrder, PTL

\* The state of the link.
Ends == [c \in Conns |-> PlaceOf(c)]
Boxes == [c \in Conns |-> Count(received, c)]
linkState == <<Ends, sent, delivered, Boxes>>

LEMMA BoxesAre == Boxes = [c \in Conns |-> Len(Those(received, {c}))]
BY DEF Boxes, Count

LEMMA InitLink == NetInit => Promised!LinkInit
<1> SUFFICES ASSUME NetInit PROVE Promised!LinkInit
  OBVIOUS
<1>1. \A c \in Conns : Len(Those(received, {c})) = 0
  BY ThoseEmpty DEF NetInit
<1>2. Ends \in [Conns -> {"new", "gone"}]
  BY DEF NetInit, Ends, PlaceOf
<1>3. sent \in [Conns -> Nat] /\ delivered = sent
  BY DEF NetInit, NetAssumption
<1> QED
  BY <1>1, <1>2, <1>3 DEF Promised!LinkInit, Ends

LEMMA LinkRests == ASSUME UNCHANGED <<open, closed, sent, delivered, received>>
                   PROVE  UNCHANGED linkState
<1>1. \A c \in Conns : PlaceOf(c)' = PlaceOf(c) /\ Count(received, c)' = Count(received, c)
  BY DEF PlaceOf, Count
<1> QED
  BY <1>1 DEF linkState, Ends, Boxes

\* A new connection is open, and what it sends waits to leave.
LEMMA AcceptLinks == ASSUME LinkIInv, NEW c \in Conns, Accept(c)
                     PROVE  Promised!Connect(c)
<1>1. /\ c \notin open /\ c \notin closed /\ open' = open \cup {c}
      /\ UNCHANGED <<closed, sent, delivered, received>>
  BY DEF Accept, shardVars
<1>2. PlaceOf(c) = "new" /\ Ends' = [Ends EXCEPT ![c] = "open"]
  BY <1>1 DEF PlaceOf, Ends
<1>3. Boxes' = Boxes
  BY <1>1 DEF Boxes, Count
<1> QED
  BY <1>1, <1>2, <1>3, BoxesAre DEF Promised!Connect, Ends, Boxes, Count

LEMMA SendLinks == ASSUME LinkIInv, NEW c \in Conns, Send(c)
                   PROVE  Promised!Send(c)
<1>1. /\ c \in open /\ sent' = [sent EXCEPT ![c] = @ + 1]
      /\ UNCHANGED <<open, closed, delivered, received>>
  BY DEF Send, mainVars
<1>2. PlaceOf(c) = "open" /\ Ends' = Ends /\ Boxes' = Boxes
  BY <1>1 DEF PlaceOf, Ends, Boxes, Count
<1> QED
  BY <1>1, <1>2 DEF Promised!Send, Ends, Boxes, Count

\* What is closed was open: it has no message left that came in, and the other
\* connections keep theirs.
LEMMA ClosesLinks == ASSUME LinkIInv, NEW c \in Conns, c \in open \cup closed, Closes(c)
                     PROVE  Promised!Close(c) \/ UNCHANGED linkState
<1>1. /\ open' = open \ {c} /\ closed' = closed \cup {c} /\ UNCHANGED <<sent, delivered>>
      /\ received' = NotConn(received, c)
  BY DEF Closes, RemoveBuffers
<1>2. /\ received \in Seq(Conns) /\ open \cap closed = {}
      /\ \A i \in DOMAIN received : received[i] \in open
  BY DEF LinkIInv, NetTypeOK, NetHeld, NetOrder
<1>3. \A d \in Conns : Count(received', d) = IF d = c THEN 0 ELSE Count(received, d)
  BY <1>1, <1>2, CountErased
<1>4. Boxes' = [Boxes EXCEPT ![c] = 0]
  BY <1>3 DEF Boxes, Count
<1>5. CASE c \in open
  <2>1. PlaceOf(c) = "open" /\ Ends' = [Ends EXCEPT ![c] = "gone"]
    BY <1>1, <1>5 DEF PlaceOf, Ends
  <2> QED
    BY <1>1, <1>4, <2>1 DEF Promised!Close, Ends, Boxes, Count
<1>6. CASE c \notin open
  <2>1. Count(received, c) = 0
    <3>1. \A i \in DOMAIN received : received[i] # c
      BY <1>2, <1>6
    <3> QED
      BY <1>2, <3>1, CountNone
  <2>2. Boxes' = Boxes
    BY <1>4, <2>1 DEF Boxes
  <2>3. Ends' = Ends
    BY <1>1, <1>6 DEF PlaceOf, Ends
  <2> QED
    BY <1>1, <2>2, <2>3 DEF linkState
<1> QED
  BY <1>5, <1>6

LEMMA TakeLinks == ASSUME LinkIInv, TakeReceived
                   PROVE  \E c \in Conns : Promised!Take(c)
<1> DEFINE c == Head(received)
<1>1. /\ received # <<>> /\ received' = Tail(received)
      /\ UNCHANGED <<open, closed, sent, delivered>>
  BY DEF TakeReceived
<1>2. received \in Seq(Conns) /\ c \in Conns /\ Tail(received) \in Seq(Conns)
  BY <1>1 DEF LinkIInv, NetTypeOK
<1>3. \A d \in Conns : /\ Count(received, d) = IF c = d THEN Count(received', d) + 1
                                                        ELSE Count(received', d)
                       /\ Count(received', d) \in Nat
  BY <1>1, <1>2, CountTail, CountAppend
<1>4. Count(received, c) <= 1
  BY <1>2, OneTypes DEF LinkIInv, NetOne
<1>5. Count(received, c) = 1 /\ Boxes' = [Boxes EXCEPT ![c] = 0]
  <2>1. Count(received, c) = 1 /\ Count(received', c) = 0
    BY <1>2, <1>3, <1>4
  <2>2. \A d \in Conns : Count(received', d) = IF d = c THEN 0 ELSE Count(received, d)
    BY <1>3, <2>1
  <2>3. Boxes' = [d \in Conns |-> Count(received', d)]
    BY DEF Boxes, Count
  <2> HIDE DEF c
  <2> QED
    BY <1>2, <2>1, <2>2, <2>3 DEF Boxes
<1>6. Ends' = Ends
  BY <1>1 DEF PlaceOf, Ends
<1>7. Promised!Take(c)
  BY <1>1, <1>2, <1>5, <1>6 DEF Promised!Take, Ends, Boxes, Count
<1> QED
  BY <1>2, <1>7

\* A worker that writes, writes the next message of an open connection.
LEMMA WriteLinks == ASSUME LinkIInv, NEW w \in Workers, Write(w)
                    PROVE  (\E c \in Conns : Promised!Leave(c)) \/ UNCHANGED linkState
<1> DEFINE c == job[w].conn
<1>1. threads[w] = "write" /\ UNCHANGED <<open, closed, sent, received>>
  BY DEF Write, mainVars
<1>2. c \in Conns /\ c \in open /\ state[c] \in {"locked", "interrupt"}
  BY <1>1 DEF LinkIInv, NetTypeOK, NetHeld, Busy, Jobs, NetAssumption
<1>3. job[w].msg = delivered[c] + 1 /\ job[w].msg = Written(c)
  BY <1>1, <1>2 DEF LinkIInv, NextUp, NetOrder, InTurn
<1>4. delivered[c] < sent[c]
  <2>1. sent[c] \in Int /\ Len(Left(c)) \in Nat /\ delivered[c] \in Int
    BY <1>2, LeftType DEF LinkIInv, NetTypeOK
  <2> QED
    BY <1>3, <2>1 DEF Written
<1>5. CASE UNCHANGED delivered
  BY <1>1, <1>5, LinkRests
<1>6. CASE delivered' = [delivered EXCEPT ![c] = job[w].msg]
  <2>1. delivered' = [delivered EXCEPT ![c] = @ + 1]
    BY <1>2, <1>3, <1>6 DEF LinkIInv, NetTypeOK
  <2>2. PlaceOf(c) = "open" /\ Ends' = Ends /\ Boxes' = Boxes
    BY <1>1, <1>2 DEF PlaceOf, Ends, Boxes, Count
  <2>3. Promised!Leave(c)
    BY <1>1, <1>2, <1>4, <2>1, <2>2 DEF Promised!Leave, Ends, Boxes, Count
  <2> QED
    BY <1>2, <2>3
<1> QED
  BY <1>5, <1>6 DEF Write

\* What a worker hands over finds the box empty.
LEMMA PushLinks == ASSUME LinkIInv, NEW w \in Workers, Push(w)
                   PROVE  \E c \in Conns : Promised!ComeIn(c)
<1> DEFINE c == job[w].conn
<1>1. /\ threads[w] = "push" /\ received' = Append(received, c)
      /\ UNCHANGED <<open, closed, sent, delivered>>
  BY DEF Push, mainVars
<1>2. c \in Conns /\ c \in open /\ received \in Seq(Conns)
  BY <1>1 DEF LinkIInv, NetTypeOK, NetHeld, Busy, Jobs, NetAssumption
<1>3. \A d \in Conns : Count(received', d) = IF c = d THEN Count(received, d) + 1
                                                      ELSE Count(received, d)
  BY <1>1, <1>2, CountAppend
<1>4. Handed(c) = 1
  BY <1>1 DEF Handed, ReadBy
<1>5. Count(received, c) = 0
  <2>1. Polled(c) + Count(receives, c) + Handed(c) + Count(received, c) <= 1
    BY <1>2 DEF LinkIInv, NetOne
  <2> QED
    BY <1>2, <1>4, <2>1, OneTypes DEF LinkIInv
<1>6. Boxes' = [Boxes EXCEPT ![c] = 1]
  <2>1. \A d \in Conns : Count(received', d) = IF d = c THEN 1 ELSE Count(received, d)
    BY <1>3, <1>5
  <2>2. Boxes' = [d \in Conns |-> Count(received', d)]
    BY DEF Boxes, Count
  <2> HIDE DEF c
  <2> QED
    BY <1>2, <2>1, <2>2 DEF Boxes
<1>7. PlaceOf(c) = "open" /\ Ends' = Ends
  BY <1>1, <1>2 DEF PlaceOf, Ends
<1>8. Promised!ComeIn(c)
  BY <1>1, <1>2, <1>5, <1>6, <1>7 DEF Promised!ComeIn, Ends, Boxes, Count
<1> QED
  BY <1>2, <1>8

\* Which steps close a connection: only of one that is or was open.
LEMMA ClosedWasOpen ==
    ASSUME LinkIInv,
           \/ DisconnectQueued
           \/ \E c \in Conns : Reject(c) \/ CloseConnection(c) \/ DetectError(c)
    PROVE  \E c \in Conns : (c \in open \cup closed /\ Closes(c)) \/ Interrupts(c)
<1>1. ASSUME NEW c \in Conns, NEW q, NEW badly, Disconnect(c, q, badly), c \in open \cup closed,
             UNCHANGED <<threads, job, sent, delivered>>
      PROVE  (c \in open \cup closed /\ Closes(c)) \/ Interrupts(c)
  BY <1>1 DEF Disconnect, Forget, Closes, Interrupts
<1>2. CASE DisconnectQueued
  <2>1. Head(queue) \in Conns /\ Head(queue) \in open \cup closed
    BY <1>2 DEF LinkIInv, NetTypeOK, Asked, DisconnectQueued
  <2> QED
    BY <1>1, <1>2, <2>1 DEF DisconnectQueued
<1>3. ASSUME NEW c \in Conns, Reject(c) \/ CloseConnection(c)
      PROVE  (c \in open \cup closed /\ Closes(c)) \/ Interrupts(c)
  BY <1>1, <1>3 DEF Reject, CloseConnection
<1>4. ASSUME NEW c \in Conns, DetectError(c) PROVE c \in open \cup closed /\ Closes(c)
  BY <1>4 DEF DetectError, Forget, Closes, LinkIInv, NetOrder
<1> QED
  BY <1>2, <1>3, <1>4

LEMMA NextLink == ASSUME LinkIInv, [NetNext]_netVars
                  PROVE  [Promised!LinkNext]_linkState
<1>1. ASSUME NEW c \in Conns, Accept(c) \/ Send(c) PROVE Promised!LinkNext
  BY <1>1, AcceptLinks, SendLinks DEF Promised!LinkNext
<1>2. ASSUME NEW c \in Conns, StartReceive(c) PROVE UNCHANGED linkState
  BY <1>2, LinkRests DEF StartReceive
<1>3. CASE \/ DisconnectQueued
           \/ \E c \in Conns : Reject(c) \/ CloseConnection(c) \/ DetectError(c)
  <2>1. PICK c \in Conns : (c \in open \cup closed /\ Closes(c)) \/ Interrupts(c)
    BY <1>3, ClosedWasOpen
  <2>2. CASE c \in open \cup closed /\ Closes(c)
    BY <2>2, ClosesLinks DEF Promised!LinkNext
  <2>3. CASE Interrupts(c)
    BY <2>3, LinkRests DEF Interrupts
  <2> QED
    BY <2>1, <2>2, <2>3
<1>4. CASE TakeReceived
  BY <1>4, TakeLinks DEF Promised!LinkNext
<1>5. ASSUME NEW w \in Workers, NEW c \in Conns, PickMsg(w, c) \/ PickReceive(w, c)
      PROVE  UNCHANGED linkState
  BY <1>5, LinkRests DEF PickMsg, PickReceive, mainVars
<1>6. ASSUME NEW w \in Workers, CheckLock(w) \/ Receive(w) \/ Report(w)
      PROVE  UNCHANGED linkState
  BY <1>6, LinkRests DEF CheckLock, Receive, Report, mainVars
<1>7. ASSUME NEW w \in Workers, Write(w) \/ Push(w)
      PROVE  Promised!LinkNext \/ UNCHANGED linkState
  BY <1>7, WriteLinks, PushLinks DEF Promised!LinkNext
<1>8. CASE Quiet
  BY <1>8, LinkRests DEF Quiet
<1>9. CASE UNCHANGED netVars
  BY <1>9, LinkRests DEF netVars, shardVars, mainVars
<1>10. \/ Shutdown \/ StopManaging \/ NotifyAll \/ JoinAll \/ DetectNone
       \/ (\E c \in Conns : QueueDisconnect(c))
       \/ (\E w \in Workers : Rest(w) \/ Exit(w))
       => Quiet
  BY RestingSteps DEF LinkIInv
<1> QED
  BY <1>1, <1>2, <1>3, <1>4, <1>5, <1>6, <1>7, <1>8, <1>9, <1>10 DEF NetNext, Poll, Stop, Worker

\* Whatever the program and the threads do, each connection is as the link
\* promises: what it sends leaves in turn while it is open, one message that
\* came in waits, and nothing outlives it (network.cpp:627, network_worker.cpp:689).
THEOREM ImplementsLink == NetSpec => LinkSpec
<1>1. NetInit => Promised!LinkInit
  BY InitLink
<1>2. LinkIInv /\ [NetNext]_netVars => [Promised!LinkNext]_Promised!linkVars
  BY NextLink DEF linkState, Ends, Boxes, Count, Promised!linkVars
<1> QED
  BY <1>1, <1>2, AlwaysLinkIInv, PTL DEF NetSpec, LinkSpec, Promised!LinkSpec
=============================================================================
