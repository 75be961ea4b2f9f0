-------------------------- MODULE AsyncOperation --------------------------
(***************************************************************************)
(* Operations that run in a thread while their caller keeps the interface  *)
(* alive (thread.cpp), and the one there is: connecting to a server        *)
(* (network.cpp, connect_operation).                                       *)
(*                                                                         *)
(* One caller executes one operation after the other.  It holds the        *)
(* operation's mutex except while it waits on its condition, so what it    *)
(* does between two waits is one action; so is what the thread does while  *)
(* it holds the mutex.  A condition wakes when notified or timed out.      *)
(***************************************************************************)
EXTENDS Naturals, SequencesExt

CONSTANT MaxOps     \* operations executed

ASSUME OpAssumption == MaxOps \in Nat

Operations == 1..MaxOps

VARIABLES
    next,       \* the operation the caller executes now or next
    caller,     \* what the caller is at
    runner,     \* what each operation's thread is at
    aborted,    \* aborted_
    finished,   \* finishedVar_
    failed,     \* error_ is set
    result,     \* what execute and check_error made of the operation
    active,     \* active_: the operations that are kept
    linked,     \* the operations whose connection is among the sockets
    wild        \* a thread has read a pointer that was gone: anything may follow

opVars == <<next, caller, runner, aborted, finished, failed, result, active,
            linked, wild>>

OpTypeOK ==
    /\ next \in 1..(MaxOps + 1)
    /\ caller \in {"idle", "process", "wait"}
    /\ runner \in [Operations -> {"none", "born", "run", "open", "end", "gone"}]
    /\ aborted \in [Operations -> BOOLEAN]
    /\ finished \in [Operations -> BOOLEAN]
    /\ failed \in [Operations -> BOOLEAN]
    /\ result \in [Operations -> {"none", "connected", "failed", "aborted"}]
    /\ active \in Seq(Operations)
    /\ linked \subseteq Operations
    /\ wild \in BOOLEAN
    /\ caller # "idle" => next \in Operations

OpInit ==
    /\ next = 1
    /\ caller = "idle"
    /\ runner = [o \in Operations |-> "none"]
    /\ aborted = [o \in Operations |-> FALSE]
    /\ finished = [o \in Operations |-> FALSE]
    /\ failed = [o \in Operations |-> FALSE]
    /\ result = [o \in Operations |-> "none"]
    /\ active = <<>>
    /\ linked = {}
    /\ wild = FALSE

----------------------------------------------------------------------------
(* The caller: async_operation::execute and connect. *)

\* Mutant of Kept: all are dropped.
KeptNone == <<>>

\* The constructor drops, oldest first, the operations nobody else refers to:
\* their threads have ended.
Kept == LET live == {i \in DOMAIN active : runner[active[i]] # "gone"}
        IN  IF live = {} THEN <<>>
            ELSE SubSeq(active, CHOOSE i \in live : \A k \in live : i <= k, Len(active))

\* With the mutex held the operation is kept and its thread created, which is
\* given the address of execute's own pointer.
Execute ==
    /\ caller = "idle"
    /\ next <= MaxOps
    /\ active' = Append(Kept, next)
    /\ runner' = [runner EXCEPT ![next] = "born"]
    /\ caller' = "process"
    /\ UNCHANGED <<next, aborted, finished, failed, result, linked, wild>>

\* The waiter has processed events and goes on waiting: the mutex is free.
KeepWaiting ==
    /\ caller = "process"
    /\ caller' = "wait"
    /\ UNCHANGED <<next, runner, aborted, finished, failed, result, active, linked, wild>>

Returned(r) ==
    /\ result' = [result EXCEPT ![next] = r]
    /\ caller' = "idle"
    /\ next' = next + 1

\* The user cancels.
Abort ==
    /\ caller = "process"
    /\ aborted' = [aborted EXCEPT ![next] = TRUE]
    /\ Returned("aborted")
    /\ UNCHANGED <<runner, finished, failed, active, linked, wild>>

\* Notified or after 20 ms the caller has the mutex again.
Wake ==
    /\ caller = "wait"
    /\ IF finished[next]
          THEN Returned(IF failed[next] THEN "failed" ELSE "connected")
          ELSE /\ caller' = "process"
               /\ UNCHANGED <<next, result>>
    /\ UNCHANGED <<runner, aborted, finished, failed, active, linked, wild>>

----------------------------------------------------------------------------
(* The threads: run_async_operation and connect_operation::run. *)

Goes(o, point) == runner' = [runner EXCEPT ![o] = point]

\* Nobody holds o's mutex.
Free(o) == ~ (caller = "process" /\ next = o)

\* The thread copies the pointer to its operation: it is the caller's, on the
\* stack of execute, and that may have returned.
CopyPointer(o) ==
    /\ runner[o] = "born"
    /\ Goes(o, "run")
    /\ wild' = (caller = "idle" \/ next # o)
    /\ UNCHANGED <<next, caller, aborted, finished, failed, result, active, linked>>

\* Resolving, connecting and the handshake, without the mutex.
OpenSocket(o) ==
    /\ runner[o] = "run"
    /\ \/ Goes(o, "open") /\ UNCHANGED failed
       \/ Goes(o, "end") /\ failed' = [failed EXCEPT ![o] = TRUE]
    /\ UNCHANGED <<next, caller, aborted, finished, result, active, linked, wild>>

\* Mutant of AddConnection: aborted_ is not looked at.
AddConnectionAlways(o) ==
    /\ runner[o] = "open" /\ Free(o)
    /\ Goes(o, "end")
    /\ linked' = linked \cup {o}
    /\ finished' = [finished EXCEPT ![o] = TRUE]
    /\ UNCHANGED <<next, caller, aborted, failed, result, active, wild>>

\* With the mutex: an aborted operation closes its socket; else the connection
\* is added and the caller notified, unless the set of sockets is full.
AddConnection(o) ==
    /\ runner[o] = "open" /\ Free(o)
    /\ Goes(o, "end")
    /\ \/ /\ aborted[o]
          /\ UNCHANGED <<finished, failed, linked>>
       \/ /\ ~ aborted[o]
          /\ linked' = linked \cup {o}
          /\ finished' = [finished EXCEPT ![o] = TRUE]
          /\ UNCHANGED failed
       \/ /\ ~ aborted[o]
          /\ failed' = [failed EXCEPT ![o] = TRUE]
          /\ UNCHANGED <<finished, linked>>
    /\ UNCHANGED <<next, caller, aborted, result, active, wild>>

\* Mutant of EndThread: only run itself notifies.
EndThreadSilent(o) ==
    /\ runner[o] = "end" /\ Free(o)
    /\ Goes(o, "gone")
    /\ UNCHANGED <<next, caller, aborted, finished, failed, result, active, linked, wild>>

\* However run returned, the caller is notified; then the thread ends.
EndThread(o) ==
    /\ runner[o] = "end" /\ Free(o)
    /\ Goes(o, "gone")
    /\ finished' = [finished EXCEPT ![o] = TRUE]
    /\ UNCHANGED <<next, caller, aborted, failed, result, active, linked, wild>>

Runner(o) == CopyPointer(o) \/ OpenSocket(o) \/ AddConnection(o) \/ EndThread(o)

Caller == KeepWaiting \/ Wake

OpNext == /\ ~ wild
          /\ \/ Execute \/ Abort \/ Caller
             \/ \E o \in Operations : Runner(o)

\* The loop of execute goes on, and its thread runs.  The thread gets the mutex
\* although it is free only now and then: each time for up to 20 ms.
OpFairness == /\ WF_opVars(~ wild /\ Caller)
              /\ \A o \in Operations : SF_opVars(~ wild /\ Runner(o))

OpSpec == OpInit /\ [][OpNext]_opVars /\ OpFairness

----------------------------------------------------------------------------
\* An operation whose caller was told it failed or who gave up leaves no
\* connection behind, now or later; one that succeeded has left one
\* (network.cpp:443, thread.cpp:176).
LinkedAreHandedOver ==
    \A o \in Operations : result[o] # "none" =>
        (o \in linked <=> result[o] = "connected")

\* An operation stays as long as its thread uses it (thread.hpp:248).
ThreadsHaveTheirOperation ==
    \A o \in Operations : runner[o] \in {"run", "open", "end"} => Contains(active, o)

\* Executing an operation ends: it completes, or is cancelled.
ExecuteEnds == (caller = "process") ~> (caller = "idle" \/ wild)
===========================================================================
