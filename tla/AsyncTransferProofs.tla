------------------------ MODULE AsyncTransferProofs ------------------------
(***************************************************************************)
(* That the caller of a transfer goes on with its own response, for any    *)
(* number of transfers and whatever the user and the scheduler do.         *)
(***************************************************************************)
EXTENDS AsyncTransfer, TLAPS

USE TransferAssumption

\* The shape of the state, as far as the argument needs it.
Shape ==
    /\ main \in [pc : MainSteps, call : 0..MaxCalls]
    /\ op \in [Calls -> Ops \cup {None}]
    /\ session \in [Calls -> 0..MaxCalls]
    /\ prog \in [Calls -> [alive : BOOLEAN, running : BOOLEAN, abort : BOOLEAN]]
    /\ thread \in [Calls -> ThreadSteps]
    /\ reply \in [Calls -> Calls \cup {Error, None}]
    /\ buffer \in [Calls -> Calls \cup {Error, None}]
    /\ taken \in [Calls -> Calls \cup {Error, None}]

\* Calls are made in order; a call's session is that of an earlier list.
Numbered ==
    /\ main.call = 0 => main.pc = "out"
    /\ \A k \in Calls : k > main.call => thread[k] = "none" /\ session[k] = 0
    /\ \A k \in Calls : k <= main.call => session[k] \in 1..k

\* A caller waits for the thread that serves it.
Started ==
    /\ main.pc = "join" => thread[main.call] = "none"
    /\ main.pc \in {"show", "wait", "assert", "check", "take"}
            => thread[main.call] # "none"

\* Of the calls of one addon_client only the last, the one async_wrap let
\* start when the others were over, can have a running thread.
LastOnly ==
    \A j, k \in Calls : session[j] = session[k] /\ j < k /\ thread[k] # "none"
                            => Over(j)

\* What a thread brings back is the answer to its own call; the last thread of
\* an addon_client has put its answer in the buffer before it ends.
Answers ==
    /\ \A k \in Calls : thread[k] \in {"store", "stop", "done"} => reply[k] \in {k, Error}
    /\ \A k \in Calls :
          /\ thread[k] \in {"stop", "done"}
          /\ \A j \in Calls : session[j] = session[k] /\ j > k => thread[j] = "none"
          => buffer[session[k]] = reply[k]

IInv == Shape /\ Numbered /\ Started /\ LastOnly /\ Answers /\ ResponseIsAsked

Waiting == {"show", "wait", "assert", "check", "take"}

LEMMA InitIInv == Init => IInv
BY DEF Init, IInv, Shape, Numbered, Started, LastOnly, Answers,
       ResponseIsAsked, MainSteps, ThreadSteps, Calls

-----------------------------------------------------------------------------
(* The main thread *)

\* A step that only moves the main thread on, or changes progress_data.
LEMMA MainMoves ==
    ASSUME IInv, NEW pc \in MainSteps \ {"join"}, Goto(pc),
           main.call # 0 \/ pc = "out",
           pc \in Waiting => thread[main.call] # "none",
           prog' \in [Calls -> [alive : BOOLEAN, running : BOOLEAN, abort : BOOLEAN]],
           UNCHANGED <<op, session, thread, reply, buffer, taken>>
    PROVE  IInv'
<1>1. main' = [pc |-> pc, call |-> main.call] /\ main'.call = main.call
  BY DEF Goto, IInv, Shape
<1>2. Shape' /\ Numbered' /\ Started'
  BY <1>1 DEF IInv, Shape, Numbered, Started, Waiting, Goto
<1>3. LastOnly' /\ Answers' /\ ResponseIsAsked'
  BY DEF IInv, LastOnly, Answers, ResponseIsAsked, Over
<1>4. QED
  BY <1>2, <1>3 DEF IInv

\* Where the dialog is shown a call was made and its thread was started.
LEMMA CallIsMade ==
    ASSUME IInv, main.pc # "out"
    PROVE  /\ main.call \in Calls
           /\ main.pc \in Waiting => thread[main.call] # "none"
           /\ prog[main.call] \in [alive : BOOLEAN, running : BOOLEAN, abort : BOOLEAN]
<1>1. main.call \in 1..MaxCalls
  BY DEF IInv, Shape, Numbered
<1>2. QED
  BY <1>1 DEF IInv, Shape, Started, Waiting, Calls

\* A call that was made has an addon_client.
LEMMA HasSession ==
    ASSUME IInv, NEW k \in Calls, thread[k] # "none"
    PROVE  session[k] \in Calls
<1>1. main.call \in Nat /\ k \in Nat
  BY DEF IInv, Shape, Calls
<1>2. k <= main.call
  BY <1>1 DEF IInv, Numbered
<1>3. session[k] \in 1..k
  BY <1>2 DEF IInv, Numbered
<1>4. QED
  BY <1>3 DEF Calls

LEMMA ClosedIInv ==
    ASSUME IInv, main.pc = "show", Closed(main.call),
           UNCHANGED <<callVars, prog, threadVars, taken>>
    PROVE  IInv'
<1>1. PICK pc \in {"wait", "assert"} : Goto(pc)
  BY DEF Closed
<1>2. thread[main.call] # "none" /\ main.call # 0
  BY CallIsMade DEF Waiting, Calls
<1>3. QED
  BY <1>1, <1>2, MainMoves DEF MainSteps, Waiting, callVars, threadVars, IInv, Shape

LEMMA PressAbortIInv == IInv /\ PressAbort => IInv'
<1> SUFFICES ASSUME IInv, PressAbort PROVE IInv'
  OBVIOUS
<1>1. main.call \in Calls /\ thread[main.call] # "none" /\ main.call # 0
  BY CallIsMade DEF PressAbort, Waiting, Calls
<1>2. Goto("show")
  BY DEF PressAbort, Goto, IInv, Shape
<1>3. prog' \in [Calls -> [alive : BOOLEAN, running : BOOLEAN, abort : BOOLEAN]]
  BY <1>1, CallIsMade DEF PressAbort, IInv, Shape
<1>4. QED
  BY <1>1, <1>2, <1>3, MainMoves DEF PressAbort, MainSteps, callVars, threadVars

LEMMA CheckIInv ==
    ASSUME IInv, AsyncWait \/ AssertNotRunning \/ NotAborted
    PROVE  IInv'
<1>1. PICK pc \in {"assert", "crashed", "check", "take"} : Goto(pc)
  BY DEF AsyncWait, AssertNotRunning, NotAborted
<1>2. thread[main.call] # "none" /\ main.call # 0
  BY CallIsMade DEF AsyncWait, AssertNotRunning, NotAborted, Waiting, Calls
<1>3. UNCHANGED <<op, session, prog, thread, reply, buffer, taken>>
  BY DEF AsyncWait, AssertNotRunning, NotAborted, callVars, threadVars
<1>4. QED
  BY <1>1, <1>2, <1>3, MainMoves DEF MainSteps, Waiting, IInv, Shape

\* After a call the main thread waits for nothing.
LEMMA AfterCall == \A o, r : After(o, r) \in {"menu", "leave", "again", "update"}
BY DEF After

LEMMA ReturnAbortedIInv == IInv /\ ReturnAborted => IInv'
<1> SUFFICES ASSUME IInv, ReturnAborted PROVE IInv'
  OBVIOUS
<1>1. main.call \in Calls /\ main.call # 0
  BY CallIsMade DEF ReturnAborted, Calls
<1>2. PICK pc \in {"menu", "leave", "again", "update"} : Goto(pc)
  BY AfterCall DEF ReturnAborted, Return
<1>3. prog' \in [Calls -> [alive : BOOLEAN, running : BOOLEAN, abort : BOOLEAN]]
  BY <1>1, CallIsMade DEF ReturnAborted, Return, IInv, Shape
<1>4. QED
  BY <1>1, <1>2, <1>3, MainMoves
  DEF ReturnAborted, MainSteps, Waiting, callVars, threadVars

LEMMA LeaveIInv == IInv /\ Leave => IInv'
<1> SUFFICES ASSUME IInv, Leave PROVE IInv'
  OBVIOUS
<1>1. prog' \in [Calls -> [alive : BOOLEAN, running : BOOLEAN, abort : BOOLEAN]]
  <2>1. ASSUME NEW k \in Calls
        PROVE  [prog[k] EXCEPT !.alive = FALSE]
                   \in [alive : BOOLEAN, running : BOOLEAN, abort : BOOLEAN]
    <3>1. prog[k] \in [alive : BOOLEAN, running : BOOLEAN, abort : BOOLEAN]
      BY DEF IInv, Shape
    <3>2. QED
      BY <3>1
  <2>2. prog' = [k \in Calls |-> [prog[k] EXCEPT !.alive = FALSE]]
    BY DEF Leave
  <2>3. QED
    BY <2>1, <2>2
<1>2. QED
  BY <1>1, MainMoves DEF Leave, MainSteps, Waiting, threadVars

LEMMA AskIInv ==
    ASSUME IInv, NEW o \in Ops, Ask(o)
    PROVE  IInv'
<1> DEFINE k == main.call + 1
           s == IF o = "list" THEN k ELSE session[main.call]
<1>1. /\ k \in Calls /\ main' = [pc |-> "join", call |-> k]
      /\ op' = [op EXCEPT ![k] = o] /\ session' = [session EXCEPT ![k] = s]
      /\ prog' = [prog EXCEPT ![k].alive = TRUE]
      /\ UNCHANGED <<thread, reply, buffer, taken>>
  BY DEF Ask, threadVars
<1>2. main.call \in Nat /\ k \in Nat /\ k > main.call
  BY DEF IInv, Shape
<1>3. s \in 1..k
  <2>1. CASE o = "list"
    BY <2>1, <1>2, <1>1 DEF Calls
  <2>2. CASE o # "list"
    <3>1. main.pc # "out"
      BY <2>2 DEF Ask, Offers
    <3>2. session[main.call] \in 1..main.call
      BY <3>1, CallIsMade DEF IInv, Numbered, Calls, Shape
    <3>3. QED
      BY <2>2, <3>2, <1>2
  <2>3. QED
    BY <2>1, <2>2
<1>4. thread[k] = "none"
  BY <1>1, <1>2 DEF IInv, Numbered
<1>5. prog[k] \in [alive : BOOLEAN, running : BOOLEAN, abort : BOOLEAN]
  BY <1>1 DEF IInv, Shape
<1> HIDE DEF s
<1>6. Shape'
  <2>1. main' \in [pc : MainSteps, call : 0..MaxCalls]
    BY <1>1 DEF MainSteps, Calls
  <2>2. op' \in [Calls -> Ops \cup {None}]
    BY <1>1 DEF IInv, Shape
  <2>3. s \in 0..MaxCalls
    BY <1>1, <1>2, <1>3 DEF Calls
  <2>4. session' \in [Calls -> 0..MaxCalls]
    BY <1>1, <2>3 DEF IInv, Shape
  <2>5. [prog[k] EXCEPT !.alive = TRUE]
            \in [alive : BOOLEAN, running : BOOLEAN, abort : BOOLEAN]
    BY <1>5
  <2>6. prog' = [prog EXCEPT ![k] = [prog[k] EXCEPT !.alive = TRUE]]
    BY <1>1
  <2>7. prog' \in [Calls -> [alive : BOOLEAN, running : BOOLEAN, abort : BOOLEAN]]
    BY <2>5, <2>6 DEF IInv, Shape
  <2>8. QED
    BY <1>1, <2>1, <2>2, <2>4, <2>7 DEF IInv, Shape
<1>7. Numbered'
  BY <1>1, <1>2, <1>3 DEF IInv, Shape, Numbered, Calls
<1>8. Started'
  BY <1>1, <1>4 DEF Started
<1>9. LastOnly'
  BY <1>1, <1>2, <1>4 DEF IInv, LastOnly, Over, Calls, Shape
<1>10. Answers'
  <2>1. ASSUME NEW i \in Calls, thread[i] \in {"stop", "done"},
               \A j \in Calls : session'[j] = session'[i] /\ j > i => thread[j] = "none"
        PROVE  buffer[session'[i]] = reply[i]
    <3>1. i # k /\ session'[i] = session[i]
      BY <2>1, <1>1, <1>4 DEF IInv, Shape
    <3>2. \A j \in Calls : session[j] = session[i] /\ j > i => thread[j] = "none"
      BY <2>1, <3>1, <1>1, <1>4 DEF IInv, Shape
    <3>3. QED
      BY <2>1, <3>1, <3>2 DEF IInv, Answers
  <2>2. QED
    BY <2>1, <1>1 DEF IInv, Answers
<1>11. ResponseIsAsked'
  BY <1>1 DEF IInv, ResponseIsAsked
<1>12. QED
  BY <1>6, <1>7, <1>8, <1>9, <1>10, <1>11 DEF IInv

LEMMA LaunchIInv == IInv /\ Launch => IInv'
<1> SUFFICES ASSUME IInv, Launch PROVE IInv'
  OBVIOUS
<1> DEFINE k == main.call
<1>1. /\ k \in Calls /\ thread[k] = "none"
      /\ main' = [pc |-> "show", call |-> k]
      /\ thread' = [thread EXCEPT ![k] = "new"]
      /\ UNCHANGED <<op, session, prog, reply, buffer, taken>>
  BY CallIsMade DEF Launch, Goto, IInv, Shape, Started, callVars
<1>2. \A j \in Calls : session[j] = session[k] => Over(j)
  BY DEF Launch, Joined
<1>3. \A j \in Calls : j > k => thread[j] = "none"
  BY DEF IInv, Numbered
<1> HIDE DEF k
<1>4. Shape'
  BY <1>1 DEF IInv, Shape, MainSteps, ThreadSteps, Calls
<1>5. Numbered' /\ Started'
  BY <1>1 DEF IInv, Shape, Numbered, Started, k, Calls
<1>6. LastOnly'
  <2>1. ASSUME NEW i \in Calls, NEW j \in Calls, session[i] = session[j],
               i < j, thread'[j] # "none"
        PROVE  i # k /\ Over(i)
    <3>1. j = k \/ thread[j] # "none"
      BY <2>1, <1>1 DEF IInv, Shape
    <3>2. i # k
      BY <2>1, <3>1, <1>3, <1>1 DEF Calls
    <3>3. Over(i)
      BY <2>1, <3>1, <1>2 DEF IInv, LastOnly
    <3>4. QED
      BY <3>2, <3>3
  <2>2. QED
    BY <2>1, <1>1 DEF LastOnly, Over, IInv, Shape
<1>7. Answers'
  <2>1. ASSUME NEW i \in Calls, thread'[i] \in {"stop", "done"},
               \A j \in Calls : session[j] = session[i] /\ j > i => thread'[j] = "none"
        PROVE  buffer[session[i]] = reply[i]
    <3>1. i # k /\ thread[i] \in {"stop", "done"}
      BY <2>1, <1>1 DEF IInv, Shape
    <3>2. \A j \in Calls : session[j] = session[i] /\ j > i => thread[j] = "none"
      BY <2>1, <1>1 DEF IInv, Shape
    <3>3. QED
      BY <2>1, <3>1, <3>2 DEF IInv, Answers
  <2>2. \A i \in Calls : thread'[i] \in {"store", "stop", "done"}
                            => thread[i] = thread'[i]
    BY <1>1 DEF IInv, Shape
  <2>3. QED
    BY <2>1, <2>2, <1>1 DEF IInv, Answers
<1>8. ResponseIsAsked'
  BY <1>1 DEF IInv, ResponseIsAsked
<1>9. QED
  BY <1>4, <1>5, <1>6, <1>7, <1>8 DEF IInv

\* The thread of the call was joined, so the buffer holds its answer.
LEMMA GetAsyncResponseIInv == IInv /\ GetAsyncResponse => IInv'
<1> SUFFICES ASSUME IInv, GetAsyncResponse PROVE IInv'
  OBVIOUS
<1> DEFINE k == main.call
           response == buffer[session[k]]
<1>1. k \in Calls /\ k # 0 /\ thread[k] = "done"
  BY CallIsMade DEF GetAsyncResponse, Joined, Over, Waiting, Calls
<1>2. response \in {k, Error}
  <2>1. \A j \in Calls : j > k => thread[j] = "none"
    BY DEF IInv, Numbered
  <2>2. response = reply[k] /\ reply[k] \in {k, Error}
    BY <2>1, <1>1 DEF IInv, Answers
  <2>3. QED
    BY <2>2
<1>3. /\ taken' = [taken EXCEPT ![k] = response]
      /\ UNCHANGED <<op, session, thread, reply, buffer>>
      /\ prog' = [prog EXCEPT ![k].alive = (op[k] = "list")]
  BY DEF GetAsyncResponse, Return, callVars, threadVars
<1>4. PICK pc \in {"menu", "leave", "again", "update"} : Goto(pc)
  BY AfterCall DEF GetAsyncResponse, Return
<1>5. main' = [pc |-> pc, call |-> k] /\ main'.call = main.call
  BY <1>4 DEF Goto, IInv, Shape
<1>6. prog[k] \in [alive : BOOLEAN, running : BOOLEAN, abort : BOOLEAN]
  BY CallIsMade DEF GetAsyncResponse
<1> HIDE DEF response
<1>7. Shape'
  BY <1>1, <1>2, <1>3, <1>5, <1>6 DEF IInv, Shape, MainSteps
<1>8. Numbered' /\ Started'
  BY <1>1, <1>3, <1>5 DEF IInv, Shape, Numbered, Started
<1>9. LastOnly' /\ Answers'
  BY <1>3 DEF IInv, LastOnly, Answers, Over
<1>10. ResponseIsAsked'
  BY <1>1, <1>2, <1>3 DEF IInv, Shape, ResponseIsAsked
<1>11. QED
  BY <1>7, <1>8, <1>9, <1>10 DEF IInv

-----------------------------------------------------------------------------
(* The thread *)

\* The thread of call k is the only one of its addon_client: nobody else's
\* answer is in the buffer that it is about to write.
LEMMA RunsAlone ==
    ASSUME IInv, NEW k \in Calls, ~Over(k), NEW i \in Calls, i # k,
           session[i] = session[k], thread[i] # "none"
    PROVE  i < k /\ thread[k] # "none"
BY DEF IInv, LastOnly, Over, Calls

\* A step of a thread that has not ended, other than storing its answer.
LEMMA ThreadMoves ==
    ASSUME IInv, NEW k \in Calls, ~Over(k), NEW pc \in ThreadSteps \ {"none"},
           ThreadGoto(k, pc),
           pc \in {"stop", "done"} =>
               thread[k] \in {"stop", "done"} \/ buffer'[session[k]] = reply[k],
           pc \in {"store", "stop", "done"} => reply'[k] \in {k, Error},
           reply' \in [Calls -> Calls \cup {Error, None}],
           buffer' \in [Calls -> Calls \cup {Error, None}],
           prog' \in [Calls -> [alive : BOOLEAN, running : BOOLEAN, abort : BOOLEAN]],
           thread[k] \in {"stop", "done"} => reply' = reply /\ buffer' = buffer,
           pc \in {"stop", "done"} => reply' = reply,
           \A i \in Calls \ {k} : reply'[i] = reply[i],
           \A s \in Calls \ {session[k]} : buffer'[s] = buffer[s],
           UNCHANGED <<main, op, session, taken>>
    PROVE  IInv'
<1>1. thread' = [thread EXCEPT ![k] = pc] /\ thread[k] # "none"
  BY DEF ThreadGoto, Over
<1>2. Shape'
  BY <1>1 DEF IInv, Shape
<1>3. Numbered'
  BY <1>1 DEF IInv, Shape, Numbered
<1>4. Started'
  BY <1>1 DEF IInv, Shape, Started
<1>5. LastOnly'
  <2>1. \A i \in Calls : (thread'[i] # "none" <=> thread[i] # "none")
                         /\ (Over(i) /\ i # k => Over(i)')
    BY <1>1 DEF IInv, Shape, Over
  <2>2. QED
    BY <2>1 DEF IInv, LastOnly, Over
<1>6. Answers'
  <2>1. \A i \in Calls : thread'[i] \in {"store", "stop", "done"} => reply'[i] \in {i, Error}
    BY <1>1 DEF IInv, Shape, Answers
  <2>2. ASSUME NEW i \in Calls, thread'[i] \in {"stop", "done"},
               \A j \in Calls : session[j] = session[i] /\ j > i => thread'[j] = "none"
        PROVE  buffer'[session[i]] = reply'[i]
    <3>0. \A j \in Calls : session[j] = session[i] /\ j > i => thread[j] = "none"
      BY <2>2, <1>1 DEF IInv, Shape
    <3>1. CASE i = k
      <4>1. CASE thread[k] \in {"stop", "done"}
        BY <4>1, <3>0, <3>1 DEF IInv, Answers
      <4>2. CASE thread[k] \notin {"stop", "done"}
        BY <4>2, <3>1, <2>2, <1>1 DEF IInv, Shape
      <4>3. QED
        BY <4>1, <4>2
    <3>2. CASE i # k
      <4>1. thread[i] \in {"stop", "done"} /\ thread[i] = thread'[i]
        BY <3>2, <2>2, <1>1 DEF IInv, Shape
      <4>2. session[i] # session[k]
        <5>1. SUFFICES ASSUME session[i] = session[k] PROVE FALSE
          OBVIOUS
        <5>2. i < k
          BY <5>1, <4>1, <3>2, RunsAlone
        <5>3. QED
          BY <5>1, <5>2, <3>0, <1>1 DEF Calls
      <4>3. session[i] \in Calls
        BY <4>1, HasSession
      <4>4. buffer'[session[i]] = buffer[session[i]] /\ reply'[i] = reply[i]
        BY <4>2, <4>3, <3>2
      <4>5. QED
        BY <4>1, <4>4, <3>0 DEF IInv, Answers
    <3>3. QED
      BY <3>1, <3>2
  <2>3. QED
    BY <2>1, <2>2 DEF Answers
<1>7. ResponseIsAsked'
  BY DEF IInv, ResponseIsAsked
<1>8. QED
  BY <1>2, <1>3, <1>4, <1>5, <1>6, <1>7 DEF IInv

LEMMA ThreadIInv ==
    ASSUME IInv, NEW k \in Calls, Thread(k) \/ Perform(k)
    PROVE  IInv'
<1> USE DEF IInv, Shape
<1>0. session[k] \in 0..MaxCalls /\ reply[k] \in Calls \cup {Error, None}
      /\ prog[k] \in [alive : BOOLEAN, running : BOOLEAN, abort : BOOLEAN]
  OBVIOUS
<1>1. CASE SetRunning(k)
  <2>1. ~Over(k) /\ ThreadGoto(k, "clear") /\ UNCHANGED <<main, op, session, reply, buffer, taken>>
    BY <1>1 DEF SetRunning, ThreadAt, Over, callVars
  <2>2. prog' \in [Calls -> [alive : BOOLEAN, running : BOOLEAN, abort : BOOLEAN]]
    BY <1>1, <1>0 DEF SetRunning
  <2>3. QED
    BY <2>1, <2>2, ThreadMoves DEF ThreadSteps
<1>2. CASE ClearBuffer(k)
  <2>1. /\ ~Over(k) /\ thread[k] = "clear" /\ ThreadGoto(k, "perform")
        /\ buffer' = [buffer EXCEPT ![session[k]] = None]
        /\ UNCHANGED <<main, op, session, prog, reply, taken>>
    BY <1>2 DEF ClearBuffer, ThreadAt, Over, callVars
  <2>2. buffer' \in [Calls -> Calls \cup {Error, None}]
        /\ \A s \in Calls \ {session[k]} : buffer'[s] = buffer[s]
    BY <2>1
  <2>3. QED
    BY <2>1, <2>2, ThreadMoves DEF ThreadSteps
<1>3. CASE ProgressCallback(k) \/ Perform(k)
  <2>1. PICK r \in {k, Error} :
           /\ ~Over(k) /\ thread[k] = "perform" /\ ThreadGoto(k, "store")
           /\ reply' = [reply EXCEPT ![k] = r]
           /\ UNCHANGED <<main, op, session, prog, buffer, taken>>
    BY <1>3 DEF ProgressCallback, Perform, ThreadAt, Over, callVars
  <2>2. /\ reply' \in [Calls -> Calls \cup {Error, None}]
        /\ reply'[k] \in {k, Error}
        /\ \A i \in Calls \ {k} : reply'[i] = reply[i]
    BY <2>1
  <2>3. QED
    BY <2>1, <2>2, ThreadMoves DEF ThreadSteps
<1>4. CASE StoreResponse(k)
  <2>1. /\ ~Over(k) /\ thread[k] = "store" /\ ThreadGoto(k, "stop")
        /\ buffer' = [buffer EXCEPT ![session[k]] = reply[k]]
        /\ UNCHANGED <<main, op, session, prog, reply, taken>>
    BY <1>4 DEF StoreResponse, ThreadAt, Over, callVars
  <2>2. session[k] \in Calls
    BY <2>1, HasSession DEF Over
  <2>3. /\ buffer' \in [Calls -> Calls \cup {Error, None}]
        /\ buffer'[session[k]] = reply[k]
        /\ \A s \in Calls \ {session[k]} : buffer'[s] = buffer[s]
    BY <2>1, <2>2, <1>0
  <2>4. reply[k] \in {k, Error}
    BY <2>1 DEF Answers
  <2>5. QED
    BY <2>1, <2>3, <2>4, ThreadMoves DEF ThreadSteps
<1>5. CASE ClearRunning(k)
  <2>1. /\ ~Over(k) /\ thread[k] = "stop" /\ ThreadGoto(k, "done")
        /\ UNCHANGED <<main, op, session, reply, buffer, taken>>
    BY <1>5 DEF ClearRunning, ThreadAt, Over, callVars
  <2>2. prog' \in [Calls -> [alive : BOOLEAN, running : BOOLEAN, abort : BOOLEAN]]
    BY <1>5, <1>0 DEF ClearRunning
  <2>3. reply[k] \in {k, Error}
    BY <2>1 DEF Answers
  <2>4. QED
    BY <2>1, <2>2, <2>3, ThreadMoves DEF ThreadSteps
<1>6. QED
  BY <1>1, <1>2, <1>3, <1>4, <1>5 DEF Thread

-----------------------------------------------------------------------------
LEMMA NextIInv == IInv /\ [Next]_vars => IInv'
<1> SUFFICES ASSUME IInv, [Next]_vars PROVE IInv'
  OBVIOUS
<1>1. CASE Next
  <2>1. CASE PressClose
    BY <2>1, ClosedIInv DEF PressClose
  <2>2. CASE PollProgress
    BY <2>2, ClosedIInv DEF PollProgress
  <2>3. CASE \E o \in Ops : Ask(o)
    BY <2>3, AskIInv
  <2>4. CASE \E k \in Calls : Thread(k) \/ Perform(k)
    BY <2>4, ThreadIInv
  <2>5. CASE AsyncWait \/ AssertNotRunning \/ NotAborted
    BY <2>5, CheckIInv
  <2>6. CASE PressAbort \/ Leave \/ Launch \/ ReturnAborted \/ GetAsyncResponse
    BY <2>6, PressAbortIInv, LeaveIInv, LaunchIInv, ReturnAbortedIInv,
       GetAsyncResponseIInv
  <2>7. QED
    BY <1>1, <2>1, <2>2, <2>3, <2>4, <2>5, <2>6 DEF Next, User, Main
<1>2. CASE UNCHANGED vars
  BY <1>2 DEF vars, IInv, Shape, Numbered, Started, LastOnly, Answers,
              ResponseIsAsked, Over
<1>3. QED
  BY <1>1, <1>2

\* A caller goes on with the response to its own request, or with an error
\* (addon_client.cpp:355-359), however many transfers there are and whenever
\* the user closes or aborts one, and however late a thread runs.
THEOREM ResponseIsAskedAlways == Spec => []ResponseIsAsked
<1>1. Init => IInv
  BY InitIInv
<1>2. IInv /\ [Next]_vars => IInv'
  BY NextIInv
<1>3. IInv => ResponseIsAsked
  BY DEF IInv
<1>4. QED
  BY <1>1, <1>2, <1>3, PTL DEF Spec

-----------------------------------------------------------------------------
(* Types *)

\* What TypeOK asks beyond the shape.
Clients ==
    /\ setting \in Settings
    /\ live \subseteq Calls
    /\ main.pc = "menu" => taken[main.call] \in Calls

\* The menu is where a list that came back leads, and nothing else.
LEMMA ReturnClients ==
    ASSUME IInv, Clients, ReturnAborted \/ GetAsyncResponse, UNCHANGED setting
    PROVE  Clients'
<1> DEFINE k == main.call
<1>1. k \in Calls
  BY CallIsMade DEF ReturnAborted, GetAsyncResponse
<1>2. live' = live
  BY DEF ReturnAborted, GetAsyncResponse, callVars
<1>3. CASE ReturnAborted
  <2>1. main'.pc = After(op[k], Error) /\ main'.pc # "menu"
    BY <1>1, <1>3 DEF ReturnAborted, Return, Goto, After, IInv, Shape
  <2> QED
    BY <1>2, <2>1 DEF Clients
<1>4. CASE GetAsyncResponse
  <2> DEFINE response == buffer[session[k]]
  <2>1. /\ main' = [pc |-> After(op[k], response), call |-> k]
        /\ taken' = [taken EXCEPT ![k] = response]
    BY <1>4 DEF GetAsyncResponse, Return, Goto, IInv, Shape
  <2>2. main'.pc = "menu" => response \in Calls
    BY <2>1 DEF After
  <2>3. taken'[main'.call] = response
    BY <1>1, <2>1 DEF IInv, Shape
  <2> QED
    BY <1>2, <2>2, <2>3 DEF Clients
<1> QED
  BY <1>3, <1>4

LEMMA NextClients == ASSUME IInv, Clients, [Next]_vars PROVE Clients'
<1>1. CASE UNCHANGED vars
  BY <1>1 DEF vars, Clients
<1>2. ASSUME NEW o \in Ops, Ask(o), UNCHANGED setting PROVE Clients'
  <2>1. /\ main' = [pc |-> "join", call |-> main.call + 1] /\ main.call + 1 \in Calls
        /\ live' = live \cup {IF o = "list" THEN main.call + 1 ELSE session[main.call]}
    BY <1>2 DEF Ask
  <2>2. o # "list" => session[main.call] \in Calls
    <3> SUFFICES ASSUME o # "list" PROVE session[main.call] \in Calls
      OBVIOUS
    <3>1. main.pc # "out"
      BY <1>2 DEF Ask, Offers
    <3>2. main.call \in Calls
      BY <3>1, CallIsMade
    <3> QED
      BY <3>2 DEF IInv, Shape, Numbered, Calls
  <2> QED
    BY <1>2, <2>1, <2>2 DEF Clients
<1>3. ASSUME Leave, UNCHANGED setting PROVE Clients'
  BY <1>3 DEF Leave, Goto, Clients
<1>4. ASSUME \/ PressAbort \/ PressClose \/ Launch \/ PollProgress \/ AsyncWait
             \/ AssertNotRunning \/ NotAborted,
             UNCHANGED setting
      PROVE  Clients'
  <2>1. UNCHANGED <<live, taken>> /\ (main' = main \/ main'.pc # "menu")
    BY <1>4 DEF PressAbort, PressClose, Launch, PollProgress, AsyncWait, AssertNotRunning,
       NotAborted, Closed, Goto, callVars, IInv, Shape, MainSteps
  <2> QED
    BY <1>4, <2>1 DEF Clients
<1>5. ASSUME NEW k \in Calls, Thread(k) \/ Perform(k), UNCHANGED setting PROVE Clients'
  <2>1. UNCHANGED <<main, live, taken>>
    BY <1>5 DEF Thread, Perform, SetRunning, ClearBuffer, ProgressCallback, StoreResponse,
       ClearRunning, callVars
  <2> QED
    BY <1>5, <2>1 DEF Clients
<1> QED
  BY <1>1, <1>2, <1>3, <1>4, <1>5, ReturnClients DEF Next, User, Main

\* Every part of the state has its type, and a session that shows its menu has
\* the list it shows (addon_management.cpp:1007-1027).
THEOREM TransferTypeCorrect == Spec => []TypeOK
<1>1. Init => IInv /\ Clients
  BY InitIInv DEF Init, Clients
<1>2. IInv /\ Clients /\ [Next]_vars => (IInv /\ Clients)'
  BY NextIInv, NextClients
<1>3. IInv /\ Clients => TypeOK
  BY DEF IInv, Shape, Clients, TypeOK
<1> QED
  BY <1>1, <1>2, <1>3, PTL DEF Spec

-----------------------------------------------------------------------------
(* Nothing dangles, unless dialogs may be aborted before their threads start *)

\* Where the user may abort, he closes no dialog, and a thread sets running
\* before the first poll.
Careful == \A s \in Settings : "abort" \in s.acts => "close" \notin s.acts /\ s.prompt

Busy == {"clear", "perform", "store", "stop"}

\* A thread is that of the call in hand, which keeps what the thread uses. Where
\* the user may abort, a thread runs only while its dialog is shown.
Held == Waiting \cup {"crashed"}
Sound ==
    /\ setting \in Settings
    /\ \A k \in Calls : prog[k].abort => "abort" \in setting.acts
    /\ \A k \in Calls : prog[k].running <=> thread[k] \in Busy
    /\ \A k \in Calls : ~Over(k) => /\ k = main.call
                                    /\ main.pc \in Held
                                    /\ "abort" \in setting.acts => main.pc = "show"
    /\ main.pc \in Held \cup {"join"} =>
          prog[main.call].alive /\ session[main.call] \in live

LEMMA InitSound == Init => Sound
BY DEF Init, Sound, Busy, Over, Held, Waiting

\* A step that leaves the threads and the flags they set alone, when no thread
\* runs, or the call stays in hand and its dialog does where the user may abort.
LEMMA MainSound ==
    ASSUME IInv, IInv', Sound, UNCHANGED <<setting, thread>>,
           \A k \in Calls : /\ prog'[k].running = prog[k].running
                            /\ prog'[k].abort => "abort" \in setting.acts,
           \/ \A k \in Calls : Over(k)
           \/ /\ main'.call = main.call /\ main'.pc \in Held
              /\ "abort" \in setting.acts => main'.pc = main.pc,
           main'.pc \in Held \cup {"join"} =>
              prog'[main'.call].alive /\ session'[main'.call] \in live'
    PROVE  Sound'
BY DEF Sound, Over

\* Where no call is in hand no thread runs.
LEMMA AllOver == ASSUME Sound, main.pc \notin Held PROVE \A k \in Calls : Over(k)
BY DEF Sound

\* Where the user may abort, the dialog goes when nothing is running any more.
LEMMA PolledOver == ASSUME IInv, Sound, Careful, PollProgress, "abort" \in setting.acts
                    PROVE  \A k \in Calls : Over(k)
<1>1. main.call \in Calls /\ thread[main.call] \in ThreadSteps
  BY CallIsMade DEF PollProgress, IInv, Shape
<1>2. setting.prompt
  BY DEF Sound, Careful
<1>3. thread[main.call] \notin Busy \cup {"new"}
  BY <1>1, <1>2 DEF PollProgress, Sound
<1>4. Over(main.call)
  BY <1>1, <1>3 DEF Over, ThreadSteps, Busy
<1> QED
  BY <1>4 DEF Sound

\* Once the client's thread is joined none runs.
LEMMA JoinedOver == ASSUME IInv, Sound, main.call \in Calls, Joined(session[main.call])
                    PROVE  \A k \in Calls : Over(k)
BY DEF Sound, Joined

LEMMA AskSound == ASSUME IInv, IInv', Sound, NEW o \in Ops, Ask(o), UNCHANGED setting
                  PROVE  Sound'
<1> DEFINE k == main.call + 1
           s == IF o = "list" THEN k ELSE session[main.call]
<1>1. main.pc \notin Held /\ k \in Calls
  BY DEF Ask, Offers, Held, Waiting
<1>2. main' = [pc |-> "join", call |-> k]
  BY DEF Ask
<1>3. session'[k] = s /\ s \in live'
  BY <1>1 DEF Ask, IInv, Shape
<1>4. /\ prog'[k].alive
      /\ \A j \in Calls : prog'[j].running = prog[j].running /\ prog'[j].abort = prog[j].abort
  BY <1>1 DEF Ask, IInv, Shape
<1>5. thread' = thread
  BY DEF Ask, threadVars
<1>6. \A j \in Calls : prog'[j].abort => "abort" \in setting.acts
  BY <1>4 DEF Sound
<1> HIDE DEF k, s
<1> QED
  BY <1>1, <1>2, <1>3, <1>4, <1>5, <1>6, AllOver, MainSound

LEMMA LaunchSound == ASSUME IInv, IInv', Sound, Launch, UNCHANGED setting PROVE Sound'
<1>1. main.call \in Calls /\ main.pc = "join"
  BY CallIsMade DEF Launch
<1>2. main' = [main EXCEPT !.pc = "show"] /\ main'.pc = "show" /\ main'.call = main.call
  BY DEF Launch, Goto, IInv, Shape
<1>3. thread' = [thread EXCEPT ![main.call] = "new"] /\ UNCHANGED <<prog, session, live>>
  BY DEF Launch, callVars
<1>4. \A j \in Calls : Over(j)
  BY <1>1, AllOver DEF Held, Waiting
<1>5. \A j \in Calls : j # main.call => thread'[j] = thread[j]
  BY <1>1, <1>3 DEF IInv, Shape
<1>6. thread'[main.call] = "new"
  BY <1>1, <1>3 DEF IInv, Shape
<1>7. \A j \in Calls : prog'[j].running <=> thread'[j] \in Busy
  BY <1>1, <1>3, <1>4, <1>5, <1>6 DEF Sound, Busy, Over
<1>8. \A j \in Calls : ~Over(j)' => j = main.call
  BY <1>4, <1>5 DEF Over
<1> QED
  BY <1>1, <1>2, <1>3, <1>7, <1>8 DEF Sound, Held, Waiting

\* The dialog goes, by itself or closed by the user.
LEMMA ClosedSound ==
    ASSUME IInv, IInv', Sound, Careful, UNCHANGED setting, PressClose \/ PollProgress
    PROVE  Sound'
<1>1. UNCHANGED <<prog, session, live, thread>> /\ main.pc = "show"
  BY DEF PressClose, PollProgress, callVars, threadVars
<1>2. main'.call = main.call /\ main'.pc \in {"wait", "assert"}
  BY DEF PressClose, PollProgress, Closed, Goto, IInv, Shape
<1>3. ("abort" \in setting.acts) => \A k \in Calls : Over(k)
  <2>1. CASE PressClose
    BY <2>1 DEF PressClose, Sound, Careful
  <2> QED
    BY <2>1, PolledOver
<1>4. /\ prog[main.call].alive /\ session[main.call] \in live
      /\ \A k \in Calls : prog[k].abort => "abort" \in setting.acts
  BY <1>1 DEF Sound, Held, Waiting
<1> QED
  BY <1>1, <1>2, <1>3, <1>4, MainSound DEF Held, Waiting

LEMMA PressAbortSound == ASSUME IInv, IInv', Sound, PressAbort, UNCHANGED setting
                         PROVE  Sound'
<1>1. main.call \in Calls /\ main' = main /\ main.pc = "show"
  BY CallIsMade DEF PressAbort
<1>2. \A k \in Calls : prog'[k].running = prog[k].running /\ prog'[k].alive = prog[k].alive
  BY <1>1 DEF PressAbort, IInv, Shape
<1>3. UNCHANGED <<session, live, thread>> /\ "abort" \in setting.acts
  BY DEF PressAbort, callVars, threadVars
<1>4. prog[main.call].alive /\ session[main.call] \in live
  BY <1>1 DEF Sound, Held, Waiting
<1> QED
  BY <1>1, <1>2, <1>3, <1>4, MainSound DEF Held, Waiting

\* After the dialog the caller keeps what its thread uses.
LEMMA CheckSound ==
    ASSUME IInv, IInv', Sound, UNCHANGED setting,
           AsyncWait \/ AssertNotRunning \/ NotAborted
    PROVE  Sound'
<1>1. UNCHANGED <<prog, session, live, thread>> /\ main.pc \in {"wait", "assert", "check"}
  BY DEF AsyncWait, AssertNotRunning, NotAborted, callVars, threadVars
<1>2. main'.call = main.call /\ main'.pc \in {"assert", "crashed", "check", "take"}
  BY DEF AsyncWait, AssertNotRunning, NotAborted, Goto, IInv, Shape
<1>3. ("abort" \in setting.acts) => \A k \in Calls : Over(k)
  BY <1>1 DEF Sound
<1>4. /\ prog[main.call].alive /\ session[main.call] \in live
      /\ \A k \in Calls : prog[k].abort => "abort" \in setting.acts
  BY <1>1 DEF Sound, Held, Waiting
<1> QED
  BY <1>1, <1>2, <1>3, <1>4, MainSound DEF Held, Waiting

\* A function returns when its thread is over, and its progress_data goes.
LEMMA ReturnSound ==
    ASSUME IInv, IInv', Sound, UNCHANGED setting,
           ReturnAborted \/ GetAsyncResponse \/ Leave
    PROVE  Sound'
<1>1. main.pc \in {"check", "take", "menu", "update", "leave"}
  BY DEF ReturnAborted, GetAsyncResponse, Leave
<1>2. main.call \in Calls
  BY <1>1, CallIsMade
<1>3. \A k \in Calls : Over(k)
  <2>1. CASE ReturnAborted
    BY <1>2, <2>1 DEF ReturnAborted, Sound
  <2>2. CASE GetAsyncResponse
    BY <1>2, <2>2, JoinedOver DEF GetAsyncResponse
  <2>3. CASE Leave
    BY <2>3, AllOver DEF Leave, Held, Waiting
  <2> QED
    BY <2>1, <2>2, <2>3
<1>4. thread' = thread
  BY DEF ReturnAborted, GetAsyncResponse, Leave, threadVars
<1>5. \A k \in Calls : prog'[k].running = prog[k].running /\ prog'[k].abort = prog[k].abort
  BY <1>2 DEF ReturnAborted, GetAsyncResponse, Leave, Return, IInv, Shape
<1>6. main'.pc \in {"menu", "leave", "again", "update", "out"}
  BY DEF ReturnAborted, GetAsyncResponse, Leave, Return, After, Goto, IInv, Shape
<1>7. \A k \in Calls : prog'[k].abort => "abort" \in setting.acts
  BY <1>5 DEF Sound
<1> QED
  BY <1>3, <1>4, <1>5, <1>6, <1>7, MainSound DEF Held, Waiting

LEMMA ThreadSound ==
    ASSUME IInv, IInv', Sound, UNCHANGED setting, NEW k \in Calls, Thread(k) \/ Perform(k)
    PROVE  Sound'
<1>1. /\ thread[k] \in {"new"} \cup Busy /\ UNCHANGED <<main, session, live>>
      /\ \E pc \in Busy \cup {"done"} : ThreadGoto(k, pc)
  BY DEF Thread, Perform, SetRunning, ClearBuffer, ProgressCallback, StoreResponse,
         ClearRunning, ThreadAt, Busy, callVars
<1>2. /\ \A j \in Calls \ {k} : thread'[j] = thread[j] /\ prog'[j] = prog[j]
      /\ prog'[k].alive = prog[k].alive /\ prog'[k].abort = prog[k].abort
      /\ prog'[k].running <=> thread'[k] \in Busy
  <2>1. \A j \in Calls \ {k} : thread'[j] = thread[j]
    BY <1>1 DEF ThreadGoto, IInv, Shape
  <2>2. CASE SetRunning(k) \/ ClearRunning(k)
    BY <2>1, <2>2 DEF SetRunning, ClearRunning, ThreadGoto, Busy, IInv, Shape
  <2>3. CASE ClearBuffer(k) \/ ProgressCallback(k) \/ StoreResponse(k) \/ Perform(k)
    BY <2>1, <2>3 DEF ClearBuffer, ProgressCallback, StoreResponse, Perform, ThreadAt,
                      ThreadGoto, Busy, IInv, Shape, Sound
  <2> QED
    BY <2>2, <2>3 DEF Thread
<1>3. /\ k = main.call /\ main.pc \in Held
      /\ "abort" \in setting.acts => main.pc = "show"
  BY <1>1 DEF Sound, Over, Busy
<1> QED
  BY <1>1, <1>2, <1>3 DEF Sound, Over

LEMMA NextSound == ASSUME Careful PROVE IInv /\ IInv' /\ Sound /\ [Next]_vars => Sound'
<1> SUFFICES ASSUME IInv, IInv', Sound, [Next]_vars PROVE Sound'
  OBVIOUS
<1>1. CASE Next
  <2>1. UNCHANGED setting
    BY <1>1 DEF Next
  <2>2. CASE \E o \in Ops : Ask(o)
    BY <2>1, <2>2, AskSound
  <2>3. CASE Launch
    BY <2>1, <2>3, LaunchSound
  <2>4. CASE PressAbort \/ PressClose \/ PollProgress
    BY <2>1, <2>4, PressAbortSound, ClosedSound
  <2>5. CASE ReturnAborted \/ GetAsyncResponse \/ Leave
    BY <2>1, <2>5, ReturnSound
  <2>6. CASE \E k \in Calls : Thread(k) \/ Perform(k)
    BY <2>1, <2>6, ThreadSound
  <2>7. CASE AsyncWait \/ AssertNotRunning \/ NotAborted
    BY <2>1, <2>7, CheckSound
  <2> QED
    BY <1>1, <2>2, <2>3, <2>4, <2>5, <2>6, <2>7 DEF Next, User, Main
<1>2. CASE UNCHANGED vars
  BY <1>2 DEF vars, Sound, Over
<1> QED
  BY <1>1, <1>2

\* No thread uses a progress_data or an addon_client that is gone
\* (addon_management.cpp:586-590, 616-620, 654-658), for any number of transfers,
\* where the user does not both abort and close, and a transfer that he may
\* abort has started before the first poll.
THEOREM NothingDanglesAlways == ASSUME Careful PROVE Spec => []NothingDangles
<1>1. Init => IInv /\ Sound
  BY InitIInv, InitSound
<1>2. IInv /\ Sound /\ [Next]_vars => (IInv /\ Sound)'
  BY NextIInv, NextSound
<1>3. Sound => NothingDangles
  BY DEF Sound, NothingDangles
<1> QED
  BY <1>1, <1>2, <1>3, PTL DEF Spec

=============================================================================
