--------------------------- MODULE AsyncTransfer ---------------------------
(***************************************************************************)
(* A network transfer of the game's add-on dialogs: the thread that        *)
(* addon_client starts, the progress object the caller of the dialog keeps *)
(* on its stack, and the dialog that polls it.  The main thread lists the  *)
(* add-ons in a session of download_addons, and transfers one or several   *)
(* with the session's addon_client.  Progress objects are locked for each  *)
(* access; the response buffer and the curl handle are not.                *)
(***************************************************************************)
EXTENDS Integers

CONSTANTS
    MaxCalls,       \* bound on the transfers followed
    Settings,       \* acts: what the user may do to dialogs, "abort", "close";
                    \* prompt: new threads run before the first 100 ms poll
    Error, None

Calls == 1..MaxCalls
Ops == {"list", "install", "update", "upload", "delete"}

ASSUME TransferAssumption ==
    /\ MaxCalls \in Nat \ {0}
    /\ Settings \subseteq [acts : SUBSET {"abort", "close"}, prompt : BOOLEAN]
    /\ Error \notin Calls /\ None \notin Calls \cup {Error}

VARIABLES
    setting,    \* the one of Settings that this behaviour is in
    main,       \* the main thread: where it is, and the call it made last
    op,         \* what each call asks for
    session,    \* the addon_client each call uses
    live,       \* the addon_clients that are not destroyed
    prog,       \* the progress_data of each call
    thread,     \* where the thread of each call is
    reply,      \* what curl_easy_perform left in the thread's own buffer
    buffer,     \* async_response_buffer_ of each addon_client
    taken       \* the response the caller of each call went on with

vars == <<setting, main, op, session, live, prog, thread, reply, buffer, taken>>
threadVars == <<thread, reply, buffer>>
callVars == <<op, session, live>>

\* "out": no dialog of the add-on manager; "menu", "update": the add-on list,
\* and addons_update_dlg between two add-ons; "again": install_addon returned
\* and download_addons calls itself; "crashed": an assertion failed.
MainSteps == {"out", "menu", "update", "again", "leave", "join", "show",
              "wait", "assert", "check", "take", "crashed"}
ThreadSteps == {"none", "new", "clear", "perform", "store", "stop", "done"}

Over(k) == thread[k] \in {"none", "done"}
Goto(pc) == main' = [main EXCEPT !.pc = pc]

Init ==
    /\ setting \in Settings
    /\ main = [pc |-> "out", call |-> 0]
    /\ op = [k \in Calls |-> None]
    /\ session = [k \in Calls |-> 0]
    /\ live = {}
    /\ prog = [k \in Calls |-> [alive |-> FALSE, running |-> FALSE, abort |-> FALSE]]
    /\ thread = [k \in Calls |-> "none"]
    /\ reply = [k \in Calls |-> None]
    /\ buffer = [s \in Calls |-> None]
    /\ taken = [k \in Calls |-> None]

-----------------------------------------------------------------------------
(* The main thread *)

\* What the session's dialogs offer next.
Offers(pc) == CASE pc \in {"out", "again"} -> {"list"}
                [] pc = "menu" -> {"install", "update", "upload", "delete"}
                [] pc = "update" -> {"update"}
                [] OTHER -> {}

\* A call is made: its progress_data on the stack; download_addons makes an
\* addon_client of its own too.
Ask(o) ==
    LET k == main.call + 1
        s == IF o = "list" THEN k ELSE session[main.call]
    IN  /\ k \in Calls
        /\ o \in Offers(main.pc)
        /\ main' = [pc |-> "join", call |-> k]
        /\ op' = [op EXCEPT ![k] = o]
        /\ session' = [session EXCEPT ![k] = s]
        /\ live' = live \cup {s}
        /\ prog' = [prog EXCEPT ![k].alive = TRUE]
        /\ UNCHANGED <<threadVars, taken>>

\* async_wait: thread_ is the thread of the client's last call.
Joined(s) == \A k \in Calls : session[k] = s => Over(k)

\* async_wrap: previous calls must finish, then the thread is started.
Launch ==
    /\ main.pc = "join"
    /\ Joined(session[main.call])
    /\ thread' = [thread EXCEPT ![main.call] = "new"]
    /\ Goto("show")
    /\ UNCHANGED <<callVars, prog, reply, buffer, taken>>

\* The dialog is gone: download_addons waits for the thread, the others do not.
Closed(k) == Goto(IF op[k] = "list" THEN "wait" ELSE "assert")

\* Mutant of PressAbort: the dialog is closed at once.
PressAbortCloses ==
    /\ main.pc = "show"
    /\ "abort" \in setting.acts
    /\ ~prog[main.call].abort
    /\ prog' = [prog EXCEPT ![main.call].abort = TRUE]
    /\ Goto("check")
    /\ UNCHANGED <<callVars, threadVars, taken>>

\* The abort button only sets the flag.
PressAbort ==
    /\ main.pc = "show"
    /\ "abort" \in setting.acts
    /\ ~prog[main.call].abort
    /\ prog' = [prog EXCEPT ![main.call].abort = TRUE]
    /\ UNCHANGED <<main, callVars, threadVars, taken>>

\* Escape and Enter close any window that does not disable them.
PressClose ==
    /\ main.pc = "show"
    /\ "close" \in setting.acts
    /\ Closed(main.call)
    /\ UNCHANGED <<callVars, prog, threadVars, taken>>

\* The timer closes the dialog when nothing is running.
PollProgress ==
    /\ main.pc = "show"
    /\ ~prog[main.call].running
    /\ setting.prompt => thread[main.call] # "new"
    /\ Closed(main.call)
    /\ UNCHANGED <<callVars, prog, threadVars, taken>>

\* async_wait after the list's dialog.
AsyncWait ==
    /\ main.pc = "wait"
    /\ Joined(session[main.call])
    /\ Goto("assert")
    /\ UNCHANGED <<callVars, prog, threadVars, taken>>

\* assert(!pd.running())
AssertNotRunning ==
    /\ main.pc = "assert"
    /\ Goto(IF prog[main.call].running THEN "crashed" ELSE "check")
    /\ UNCHANGED <<callVars, prog, threadVars, taken>>

\* Where a call returns to.  The list ends the session unless there is one;
\* download_addons calls itself after an install, whatever its result.
After(o, response) ==
    CASE o = "list" -> IF response \in Calls THEN "menu" ELSE "leave"
      [] o = "install" -> "again"
      [] o = "update" -> "update"
      [] OTHER -> "leave"

\* The function that made call k returns, and its progress_data goes with it;
\* the list's lives as long as its session.
Return(k, response) ==
    /\ Goto(After(op[k], response))
    /\ prog' = [prog EXCEPT ![k].alive = (op[k] = "list")]

ReturnAborted ==
    /\ main.pc = "check"
    /\ prog[main.call].abort
    /\ Return(main.call, Error)
    /\ UNCHANGED <<callVars, threadVars, taken>>

NotAborted ==
    /\ main.pc = "check"
    /\ ~prog[main.call].abort
    /\ Goto("take")
    /\ UNCHANGED <<callVars, prog, threadVars, taken>>

\* Mutant of GetAsyncResponse: the buffer is read without joining the thread.
GetResponseUnjoined ==
    LET response == buffer[session[main.call]]
    IN  /\ main.pc = "take"
        /\ taken' = [taken EXCEPT ![main.call] = response]
        /\ Return(main.call, response)
        /\ UNCHANGED <<callVars, threadVars>>

\* get_async_response joins the thread before it returns the buffer.
GetAsyncResponse ==
    LET response == buffer[session[main.call]]
    IN  /\ main.pc = "take"
        /\ Joined(session[main.call])
        /\ taken' = [taken EXCEPT ![main.call] = response]
        /\ Return(main.call, response)
        /\ UNCHANGED <<callVars, threadVars>>

\* The user or an error leaves the add-on manager: nested sessions return with
\* the innermost, their addon_clients are destroyed, running threads detached.
Leave ==
    /\ main.pc \in {"menu", "update", "leave"}
    /\ Goto("out")
    /\ live' = {}
    /\ prog' = [k \in Calls |-> [prog[k] EXCEPT !.alive = FALSE]]
    /\ UNCHANGED <<op, session, threadVars, taken>>

-----------------------------------------------------------------------------
(* The thread of call k: addon_client::async_entry *)

ThreadAt(k, pc) == main.pc # "crashed" /\ thread[k] = pc
ThreadGoto(k, pc) == thread' = [thread EXCEPT ![k] = pc]

SetRunning(k) ==
    /\ ThreadAt(k, "new")
    /\ prog' = [prog EXCEPT ![k].running = TRUE]
    /\ ThreadGoto(k, "clear")
    /\ UNCHANGED <<main, callVars, reply, buffer, taken>>

ClearBuffer(k) ==
    /\ ThreadAt(k, "clear")
    /\ buffer' = [buffer EXCEPT ![session[k]] = None]
    /\ ThreadGoto(k, "perform")
    /\ UNCHANGED <<main, callVars, prog, reply, taken>>

\* curl_easy_perform returns: the server's answer, or an exception for any
\* other outcome.  Nothing in the code makes it return in time.
Perform(k) ==
    /\ ThreadAt(k, "perform")
    /\ \E r \in {k, Error} : reply' = [reply EXCEPT ![k] = r]
    /\ ThreadGoto(k, "store")
    /\ UNCHANGED <<main, callVars, prog, buffer, taken>>

\* Mutant of ProgressCallback: only the progress is recorded.
ProgressCallbackDeaf(k) == FALSE /\ UNCHANGED vars

\* curl calls the progress callback about once a second; it stops an aborted
\* transfer, which is an exception too.
ProgressCallback(k) ==
    /\ ThreadAt(k, "perform")
    /\ prog[k].abort
    /\ reply' = [reply EXCEPT ![k] = Error]
    /\ ThreadGoto(k, "store")
    /\ UNCHANGED <<main, callVars, prog, buffer, taken>>

StoreResponse(k) ==
    /\ ThreadAt(k, "store")
    /\ buffer' = [buffer EXCEPT ![session[k]] = reply[k]]
    /\ ThreadGoto(k, "stop")
    /\ UNCHANGED <<main, callVars, prog, reply, taken>>

ClearRunning(k) ==
    /\ ThreadAt(k, "stop")
    /\ prog' = [prog EXCEPT ![k].running = FALSE]
    /\ ThreadGoto(k, "done")
    /\ UNCHANGED <<main, callVars, reply, buffer, taken>>

-----------------------------------------------------------------------------
User == PressAbort \/ PressClose \/ Leave \/ \E o \in Ops : Ask(o)

\* What the main thread does by itself.
Main == \/ Launch \/ PollProgress \/ AsyncWait \/ AssertNotRunning
        \/ ReturnAborted \/ NotAborted \/ GetAsyncResponse

\* What a thread does without the server.
Thread(k) == \/ SetRunning(k) \/ ClearBuffer(k) \/ ProgressCallback(k)
             \/ StoreResponse(k) \/ ClearRunning(k)

Next == /\ User \/ Main \/ \E k \in Calls : Thread(k) \/ Perform(k)
        /\ UNCHANGED setting

Spec == Init /\ [][Next]_vars

\* The scheduler runs both threads and the timer goes on firing; neither the
\* user nor the server owes anything.
Fairness == /\ WF_vars(Main /\ UNCHANGED setting)
            /\ \A k \in Calls : WF_vars(Thread(k) /\ UNCHANGED setting)

FairSpec == Spec /\ Fairness

-----------------------------------------------------------------------------
(* Correctness *)

TypeOK ==
    /\ setting \in Settings
    /\ main \in [pc : MainSteps, call : 0..MaxCalls]
    /\ op \in [Calls -> Ops \cup {None}]
    /\ session \in [Calls -> 0..MaxCalls]
    /\ live \subseteq Calls
    /\ prog \in [Calls -> [alive : BOOLEAN, running : BOOLEAN, abort : BOOLEAN]]
    /\ thread \in [Calls -> ThreadSteps]
    /\ reply \in [Calls -> Calls \cup {Error, None}]
    /\ buffer \in [Calls -> Calls \cup {Error, None}]
    /\ taken \in [Calls -> Calls \cup {Error, None}]
    /\ main.pc = "menu" => taken[main.call] \in Calls

\* A caller goes on with the response to its own request, or with an error:
\* one buffer serves all calls of an addon_client, and a dialog that closes
\* early still leaves the thread to be joined (addon_client.cpp:355-359).
ResponseIsAsked == \A k \in Calls : taken[k] \in {None, k, Error}

\* No thread uses a progress_data or an addon_client that is gone: both are on
\* the stack of functions that return without joining when the user aborted
\* (addon_management.cpp:586-590, 616-620, 654-658).
NothingDangles ==
    \A k \in Calls : ~Over(k) => prog[k].alive /\ session[k] \in live

\* Once the user pressed abort the add-on manager comes back, even if the
\* server never answers.
AbortEnds ==
    (main.pc = "show" /\ prog[main.call].abort)
        ~> main.pc \in {"out", "menu", "update", "again", "leave"}

=============================================================================
