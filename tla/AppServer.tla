----------------------------- MODULE AppServer -----------------------------
(***************************************************************************)
(* codex_subscription.py: a child process that is asked over pipes.  Three *)
(* threads share one _AppServer: the caller, which sends requests and waits*)
(* for their answers; a reader, which puts what the child writes into a    *)
(* bounded queue; and a watchdog, which closes the server after a fixed    *)
(* lifetime.  A login leaves its server open between calls (_pending), and *)
(* other operations use a server of their own meanwhile.  The workbench is *)
(* single-threaded, so there is one caller.                                *)
(*                                                                         *)
(* The child may write anything at any time, be silent, or exit.  Reading  *)
(* a line and putting it into the queue is one step.                       *)
(***************************************************************************)
EXTENDS Naturals, Sequences

CONSTANTS
    QueueSize,   \* maxsize of incoming (32)
    MaxEvents,   \* events kept while a request waits (128)
    Requests     \* bound: requests of one operation

Server == {"login", "work"}

ASSUME AppServerAssumption == {QueueSize, MaxEvents, Requests} \subseteq Nat \ {0}

\* The answer to the request that waits, another message, or a request of the
\* child's own.
Message == {"answer", "event", "tool"}

VARIABLES
    child,      \* the process of each server
    scratch,    \* whether its temporary directory exists
    reader,     \* its reader thread
    watchdog,   \* its timer
    queue,      \* incoming
    events,     \* how many messages wait in events
    unsent,     \* whether a message stuck in the buffer of its input
    closed,
    closer,     \* who is inside close(), under close_lock, and how far
    pending,    \* _pending: a login is under way
    call        \* what the caller is doing

vars == <<child, scratch, reader, watchdog, queue, events, unsent, closed, closer, pending, call>>

Nobody == [thread |-> "none", at |-> "out"]

Idle == [op |-> "idle", at |-> "out", server |-> "work", left |-> 0]

TypeOK ==
    /\ child \in [Server -> {"none", "live", "exited", "reaped"}]
    /\ scratch \in [Server -> BOOLEAN]
    /\ reader \in [Server -> {"off", "reading", "ended"}]
    /\ watchdog \in [Server -> {"off", "armed", "fired"}]
    /\ queue \in [Server -> Seq(Message)] /\ \A s \in Server : Len(queue[s]) <= QueueSize
    /\ events \in [Server -> 0 .. MaxEvents]
    /\ {unsent, closed} \subseteq [Server -> BOOLEAN]
    /\ closer \in [Server -> [thread : {"none", "caller", "watchdog"},
                              at : {"out", "kill", "reap", "clean"}]]
    /\ pending \in BOOLEAN
    /\ call \in [op : {"idle", "login", "replace", "status", "cancel", "use"},
                 at : {"out", "open", "send", "wait", "turn", "reply", "close", "closing"},
                 server : Server, left : Nat]

Init ==
    /\ child = [s \in Server |-> "none"]
    /\ scratch = [s \in Server |-> FALSE]
    /\ reader = [s \in Server |-> "off"]
    /\ watchdog = [s \in Server |-> "off"]
    /\ queue = [s \in Server |-> <<>>]
    /\ events = [s \in Server |-> 0]
    /\ unsent = [s \in Server |-> FALSE]
    /\ closed = [s \in Server |-> FALSE]
    /\ closer = [s \in Server |-> Nobody]
    /\ pending = FALSE
    /\ call = Idle

Set(f, s, value) == [f EXCEPT ![s] = value]

-----------------------------------------------------------------------------
(***************************************************************************)
(* The child and the reader thread.                                        *)
(***************************************************************************)
ChildExits(s) ==
    /\ child[s] = "live"
    /\ child' = Set(child, s, "exited")
    /\ UNCHANGED <<scratch, reader, watchdog, queue, events, unsent, closed, closer, pending, call>>

\* The reader thread ends: the child exited, its line was too long or not JSON,
\* or the server is closed.
ReaderEnds(s) ==
    /\ reader[s] = "reading"
    /\ reader' = Set(reader, s, "ended")
    /\ UNCHANGED <<child, scratch, watchdog, queue, events, unsent, closed, closer,
                   pending, call>>

\* A line arrives.  put_nowait raises when the queue is full.
Reads(s, m) ==
    /\ reader[s] = "reading" /\ child[s] # "reaped"
    /\ IF Len(queue[s]) < QueueSize
       THEN queue' = Set(queue, s, Append(queue[s], m)) /\ UNCHANGED reader
       ELSE /\ reader' = Set(reader, s, "ended") /\ UNCHANGED queue
    /\ UNCHANGED <<child, scratch, watchdog, events, unsent, closed, closer, pending, call>>

-----------------------------------------------------------------------------
(***************************************************************************)
(* close(): idempotent, under a lock, called by the caller and by the      *)
(* watchdog.                                                               *)
(***************************************************************************)

\* Whoever closes first also cancels the timer, unless it has fired.
Close(thread, s) ==
    /\ closed' = Set(closed, s, TRUE)
    /\ closer' = Set(closer, s, [thread |-> thread, at |-> "kill"])
    /\ watchdog' = IF thread = "watchdog" \/ watchdog[s] = "armed" THEN Set(watchdog, s, "off") ELSE watchdog

\* The second closer finds nothing to do.
Leave(thread, s) ==
    /\ watchdog' = IF thread = "watchdog" THEN Set(watchdog, s, "off") ELSE watchdog
    /\ UNCHANGED <<closed, closer>>

\* Mutant: the flag is looked at before the lock is taken.
EnterUnlocked(thread, s) ==
    \/ closed[s] /\ Leave(thread, s)
    \/ ~closed[s] /\ closer[s] = Nobody /\ Close(thread, s)

Enter(thread, s) ==
    /\ closer[s] = Nobody
    /\ IF closed[s] THEN Leave(thread, s) ELSE Close(thread, s)

At(thread, s, step) == closer[s] = [thread |-> thread, at |-> step]
Proceed(s, step) == closer' = [closer EXCEPT ![s].at = step]

\* Mutant: the directory goes before the child.
KillLate(thread, s) ==
    /\ At(thread, s, "kill")
    /\ scratch' = Set(scratch, s, FALSE)
    /\ Proceed(s, "reap")
    /\ child' = IF child[s] = "live" THEN Set(child, s, "exited") ELSE child
    /\ UNCHANGED <<reader, watchdog, queue, events, unsent,
                   closed, pending, call>>

\* The process group is killed.
Kill(thread, s) ==
    /\ At(thread, s, "kill")
    /\ child' = IF child[s] = "live" THEN Set(child, s, "exited") ELSE child
    /\ Proceed(s, "reap")
    /\ UNCHANGED <<scratch, reader, watchdog, queue, events, unsent,
                   closed, pending, call>>

\* The child is waited for and its pipes are closed.  Closing its input writes
\* what is left in the buffer; when that fails close() ends there, and the
\* directory stays until the server object is collected.
Reap(thread, s) ==
    /\ At(thread, s, "reap")
    /\ child[s] # "live"
    /\ child' = IF child[s] = "exited" THEN Set(child, s, "reaped") ELSE child
    /\ IF unsent[s] THEN closer' = Set(closer, s, Nobody) ELSE Proceed(s, "clean")
    /\ UNCHANGED <<scratch, reader, watchdog, queue, events, unsent,
                   closed, pending, call>>

\* The reader is joined, for two seconds at most, and the directory removed.
Clean(thread, s) ==
    /\ At(thread, s, "clean")
    /\ scratch' = Set(scratch, s, FALSE)
    /\ closer' = Set(closer, s, Nobody)
    /\ UNCHANGED <<child, reader, watchdog, queue, events, unsent,
                   closed, pending, call>>

Closing(thread, s) == Kill(thread, s) \/ Reap(thread, s) \/ Clean(thread, s)

-----------------------------------------------------------------------------
(***************************************************************************)
(* The watchdog.  A timer that has fired can no longer be cancelled.       *)
(***************************************************************************)

\* Mutant: the timeout is noted for the next request only.
ExpireOnlyNotes(s) ==
    /\ watchdog[s] = "armed"
    /\ watchdog' = Set(watchdog, s, "off")
    /\ UNCHANGED <<child, scratch, reader, queue, events, unsent, closed, closer,
                   pending, call>>

Expire(s) ==
    /\ watchdog[s] = "armed"
    /\ watchdog' = Set(watchdog, s, "fired")
    /\ UNCHANGED <<child, scratch, reader, queue, events, unsent, closed, closer,
                   pending, call>>

Watchdog(s) ==
    \/ Expire(s)
    \/ /\ watchdog[s] = "fired" /\ Enter("watchdog", s)
       /\ UNCHANGED <<child, scratch, reader, queue, events, unsent, pending, call>>
    \/ Closing("watchdog", s)

-----------------------------------------------------------------------------
(***************************************************************************)
(* The caller.                                                             *)
(***************************************************************************)
My == call.server
Others == <<child, scratch, reader, watchdog, queue, events, unsent, closed, closer>>

\* start_login cancels a pending login first ("replace"), login_status asks the
\* pending server, or one of its own like list_models and generate ("use").
Begin(op) ==
    /\ call = Idle
    /\ op \in {"replace", "status", "cancel"} => pending
    /\ op = "login" => ~pending
    /\ call' = [op |-> op, at |-> IF op \in {"login", "use"} THEN "open" ELSE "send",
                server |-> IF op = "use" THEN "work" ELSE "login",
                left |-> IF op = "use" THEN Requests ELSE IF op = "login" THEN 2 ELSE 1]
    /\ pending' = (pending /\ op \in {"status", "use"})
    /\ UNCHANGED Others

Goto(step) == call' = [call EXCEPT !.at = step]

\* A new server: nothing is left of the threads of the one before it.  Its
\* first request is initialize.
Open ==
    /\ call.at = "open"
    /\ reader[My] # "reading" /\ watchdog[My] = "off" /\ closer[My] = Nobody
    /\ \/ call' = Idle /\ UNCHANGED Others        \* no account directory
       \/ /\ scratch' = Set(scratch, My, TRUE)
          /\ queue' = Set(queue, My, <<>>) /\ events' = Set(events, My, 0)
          /\ unsent' = Set(unsent, My, FALSE)
          /\ closed' = Set(closed, My, FALSE)
          /\ UNCHANGED closer
          /\ \/ /\ Goto("close")                  \* no executable
                /\ child' = Set(child, My, "none")
                /\ UNCHANGED <<reader, watchdog>>
             \/ /\ Goto("send")
                /\ child' = Set(child, My, "live")
                /\ reader' = Set(reader, My, "reading")
                /\ watchdog' = Set(watchdog, My, "armed")
    /\ UNCHANGED pending

\* The operation is over, well or not, and with it the server; a pending login
\* whose status cannot be had, or is final, is given up.
End ==
    /\ Goto("close")
    /\ pending' = (pending /\ call.op # "status")

\* A message is written if the child reads it; a child may close its input.
\* After a request its answer is waited for; the child's own request is
\* answered with an error, and that ends the operation.
Send ==
    /\ call.at \in {"send", "reply"} /\ child[My] # "reaped"
    /\ \/ call.at = "send" /\ Goto("wait") /\ UNCHANGED <<unsent, pending>>
       \/ call.at = "reply" /\ End /\ UNCHANGED unsent
       \/ End /\ unsent' = Set(unsent, My, TRUE)
    /\ UNCHANGED <<child, scratch, reader, watchdog, queue, events, closed, closer>>

\* The pipe is broken, or closed.
SendFails ==
    /\ call.at \in {"send", "reply"} /\ child[My] # "live"
    /\ End
    /\ unsent' = Set(unsent, My, unsent[My] \/ child[My] = "exited")
    /\ UNCHANGED <<child, scratch, reader, watchdog, queue, events, closed, closer>>

\* The last answer is in: a login stays open; a status may leave it open;
\* generate waits for its turn to complete.
Succeed ==
    \/ call.op = "login" /\ call' = Idle /\ pending' = TRUE
    \/ call.op = "status" /\ call' = Idle /\ UNCHANGED pending
    \/ call.op = "use" /\ Goto("turn") /\ UNCHANGED pending

Answered ==
    \/ call.left > 1 /\ call' = [call EXCEPT !.at = "send", !.left = @ - 1] /\ UNCHANGED pending
    \/ call.left = 1 /\ Succeed
    \/ End

\* receive() takes a message; one that asks for something is to be replied to.
Reply == Goto("reply") /\ UNCHANGED pending

\* request() takes a message: its answer, one to keep, or one too many.
Wait ==
    /\ call.at = "wait" /\ queue[My] # <<>>
    /\ LET m == Head(queue[My])
           keep == m = "event" /\ events[My] < MaxEvents IN
       /\ \/ m = "tool" /\ Reply
          \/ m = "answer" /\ Answered
          \/ keep /\ UNCHANGED <<call, pending>>
          \/ m = "event" /\ ~keep /\ End
       /\ events' = IF keep THEN Set(events, My, events[My] + 1) ELSE events
    /\ queue' = Set(queue, My, Tail(queue[My]))
    /\ UNCHANGED <<child, scratch, reader, watchdog, unsent, closed, closer>>

\* generate takes a kept or a new message, until the turn is over.
Turn ==
    /\ call.at = "turn"
    /\ \/ /\ events[My] > 0
          /\ events' = Set(events, My, events[My] - 1)
          /\ End \/ UNCHANGED <<call, pending>>
          /\ UNCHANGED queue
       \/ /\ events[My] = 0 /\ queue[My] # <<>>
          /\ queue' = Set(queue, My, Tail(queue[My]))
          /\ IF Head(queue[My]) = "tool" THEN Reply ELSE End \/ UNCHANGED <<call, pending>>
          /\ UNCHANGED events
    /\ UNCHANGED <<child, scratch, reader, watchdog, unsent, closed, closer>>

\* Mutant: the deadline is not looked at; the empty queue is polled for ever.
GiveUpNever ==
    /\ call.at = "wait" \/ (call.at = "turn" /\ events[My] = 0)
    /\ UNCHANGED vars

\* receive() ends: at its deadline, or when nothing more can come.
GiveUp ==
    /\ call.at = "wait" \/ (call.at = "turn" /\ events[My] = 0)
    /\ End
    /\ UNCHANGED Others

\* The caller lets go of a server that is closed, and of what it received.
CallerCloses ==
    \/ /\ call.at = "close" /\ Enter("caller", My) /\ Goto("closing")
       /\ UNCHANGED <<child, scratch, reader, queue, events, unsent, pending>>
    \/ Closing("caller", My)
    \/ /\ call.at = "closing" /\ closer[My].thread # "caller"
       /\ \/ /\ call.op = "replace"
             /\ call' = [op |-> "login", at |-> "open", server |-> "login", left |-> 2]
          \/ (call.op = "replace" => unsent[My]) /\ call' = Idle    \* its close() raised
       /\ queue' = Set(queue, My, <<>>) /\ events' = Set(events, My, 0)
       /\ UNCHANGED <<child, scratch, reader, watchdog, unsent, closed, closer, pending>>

Step == Open \/ SendFails \/ Wait \/ Turn \/ CallerCloses

Next ==
    \/ \E op \in {"login", "replace", "status", "cancel", "use"} : Begin(op)
    \/ Step \/ Send \/ GiveUp
    \/ \E s \in Server :
          \/ ChildExits(s) \/ ReaderEnds(s) \/ Watchdog(s)
          \/ \E m \in Message : Reads(s, m)

Spec == Init /\ [][Next]_vars

\* Threads run and time passes, and the reader sees the end of a child that is
\* gone; nothing is expected of the child, which may never read its input.
FairSpec ==
    /\ Spec
    /\ WF_vars(Step) /\ WF_vars(GiveUp)
    /\ \A s \in Server :
          WF_vars(Watchdog(s)) /\ WF_vars(child[s] # "live" /\ ReaderEnds(s))

-----------------------------------------------------------------------------

\* workbench.md: "starts a bounded child process".  After an operation no
\* process of its server is left, whoever closed it, and no directory unless a
\* message, a request or a reply to the child's own, could not be written; only
\* a pending login keeps them.
NothingLeft ==
    call = Idle => \A s \in Server :
        child[s] \in {"live", "exited"} \/ (scratch[s] /\ ~unsent[s]) => s = "login" /\ pending

\* The directory a child works in is removed only when the child is gone.
ScratchLast == \A s \in Server : ~scratch[s] => child[s] \in {"none", "reaped"}

\* Every operation ends although the child is silent, floods the queue, does
\* not read or dies, and although the watchdog closes the server meanwhile.
RequestEnds == call # Idle ~> call = Idle

\* workbench.md: "Pending login expires after ten minutes".  A login nobody asks
\* about again does not leave its child running.
LoginExpires == pending ~> (~pending \/ child["login"] = "reaped")
=============================================================================
