-------------------------- MODULE AppServerProofs --------------------------
(***************************************************************************)
(* No child and no directory is left, and a directory goes after its child,*)
(* for every size of the queue and every number of requests.  The          *)
(* invariant: a server that was closed, with nobody inside close(), is     *)
(* gone; and one that is not gone is either that of the pending login or   *)
(* the one the caller is using and will close.                             *)
(***************************************************************************)
EXTENDS AppServer, TLAPS

core == <<child, scratch, unsent, closed, closer, pending, call>>

Closers == {Nobody} \cup [thread : {"caller", "watchdog"}, at : {"kill", "reap", "clean"}]

Calls == [op : {"idle", "login", "replace", "status", "cancel", "use"},
          at : {"out", "open", "send", "wait", "turn", "reply", "close", "closing"},
          server : Server, left : Nat]

Shape ==
    /\ child \in [Server -> {"none", "live", "exited", "reaped"}]
    /\ scratch \in [Server -> BOOLEAN]
    /\ unsent \in [Server -> BOOLEAN]
    /\ closed \in [Server -> BOOLEAN]
    /\ closer \in [Server -> Closers]
    /\ pending \in BOOLEAN
    /\ call \in Calls

NoChild(s) == child[s] \in {"none", "reaped"}

Gone(s) == NoChild(s) /\ (scratch[s] => unsent[s])

InOrder(s) ==
    /\ ~scratch[s] => NoChild(s)
    /\ closer[s].at = "clean" => NoChild(s)
    /\ closed[s] /\ closer[s] = Nobody => Gone(s)

InUse(s) == (s = "login" /\ pending) \/ (call.server = s /\ call.at \notin {"out", "open"})

Caller ==
    /\ call.at = "closing" => closed[My] /\ closer[My].thread # "watchdog"
    /\ call.op \in {"login", "replace", "status", "cancel"} => My = "login"
    /\ call.at = "open" => call.op \in {"login", "use"}
    /\ call.op = "status" /\ call.at \in {"send", "wait", "turn", "reply"} => pending

IInv == Shape /\ Caller /\ \A s \in Server : InOrder(s) /\ (Gone(s) \/ InUse(s))

LEMMA NobodyIs == Nobody.thread = "none" /\ Nobody.at = "out"
  BY DEF Nobody

LEMMA IdleIs == Idle \in Calls /\ Idle.op = "idle" /\ Idle.at = "out" /\ Idle.server = "work"
  BY DEF Idle, Calls, Server

\* A step keeps the invariant when it changes the caller only, and its server
\* stays in use, or is that of the pending login.
LEMMA CallerStep ==
    ASSUME IInv, UNCHANGED <<child, scratch, closed, closer>>,
           unsent' \in [Server -> BOOLEAN], \A s \in Server : unsent[s] => unsent'[s],
           pending' \in BOOLEAN, call' \in Calls, Caller',
           \A s \in Server : InUse(s) => InUse(s)'
    PROVE  IInv'
<1>1. Shape'
  BY DEF IInv, Shape
<1>2. ASSUME NEW s \in Server PROVE InOrder(s)' /\ (Gone(s)' \/ InUse(s)')
  BY DEF IInv, InOrder, Gone, NoChild
<1> QED  BY <1>1, <1>2 DEF IInv

LEMMA InitSound == Init => IInv
<1> SUFFICES ASSUME Init PROVE IInv
  OBVIOUS
<1>1. Shape
  BY IdleIs DEF Init, Shape, Closers
<1>2. Caller
  BY IdleIs DEF Init, Caller
<1>3. ASSUME NEW s \in Server PROVE InOrder(s) /\ Gone(s)
  BY NobodyIs DEF Init, InOrder, Gone, NoChild
<1> QED  BY <1>1, <1>2, <1>3 DEF IInv

LEMMA ExitSound == ASSUME IInv, NEW s \in Server, ChildExits(s) PROVE IInv'
<1>1. Shape'
  BY DEF ChildExits, Set, IInv, Shape
<1>3. Caller'
  BY DEF ChildExits, IInv, Caller, My
<1>2. ASSUME NEW r \in Server PROVE InOrder(r)' /\ (Gone(r)' \/ InUse(r)')
  BY DEF ChildExits, Set, IInv, Shape, InOrder, Gone, NoChild, InUse
<1> QED  BY <1>1, <1>2, <1>3 DEF IInv

\* Whoever enters close() closes the server, or finds that it is closed.
LEMMA EnterSound ==
    ASSUME IInv, NEW thread \in {"caller", "watchdog"}, NEW s \in Server, Enter(thread, s)
    PROVE  /\ closed' \in [Server -> BOOLEAN] /\ closer' \in [Server -> Closers]
           /\ closed'[s] /\ (closer'[s] = Nobody \/ closer'[s].thread = thread)
           /\ closed[s] => UNCHANGED <<closed, closer>>
           /\ \A r \in Server \ {s} : closed'[r] = closed[r] /\ closer'[r] = closer[r]
           /\ closer'[s] # Nobody => closer'[s].at = "kill"
           /\ closed'[s] /\ closer'[s] = Nobody => closed[s]
<1>1. CASE closed[s]
  BY <1>1 DEF Enter, Leave, IInv, Shape
<1>2. CASE ~closed[s]
  <2>1. closed' = [closed EXCEPT ![s] = TRUE]
        /\ closer' = [closer EXCEPT ![s] = [thread |-> thread, at |-> "kill"]]
    BY <1>2 DEF Enter, Close, Set
  <2>2. [thread |-> thread, at |-> "kill"] \in Closers
    BY DEF Closers
  <2>3. [thread |-> thread, at |-> "kill"] # Nobody
    BY NobodyIs
  <2> QED  BY <1>2, <2>1, <2>2, <2>3 DEF IInv, Shape
<1> QED  BY <1>1, <1>2

LEMMA WatchdogEnters ==
    ASSUME IInv, NEW s \in Server, Enter("watchdog", s),
           UNCHANGED <<child, scratch, unsent, pending, call>>
    PROVE  IInv'
<1>0. /\ closed' \in [Server -> BOOLEAN] /\ closer' \in [Server -> Closers]
      /\ closed'[s] /\ (closer'[s] = Nobody \/ closer'[s].thread = "watchdog")
      /\ closed[s] => UNCHANGED <<closed, closer>>
      /\ \A r \in Server \ {s} : closed'[r] = closed[r] /\ closer'[r] = closer[r]
      /\ closer'[s] # Nobody => closer'[s].at = "kill"
      /\ closed'[s] /\ closer'[s] = Nobody => closed[s]
  BY EnterSound
<1>1. Shape'
  BY <1>0 DEF IInv, Shape
<1>2. Caller'
  BY <1>0 DEF IInv, Shape, Calls, Caller, My
<1>3. ASSUME NEW r \in Server PROVE InOrder(r)' /\ (Gone(r)' \/ InUse(r)')
  BY <1>0, NobodyIs DEF IInv, InOrder, Gone, NoChild, InUse
<1> QED  BY <1>1, <1>2, <1>3 DEF IInv

LEMMA Proceeds ==
    ASSUME NEW s \in Server, NEW thread \in {"caller", "watchdog"}, NEW step, NEW next,
           At(thread, s, step), Proceed(s, next)
    PROVE  closer' = [closer EXCEPT ![s] = [thread |-> thread, at |-> next]]
<1>1. [closer[s] EXCEPT !.at = next] = [thread |-> thread, at |-> next]
  BY DEF At
<1>2. closer' = [closer EXCEPT ![s] = [closer[s] EXCEPT !.at = next]]
  BY DEF Proceed
<1> QED  BY <1>1, <1>2

\* Inside close() the thread that closes keeps its place or leaves.
LEMMA PlaceSound ==
    ASSUME IInv, NEW thread \in {"caller", "watchdog"}, NEW s \in Server, Closing(thread, s)
    PROVE  /\ closer' \in [Server -> Closers] /\ Caller'
           /\ \A r \in Server \ {s} : closer'[r] = closer[r]
<1>1. PICK next \in {Nobody} \cup [thread : {thread}, at : {"reap", "clean"}] :
         closer' = [closer EXCEPT ![s] = next]
  <2>1. CASE Kill(thread, s)
    BY <2>1, Proceeds DEF Kill
  <2>2. CASE Reap(thread, s)
    BY <2>2, Proceeds DEF Reap, Set
  <2>3. CASE Clean(thread, s)
    BY <2>3 DEF Clean, Set
  <2> QED  BY <2>1, <2>2, <2>3 DEF Closing
<1>2. next \in Closers
  BY DEF Closers
<1>3. closer[s].thread = thread
  <2>1. At(thread, s, "kill") \/ At(thread, s, "reap") \/ At(thread, s, "clean")
    BY DEF Closing, Kill, Reap, Clean
  <2> QED  BY <2>1 DEF At
<1>6. UNCHANGED <<closed, call, pending>>
  BY DEF Closing, Kill, Reap, Clean
<1>4. next.thread \in {"none", thread}
  BY NobodyIs
<1>5. Caller'
  BY <1>1, <1>3, <1>4, <1>6 DEF IInv, Shape, Calls, Caller, My
<1> QED  BY <1>1, <1>2, <1>5 DEF IInv, Shape

LEMMA ClosingSound ==
    ASSUME IInv, NEW thread \in {"caller", "watchdog"}, NEW s \in Server, Closing(thread, s)
    PROVE  IInv'
<1>1. Shape'
  BY PlaceSound DEF Closing, Kill, Reap, Clean, Set, IInv, Shape
<1>2. ASSUME NEW r \in Server PROVE InOrder(r)' /\ (Gone(r)' \/ InUse(r)')
  <2>0. UNCHANGED <<closed, call, pending, unsent>> /\ (r # s => closer'[r] = closer[r])
    BY PlaceSound DEF Closing, Kill, Reap, Clean
  <2>1. CASE Kill(thread, s)
    <3>1. closer' = [closer EXCEPT ![s] = [thread |-> thread, at |-> "reap"]]
      BY <2>1, Proceeds DEF Kill
    <3> QED  BY <2>0, <2>1, <3>1, NobodyIs
             DEF Kill, At, Set, IInv, Shape, InOrder, Gone, NoChild, InUse
  <2>2. CASE Reap(thread, s) /\ unsent[s]
    <3>1. closer' = [closer EXCEPT ![s] = Nobody] /\ closer[s] = [thread |-> thread, at |-> "reap"]
      BY <2>2 DEF Reap, Set, At
    <3> QED  BY <2>0, <2>2, <3>1, NobodyIs
             DEF Reap, Set, IInv, Shape, InOrder, Gone, NoChild, InUse
  <2>3. CASE Reap(thread, s) /\ ~unsent[s]
    <3>1. closer' = [closer EXCEPT ![s] = [thread |-> thread, at |-> "clean"]]
      BY <2>3, Proceeds DEF Reap
    <3> QED  BY <2>0, <2>3, <3>1, NobodyIs
             DEF Reap, At, Set, IInv, Shape, InOrder, Gone, NoChild, InUse
  <2>4. CASE Clean(thread, s)
    <3>1. closer' = [closer EXCEPT ![s] = Nobody] /\ closer[s] = [thread |-> thread, at |-> "clean"]
      BY <2>4 DEF Clean, Set, At
    <3> QED  BY <2>0, <2>4, <3>1, NobodyIs
             DEF Clean, Set, IInv, Shape, InOrder, Gone, NoChild, InUse
  <2> QED  BY <2>1, <2>2, <2>3, <2>4 DEF Closing
<1> QED  BY <1>1, <1>2, PlaceSound DEF IInv

-----------------------------------------------------------------------------
(***************************************************************************)
(* The caller.                                                             *)
(***************************************************************************)
LEMMA GotoIs ==
    ASSUME IInv, NEW step \in {"send", "wait", "turn", "reply", "close", "closing"}, Goto(step)
    PROVE  call' \in Calls /\ call'.at = step /\ call'.op = call.op /\ call'.server = call.server
BY DEF IInv, Shape, Calls, Goto

\* Ending an operation leaves its server in use, to be closed.
LEMMA EndSound ==
    ASSUME IInv, call.at \in {"send", "wait", "turn", "reply"}, End,
           UNCHANGED <<child, scratch, closed, closer>>,
           unsent' \in [Server -> BOOLEAN], \A s \in Server : unsent[s] => unsent'[s]
    PROVE  IInv'
<1>1. call' \in Calls /\ call'.at = "close" /\ call'.op = call.op /\ call'.server = call.server
  BY GotoIs DEF End
<1>2. pending' \in BOOLEAN
  BY DEF End, IInv, Shape
<1>3. Caller'
  BY <1>1 DEF IInv, Caller, My
<1>4. ASSUME NEW s \in Server, InUse(s) PROVE InUse(s)'
  <2>1. CASE call.server = s
    BY <1>1, <2>1 DEF InUse
  <2>2. CASE call.server # s
    <3>1. s = "login" /\ pending
      BY <1>4, <2>2 DEF InUse
    <3>2. call.op # "status"
      BY <2>2, <3>1 DEF IInv, Caller, My
    <3> QED  BY <3>1, <3>2 DEF InUse, End
  <2> QED  BY <2>1, <2>2
<1> QED  BY <1>1, <1>2, <1>3, <1>4, CallerStep

LEMMA BeginSound ==
    ASSUME IInv, NEW op \in {"login", "replace", "status", "cancel", "use"}, Begin(op)
    PROVE  IInv'
<1>1. /\ call = Idle /\ UNCHANGED <<child, scratch, unsent, closed, closer>>
      /\ pending' = (pending /\ op \in {"status", "use"})
  BY DEF Begin, Others
<1>2. call' = [op |-> op, at |-> IF op \in {"login", "use"} THEN "open" ELSE "send",
               server |-> IF op = "use" THEN "work" ELSE "login",
               left |-> IF op = "use" THEN Requests ELSE IF op = "login" THEN 2 ELSE 1]
  BY DEF Begin
<1>3. /\ call' \in Calls /\ call'.op = op
      /\ call'.at = IF op \in {"login", "use"} THEN "open" ELSE "send"
      /\ call'.server = IF op = "use" THEN "work" ELSE "login"
  BY <1>2, AppServerAssumption DEF Calls, Server
<1>4. op \in {"replace", "status", "cancel"} => pending
  BY DEF Begin
<1>5. Caller'
  BY <1>1, <1>3, <1>4 DEF Caller, My
<1>6. ASSUME NEW s \in Server, InUse(s) PROVE InUse(s)'
  <2>1. s = "login" /\ pending
    BY <1>1, <1>6, IdleIs DEF InUse
  <2>2. op # "login"
    BY <2>1 DEF Begin
  <2> QED  BY <1>1, <1>3, <2>1, <2>2 DEF InUse
<1>7. pending' \in BOOLEAN
  BY <1>1 DEF IInv, Shape
<1> QED  BY <1>1, <1>3, <1>5, <1>6, <1>7, CallerStep DEF IInv, Shape
\* What a closer may leave behind when a new server is opened in its place.
LEMMA OpenSound == ASSUME IInv, Open PROVE IInv'
<1>0. My \in Server /\ call.at = "open" /\ closer[My] = Nobody /\ UNCHANGED pending
  BY DEF Open, IInv, Shape, Calls, My
<1>1. CASE call' = Idle /\ UNCHANGED Others
  <2>1. Caller'
    BY <1>1, IdleIs DEF Caller
  <2>2. \A s \in Server : InUse(s) => InUse(s)'
    BY <1>0, <1>1 DEF InUse, My
  <2> QED  BY <1>0, <1>1, <2>1, <2>2, CallerStep, IdleIs DEF Others, IInv, Shape
<1>2. CASE ~(call' = Idle /\ UNCHANGED Others)
  <2>1. /\ scratch' = [scratch EXCEPT ![My] = TRUE] /\ closed' = [closed EXCEPT ![My] = FALSE]
        /\ unsent' = [unsent EXCEPT ![My] = FALSE] /\ UNCHANGED closer
    BY <1>2 DEF Open, Set
  <2>2. PICK c \in {"none", "live"} : child' = [child EXCEPT ![My] = c]
    BY <1>2 DEF Open, Set
  <2>3. PICK step \in {"send", "close"} : Goto(step)
    BY <1>2 DEF Open
  <2>4. call' \in Calls /\ call'.at = step /\ call'.op = call.op /\ call'.server = call.server
    BY <2>3, GotoIs
  <2>5. Shape'
    BY <1>0, <2>1, <2>2, <2>4 DEF IInv, Shape
  <2>6. call.op # "status"
    BY <1>0 DEF IInv, Caller
  <2>7. Caller'
    BY <2>4, <2>6 DEF IInv, Caller, My
  <2>8. ASSUME NEW s \in Server PROVE InOrder(s)' /\ (Gone(s)' \/ InUse(s)')
    <3>1. CASE s = My
      BY <1>0, <2>1, <2>4, <3>1, NobodyIs DEF IInv, Shape, InOrder, InUse, My
    <3>2. CASE s # My
      <4>1. UNCHANGED <<child[s], scratch[s], unsent[s], closed[s], closer[s]>>
        BY <2>1, <2>2, <3>2 DEF IInv, Shape
      <4>2. InOrder(s)'
        BY <4>1 DEF IInv, InOrder, NoChild, Gone
      <4>3. InUse(s) => InUse(s)'
        BY <1>0, <3>2 DEF InUse, My
      <4> QED  BY <4>1, <4>2, <4>3 DEF IInv, Gone, NoChild
    <3> QED  BY <3>1, <3>2
  <2> QED  BY <2>5, <2>7, <2>8 DEF IInv
<1> QED  BY <1>1, <1>2
LEMMA RequestSound == ASSUME IInv, Send \/ SendFails PROVE IInv'
<1>1. UNCHANGED <<child, scratch, closed, closer>> /\ call.at \in {"send", "reply"}
  BY DEF Send, SendFails
<1>2. unsent' \in [Server -> BOOLEAN] /\ \A s \in Server : unsent[s] => unsent'[s]
  <2>1. CASE UNCHANGED unsent
    BY <2>1 DEF IInv, Shape
  <2>2. CASE unsent' # unsent
    <3>1. PICK b \in BOOLEAN : unsent' = [unsent EXCEPT ![My] = b] /\ (unsent[My] => b)
      <4>1. CASE Send
        BY <2>2, <4>1 DEF Send, Set
      <4>2. CASE SendFails
        <5>1. (unsent[My] \/ child[My] = "exited") \in BOOLEAN
          OBVIOUS
        <5> QED  BY <4>2, <5>1 DEF SendFails, Set
      <4> QED  BY <4>1, <4>2
    <3> QED  BY <3>1 DEF IInv, Shape
  <2> QED  BY <2>1, <2>2
<1>3. CASE End
  BY <1>1, <1>2, <1>3, EndSound
<1>4. CASE Goto("wait") /\ UNCHANGED pending
  <2>1. call' \in Calls /\ call'.at = "wait" /\ call'.op = call.op /\ call'.server = call.server
    BY <1>4, GotoIs
  <2>2. Caller'
    BY <1>1, <1>4, <2>1 DEF IInv, Caller, My
  <2>3. \A s \in Server : InUse(s) => InUse(s)'
    BY <1>4, <2>1 DEF InUse
  <2> QED  BY <1>1, <1>2, <1>4, <2>1, <2>2, <2>3, CallerStep DEF IInv, Shape
<1> QED  BY <1>3, <1>4 DEF Send, SendFails

\* The child's own request is to be replied to; the server stays in use.
LEMMA ReplySound ==
    ASSUME IInv, call.at \in {"wait", "turn"}, Reply,
           UNCHANGED <<child, scratch, unsent, closed, closer>>
    PROVE  IInv'
<1>1. call' \in Calls /\ call'.at = "reply" /\ call'.op = call.op /\ call'.server = call.server
  BY GotoIs DEF Reply
<1>2. UNCHANGED pending
  BY DEF Reply
<1>3. call.op = "status" => pending
  BY DEF IInv, Caller
<1>4. Caller'
  BY <1>1, <1>2, <1>3 DEF IInv, Caller, My
<1>5. \A s \in Server : InUse(s) => InUse(s)'
  BY <1>1, <1>2 DEF InUse
<1> QED  BY <1>1, <1>2, <1>4, <1>5, CallerStep DEF IInv, Shape

LEMMA SucceedSound ==
    ASSUME IInv, call.at = "wait", Succeed, UNCHANGED <<child, scratch, unsent, closed, closer>>
    PROVE  IInv'
<1>1. CASE call.op = "use" /\ Goto("turn") /\ UNCHANGED pending
  <2>1. call' \in Calls /\ call'.at = "turn" /\ call'.op = call.op /\ call'.server = call.server
    BY <1>1, GotoIs
  <2>2. Caller'
    BY <1>1, <2>1 DEF IInv, Caller, My
  <2>3. \A s \in Server : InUse(s) => InUse(s)'
    BY <1>1, <2>1 DEF InUse
  <2> QED  BY <1>1, <2>1, <2>2, <2>3, CallerStep DEF IInv, Shape
<1>2. CASE call.op \in {"login", "status"} /\ call' = Idle /\ pending'
  <2>1. pending' \in BOOLEAN
    BY <1>2 DEF Succeed, IInv, Shape
  <2>2. Caller'
    BY <1>2, IdleIs DEF Caller
  <2>3. \A s \in Server : InUse(s) => InUse(s)'
    BY <1>2 DEF IInv, Caller, InUse, My
  <2> QED  BY <1>2, <2>1, <2>2, <2>3, CallerStep, IdleIs DEF IInv, Shape
<1>3. call.op = "status" => pending
  BY DEF IInv, Caller
<1> QED  BY <1>1, <1>2, <1>3 DEF Succeed

LEMMA WaitSound == ASSUME IInv, Wait PROVE IInv'
<1>1. UNCHANGED <<child, scratch, unsent, closed, closer>> /\ call.at = "wait"
  BY DEF Wait
<1>2. Reply \/ Answered \/ End \/ UNCHANGED <<call, pending>>
  BY DEF Wait
<1>3. CASE End
  BY <1>1, <1>3, EndSound DEF IInv, Shape
<1>4. CASE UNCHANGED <<call, pending>>
  <2>1. Caller'
    BY <1>1, <1>4 DEF IInv, Caller, My
  <2>2. \A s \in Server : InUse(s) => InUse(s)'
    BY <1>4 DEF InUse
  <2> QED  BY <1>1, <1>4, <2>1, <2>2, CallerStep DEF IInv, Shape
<1>5. CASE Answered
  <2>1. CASE call.left > 1 /\ call' = [call EXCEPT !.at = "send", !.left = @ - 1] /\ UNCHANGED pending
    <3>0. call.left - 1 \in Nat
      BY <2>1 DEF IInv, Shape, Calls
    <3>4. call' = [op |-> call.op, at |-> "send", server |-> call.server, left |-> call.left - 1]
      BY <2>1 DEF IInv, Shape, Calls
    <3>1. call' \in Calls /\ call'.at = "send" /\ call'.op = call.op /\ call'.server = call.server
      BY <3>0, <3>4 DEF IInv, Shape, Calls
    <3>2. Caller'
      BY <1>1, <2>1, <3>1 DEF IInv, Caller, My
    <3>3. \A s \in Server : InUse(s) => InUse(s)'
      BY <2>1, <3>1 DEF InUse
    <3> QED  BY <1>1, <2>1, <3>1, <3>2, <3>3, CallerStep DEF IInv, Shape
  <2>2. CASE Succeed
    BY <1>1, <2>2, SucceedSound
  <2>3. CASE End
    BY <1>3, <2>3
  <2> QED  BY <1>5, <2>1, <2>2, <2>3 DEF Answered
<1> QED  BY <1>1, <1>2, <1>3, <1>4, <1>5, ReplySound

LEMMA TurnSound == ASSUME IInv, Turn \/ GiveUp PROVE IInv'
<1>1. UNCHANGED <<child, scratch, unsent, closed, closer>> /\ call.at \in {"wait", "turn"}
  BY DEF Turn, GiveUp, Others
<1>2. Reply \/ End \/ UNCHANGED <<call, pending>>
  BY DEF Turn, GiveUp
<1>3. CASE End
  BY <1>1, <1>3, EndSound DEF IInv, Shape
<1>4. CASE UNCHANGED <<call, pending>>
  <2>1. Caller'
    BY <1>1, <1>4 DEF IInv, Caller, My
  <2>2. \A s \in Server : InUse(s) => InUse(s)'
    BY <1>4 DEF InUse
  <2> QED  BY <1>1, <1>4, <2>1, <2>2, CallerStep DEF IInv, Shape
<1> QED  BY <1>1, <1>2, <1>3, <1>4, ReplySound

LEMMA CallerClosesSound == ASSUME IInv, CallerCloses PROVE IInv'
<1>0. My \in Server
  BY DEF IInv, Shape, Calls, My
<1>1. CASE Closing("caller", My)
  BY <1>0, <1>1, ClosingSound
<1>2. CASE call.at = "close" /\ Enter("caller", My) /\ Goto("closing")
           /\ UNCHANGED <<child, scratch, unsent, pending>>
  <2>0. /\ closed' \in [Server -> BOOLEAN] /\ closer' \in [Server -> Closers]
        /\ closed'[My] /\ (closer'[My] = Nobody \/ closer'[My].thread = "caller")
        /\ \A r \in Server \ {My} : closed'[r] = closed[r] /\ closer'[r] = closer[r]
        /\ closer'[My] # Nobody => closer'[My].at = "kill"
        /\ closed[My] => UNCHANGED <<closed, closer>>
        /\ closed'[My] /\ closer'[My] = Nobody => closed[My]
    BY <1>0, <1>2, EnterSound
  <2>1. call' \in Calls /\ call'.at = "closing" /\ call'.op = call.op /\ call'.server = call.server
    BY <1>2, GotoIs
  <2>2. Shape'
    BY <1>2, <2>0, <2>1 DEF IInv, Shape
  <2>3. Caller'
    BY <2>0, <2>1, NobodyIs DEF IInv, Caller, My
  <2>4. ASSUME NEW r \in Server PROVE InOrder(r)' /\ (Gone(r)' \/ InUse(r)')
    <3>1. InOrder(r)'
      BY <1>2, <2>0, NobodyIs DEF IInv, InOrder, Gone, NoChild
    <3>2. InUse(r) => InUse(r)'
      BY <1>2, <2>1 DEF InUse
    <3> QED  BY <1>2, <3>1, <3>2 DEF IInv, Gone, NoChild
  <2> QED  BY <2>2, <2>3, <2>4 DEF IInv
<1>3. CASE /\ call.at = "closing" /\ closer[My].thread # "caller"
           /\ call' \in {[op |-> "login", at |-> "open", server |-> "login", left |-> 2], Idle}
           /\ UNCHANGED <<child, scratch, unsent, closed, closer, pending>>
  <2>1. /\ UNCHANGED <<child, scratch, unsent, closed, closer, pending>>
        /\ call' \in Calls /\ call'.at \in {"open", "out"} /\ call'.op \in {"login", "idle"}
        /\ call'.op = "login" => call'.server = "login"
        /\ call'.op = "idle" => call'.at = "out"
    BY <1>3, IdleIs DEF Calls, Server
  <2>2. Gone(My)
    <3>1. closed[My] /\ closer[My].thread # "watchdog"
      BY <1>3 DEF IInv, Caller
    <3>2. closer[My] = Nobody
      BY <1>0, <1>3, <3>1 DEF IInv, Shape, Closers
    <3> QED  BY <1>0, <3>1, <3>2 DEF IInv, InOrder
  <2>3. Shape' /\ Caller'
    BY <2>1 DEF IInv, Shape, Caller, My
  <2>4. ASSUME NEW r \in Server PROVE InOrder(r)' /\ (Gone(r)' \/ InUse(r)')
    <3>1. InOrder(r)'
      BY <2>1 DEF IInv, InOrder, Gone, NoChild
    <3>2. Gone(r) => Gone(r)'
      BY <2>1 DEF Gone, NoChild
    <3>3. CASE r = My
      BY <2>2, <3>1, <3>2, <3>3
    <3>4. CASE r # My
      BY <2>1, <3>1, <3>2, <3>4 DEF IInv, InUse, My
    <3> QED  BY <3>3, <3>4
  <2> QED  BY <2>3, <2>4 DEF IInv
<1> QED  BY <1>1, <1>2, <1>3 DEF CallerCloses

LEMMA NextSound == ASSUME IInv, [Next]_vars PROVE IInv'
<1>1. CASE UNCHANGED core
  <2>1. UNCHANGED <<child, scratch, unsent, closed, closer, pending, call>>
    BY <1>1 DEF core
  <2>2. Caller'
    BY <2>1 DEF IInv, Caller, My
  <2>3. \A s \in Server : InUse(s) => InUse(s)'
    BY <2>1 DEF InUse
  <2> QED  BY <2>1, <2>2, <2>3, CallerStep DEF IInv, Shape
<1>2. CASE \E op \in {"login", "replace", "status", "cancel", "use"} : Begin(op)
  BY <1>2, BeginSound
<1>3. CASE Step \/ Send \/ GiveUp
  BY <1>3, OpenSound, RequestSound, WaitSound, TurnSound, CallerClosesSound DEF Step
<1>4. ASSUME NEW s \in Server, ChildExits(s) PROVE IInv'
  BY <1>4, ExitSound
<1>5. ASSUME NEW s \in Server, Watchdog(s) PROVE IInv'
  <2>1. CASE Expire(s)
    BY <1>1, <2>1 DEF Expire, core
  <2>2. CASE Enter("watchdog", s) /\ UNCHANGED <<child, scratch, unsent, pending, call>>
    BY <2>2, WatchdogEnters
  <2>3. CASE Closing("watchdog", s)
    BY <2>3, ClosingSound
  <2> QED  BY <1>5, <2>1, <2>2, <2>3 DEF Watchdog
<1>6. ASSUME NEW s \in Server, ReaderEnds(s) \/ \E m \in Message : Reads(s, m) PROVE IInv'
  BY <1>1, <1>6 DEF ReaderEnds, Reads, core
<1>7. CASE UNCHANGED vars
  BY <1>1, <1>7 DEF vars, core
<1> QED  BY <1>2, <1>3, <1>4, <1>5, <1>6, <1>7 DEF Next

\* The invariant holds in every state, whatever the child does.
THEOREM Invariant == Spec => []IInv
  BY InitSound, NextSound, PTL DEF Spec

\* After an operation no process of its server is left, whoever closed it, and
\* no directory unless a request or a reply could not be written, so that the
\* close() failed at what was in the buffer; a pending login keeps its own.
THEOREM Left == Spec => []NothingLeft
<1>1. IInv => NothingLeft
  BY IdleIs DEF IInv, Shape, Gone, NoChild, InUse, NothingLeft
<1> QED  BY <1>1, Invariant, PTL

\* A directory is removed only when its child is gone.
THEOREM Ordered == Spec => []ScratchLast
<1>1. IInv => ScratchLast
  BY DEF IInv, InOrder, NoChild, ScratchLast
<1> QED  BY <1>1, Invariant, PTL
=============================================================================
