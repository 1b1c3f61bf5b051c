-------------------------- MODULE ExtractionProofs --------------------------
(***************************************************************************)
(* What a receipt protects, for any number of processes, events, answers   *)
(* and crashes.  The invariant: only the holder of the extract lock has a  *)
(* copy of a receipt, its event is not done, and the copy differs from the *)
(* receipt at most in the candidate that is about to be saved.             *)
(***************************************************************************)
EXTENDS Extraction, Workbench, TLAPS

Step == {"idle", "call", "candidate", "save"}

Held == \A p \in Proc : pc[p] # "idle" => lock = p

Named(outcome) == outcome \in Id => memories[outcome] # NoMemory

Copy(p) ==
    pc[p] # "idle" =>
        /\ job[p] \in Job
        /\ job[p].event \notin done
        /\ pc[p] = "save" =>
              /\ job[p].index \in Index
              /\ receipts[job[p].event][job[p].index] = Open
              /\ Named(job[p].receipt[job[p].index])
        /\ \A i \in Index :
              \/ pc[p] = "save" /\ i = job[p].index
              \/ job[p].receipt[i] = receipts[job[p].event][i]

Copies == \A p \in Proc : Copy(p)

IInv == TypeOK /\ Held /\ ReceiptTruthful /\ Copies

-----------------------------------------------------------------------------

\* A step of the process that has the lock, or takes it, or gives it back.
LEMMA Frame ==
    ASSUME IInv, NEW p \in Proc, lock \in {p, NoProc},
           NEW step \in Step, NEW mine \in Job \cup {NoJob},
           pc' = [pc EXCEPT ![p] = step], job' = [job EXCEPT ![p] = mine],
           lock' = p \/ (lock' = NoProc /\ step = "idle")
    PROVE  /\ pc' \in [Proc -> Step] /\ job' \in [Proc -> Job \cup {NoJob}]
           /\ lock' \in Proc \cup {NoProc}
           /\ pc'[p] = step /\ job'[p] = mine
           /\ \A q \in Proc \ {p} : pc'[q] = "idle"
           /\ Held'
<1>1. /\ pc \in [Proc -> Step] /\ job \in [Proc -> Job \cup {NoJob}]
  BY DEF IInv, TypeOK, Step
<1>2. \A q \in Proc \ {p} : pc[q] = "idle"
  BY ExtractionAssumption DEF IInv, Held
<1>3. pc'[p] = step /\ job'[p] = mine /\ \A q \in Proc \ {p} : pc'[q] = "idle"
  BY <1>1, <1>2
<1>4. Held'
  BY <1>3 DEF Held
<1> QED  BY <1>1, <1>3, <1>4

\* What a step must show when it writes neither memories nor receipts.
LEMMA WorkKeeps ==
    ASSUME IInv, NEW p \in Proc, lock \in {p, NoProc},
           NEW step \in Step, NEW mine \in Job \cup {NoJob},
           pc' = [pc EXCEPT ![p] = step], job' = [job EXCEPT ![p] = mine],
           lock' = p \/ (lock' = NoProc /\ step = "idle"),
           UNCHANGED <<memories, receipts, done>>,
           step # "idle" => mine \in Job /\ mine.event \notin done,
           step = "save" => /\ mine.index \in Index
                            /\ receipts[mine.event][mine.index] = Open
                            /\ Named(mine.receipt[mine.index]),
           step # "idle" => \A i \in Index : \/ step = "save" /\ i = mine.index
                                            \/ mine.receipt[i] = receipts[mine.event][i]
    PROVE  IInv'
<1>1. /\ pc' \in [Proc -> Step] /\ job' \in [Proc -> Job \cup {NoJob}]
      /\ lock' \in Proc \cup {NoProc}
      /\ pc'[p] = step /\ job'[p] = mine
      /\ \A q \in Proc \ {p} : pc'[q] = "idle"
      /\ Held'
  BY Frame
<1>2. TypeOK'
  BY <1>1 DEF IInv, TypeOK, Step
<1>3. ReceiptTruthful'
  BY DEF IInv, ReceiptTruthful
<1>4. ASSUME NEW q \in Proc PROVE Copy(q)'
  <2>1. CASE q # p
    BY <1>1, <2>1 DEF Copy
  <2>2. CASE q = p
    BY <1>1, <2>2 DEF Copy, Named
  <2> QED  BY <2>1, <2>2
<1> QED  BY <1>1, <1>2, <1>3, <1>4 DEF IInv, Copies

\* What a process with the lock works on.
LEMMA InWork ==
    ASSUME IInv, NEW p \in Proc, pc[p] # "idle"
    PROVE  /\ lock = p /\ job[p] \in Job /\ Copy(p)
           /\ job[p].event \in Event /\ job[p].receipt \in Receipt
           /\ job[p].answer \in Answers \cup {<<>>} /\ job[p].index \in Nat \ {0}
           /\ job[p].event \notin done
<1>1. lock = p /\ Copy(p)
  BY DEF IInv, Held, Copies
<1>2. job[p] \in Job /\ job[p].event \notin done
  BY <1>1 DEF Copy
<1> QED  BY <1>1, <1>2 DEF Job

\* A candidate that is left has an index the receipt knows.
LEMMA LeftIndex ==
    ASSUME IInv, NEW p \in Proc, pc[p] = "candidate", Left(p)
    PROVE  /\ job[p].index \in Index
           /\ \A i \in Index : job[p].receipt[i] = receipts[job[p].event][i]
           /\ Current(p) \in Candidate \cup {Invalid}
<1>1. /\ job[p].answer \in Answers \cup {<<>>} /\ job[p].index \in Nat \ {0} /\ Copy(p)
  BY InWork
<1>2. /\ job[p].answer \in Seq(Candidate \cup {Invalid}) /\ Len(job[p].answer) <= MaxCandidates
  <2>1. CASE job[p].answer \in Answers
    BY <2>1, ExtractionAssumption
  <2>2. CASE job[p].answer = <<>>
    BY <2>2, ExtractionAssumption
  <2> QED  BY <1>1, <2>1, <2>2
<1>3. job[p].index \in 1 .. Len(job[p].answer) /\ Len(job[p].answer) \in Nat
  BY <1>1, <1>2 DEF Left
<1>4. job[p].index \in Index
  BY <1>2, <1>3, ExtractionAssumption DEF Index
<1> QED  BY <1>1, <1>2, <1>3, <1>4 DEF Copy, Current

LEMMA StartKeeps == ASSUME IInv, NEW p \in Proc, NEW e \in Event, Start(p, e) PROVE IInv'
<1> DEFINE mine == [event |-> e, receipt |-> receipts[e], answer |-> <<>>, index |-> 1]
<1>1. /\ lock = NoProc /\ e \notin done /\ lock' = p /\ pc' = [pc EXCEPT ![p] = "call"]
      /\ job' = [job EXCEPT ![p] = mine] /\ UNCHANGED <<memories, receipts, done>>
  BY DEF Start, Goto
<1>2. receipts[e] \in Receipt
  BY DEF IInv, TypeOK
<1>3. mine \in Job /\ mine.event = e /\ mine.receipt = receipts[e]
  BY <1>2 DEF Job
<1> HIDE DEF mine
<1> QED  BY <1>1, <1>3, WorkKeeps DEF Step

LEMMA AnswerKeeps ==
    ASSUME IInv, NEW p \in Proc, NEW answer \in Answers, Answer(p, answer) PROVE IInv'
<1> DEFINE mine == [job[p] EXCEPT !.answer = answer]
<1>1. /\ pc[p] = "call" /\ lock' = lock /\ pc' = [pc EXCEPT ![p] = "candidate"]
      /\ job' = [job EXCEPT ![p] = mine] /\ UNCHANGED <<memories, receipts, done>>
  BY DEF Answer, Goto
<1>2. lock = p /\ job[p] \in Job /\ Copy(p) /\ job[p].event \notin done
  BY <1>1, InWork
<1>3. mine \in Job /\ mine.event = job[p].event /\ mine.receipt = job[p].receipt
  BY <1>2 DEF Job
<1>4. \A i \in Index : mine.receipt[i] = receipts[mine.event][i]
  BY <1>1, <1>2, <1>3 DEF Copy
<1> HIDE DEF mine
<1> QED  BY <1>1, <1>2, <1>3, <1>4, WorkKeeps DEF Step

LEMMA SkipKeeps == ASSUME IInv, NEW p \in Proc, Skip(p) PROVE IInv'
<1> DEFINE mine == [job[p] EXCEPT !.index = @ + 1]
<1>1. /\ pc[p] = "candidate" /\ Left(p) /\ UNCHANGED <<lock, pc, memories, receipts, done>>
      /\ job' = [job EXCEPT ![p] = mine]
  BY DEF Skip
<1>2. lock = p /\ job[p] \in Job /\ job[p].event \notin done
  BY <1>1, InWork
<1>3. mine \in Job /\ mine.event = job[p].event /\ mine.receipt = job[p].receipt
  BY <1>2 DEF Job
<1>4. \A i \in Index : mine.receipt[i] = receipts[mine.event][i]
  BY <1>1, <1>3, LeftIndex
<1>5. pc' = [pc EXCEPT ![p] = "candidate"]
  BY <1>1 DEF IInv, TypeOK
<1> HIDE DEF mine
<1> QED  BY <1>1, <1>2, <1>3, <1>4, <1>5, WorkKeeps DEF Step

\* Noting an outcome of the current candidate, which was open.
LEMMA NoteShape ==
    ASSUME IInv, NEW p \in Proc, pc[p] = "candidate", Left(p), Outcome(p) = Open,
           NEW outcome \in Id \cup {Open, Rejected}
    PROVE  LET mine == [job[p] EXCEPT !.receipt[job[p].index] = outcome] IN
           /\ mine \in Job /\ mine.event = job[p].event /\ mine.index = job[p].index
           /\ mine.receipt[mine.index] = outcome
           /\ receipts[mine.event][mine.index] = Open
           /\ \A i \in Index : i = mine.index \/ mine.receipt[i] = receipts[mine.event][i]
<1> DEFINE receipt == [job[p].receipt EXCEPT ![job[p].index] = outcome]
           mine == [job[p] EXCEPT !.receipt[job[p].index] = outcome]
<1>1. /\ job[p] \in Job /\ job[p].receipt \in Receipt
  BY InWork
<1>2. job[p].index \in Index /\ \A i \in Index : job[p].receipt[i] = receipts[job[p].event][i]
  BY LeftIndex
<1>3. receipt \in Receipt /\ receipt[job[p].index] = outcome
  BY <1>1, <1>2 DEF Receipt
<1>4. \A i \in Index : i = job[p].index \/ receipt[i] = job[p].receipt[i]
  BY <1>1, <1>2 DEF Receipt
<1>5. mine = [job[p] EXCEPT !.receipt = receipt]
  BY <1>1 DEF Job
<1> HIDE DEF receipt, mine
<1>6. mine \in Job /\ mine.event = job[p].event /\ mine.index = job[p].index /\ mine.receipt = receipt
  BY <1>1, <1>3, <1>5 DEF Job
<1>7. receipts[job[p].event][job[p].index] = Open
  BY <1>2 DEF Outcome
<1> QED  BY <1>2, <1>3, <1>4, <1>6, <1>7 DEF mine

LEMMA RejectKeeps == ASSUME IInv, NEW p \in Proc, Reject(p) PROVE IInv'
<1> DEFINE mine == [job[p] EXCEPT !.receipt[job[p].index] = Rejected]
<1>1. /\ pc[p] = "candidate" /\ Left(p) /\ Outcome(p) = Open /\ lock' = lock
      /\ pc' = [pc EXCEPT ![p] = "save"] /\ job' = [job EXCEPT ![p] = mine]
      /\ UNCHANGED <<memories, receipts, done>>
  BY DEF Reject, Note, Goto
<1>2. /\ mine \in Job /\ mine.event = job[p].event /\ mine.index = job[p].index
      /\ mine.receipt[mine.index] = Rejected
      /\ receipts[mine.event][mine.index] = Open
      /\ \A i \in Index : i = mine.index \/ mine.receipt[i] = receipts[mine.event][i]
  BY <1>1, NoteShape
<1>3. lock = p /\ job[p].event \notin done
  BY <1>1, InWork
<1>4. job[p].index \in Index
  BY <1>1, LeftIndex
<1>5. Named(Rejected)
  BY ExtractionAssumption DEF Named
<1> HIDE DEF mine
<1> QED  BY <1>1, <1>2, <1>3, <1>4, <1>5, WorkKeeps DEF Step

LEMMA NewMemory == ASSUME NEW c \in Candidate PROVE New(c) \in Memory /\ New(c) # NoMemory
<1>1. New(c) \in Memory
  BY DEF New, Memory, Candidate
<1> QED  BY <1>1, ExtractionAssumption

\* What is learned is stored before it is noted.
LEMMA LearnEffect ==
    ASSUME IInv, NEW p \in Proc, Learn(p)
    PROVE  \E id \in Id :
              LET mine == [job[p] EXCEPT !.receipt[job[p].index] = id] IN
              /\ pc' = [pc EXCEPT ![p] = "save"] /\ job' = [job EXCEPT ![p] = mine]
              /\ memories' \in [Id -> Memory \cup {NoMemory}]
              /\ memories'[id] # NoMemory
              /\ \A m \in Id :
                    \/ memories'[m] = memories[m]
                    \/ /\ memories'[m] # NoMemory
                       /\ \E t \in Turn : m = <<job[p].event, job[p].index, t>>
<1> DEFINE c == Current(p)
           own == <<job[p].event, job[p].index, c.turn>>
<1>1. pc[p] = "candidate" /\ Left(p) /\ Current(p) # Invalid
  BY DEF Learn
<1>2. c \in Candidate /\ job[p].index \in Index
  BY <1>1, LeftIndex
<1>3. job[p].event \in Event
  BY <1>1, InWork
<1>4. c.turn \in Turn /\ own \in Id
  BY <1>2, <1>3 DEF Candidate, Id
<1>5. memories \in [Id -> Memory \cup {NoMemory}]
  BY DEF IInv, TypeOK
<1>6. CASE UNCHANGED memories /\ \E m \in Duplicates(own, c) : Note(p, m)
  <2>1. PICK m \in Duplicates(own, c) : Note(p, m)
    BY <1>6
  <2>2. m \in Id /\ memories[m] # NoMemory
    BY <2>1 DEF Duplicates
  <2>3. /\ pc' = [pc EXCEPT ![p] = "save"]
        /\ job' = [job EXCEPT ![p] = [job[p] EXCEPT !.receipt[job[p].index] = m]]
    BY <2>1 DEF Note, Goto
  <2> QED  BY <1>5, <1>6, <2>2, <2>3
<1>7. CASE Note(p, own) /\ memories' = [memories EXCEPT ![own] = New(c)]
  <2>1. New(c) \in Memory /\ New(c) # NoMemory
    BY <1>2, NewMemory
  <2>2. /\ pc' = [pc EXCEPT ![p] = "save"]
        /\ job' = [job EXCEPT ![p] = [job[p] EXCEPT !.receipt[job[p].index] = own]]
    BY <1>7 DEF Note, Goto
  <2> HIDE DEF c
  <2>3. \A m \in Id : memories'[m] = memories[m] \/ (m = own /\ memories'[m] # NoMemory)
    BY <1>4, <1>5, <1>7, <2>1
  <2>4. memories' \in [Id -> Memory \cup {NoMemory}] /\ memories'[own] # NoMemory
    BY <1>4, <1>5, <1>7, <2>1
  <2>5. \A m \in Id :
            \/ memories'[m] = memories[m]
            \/ /\ memories'[m] # NoMemory
               /\ \E t \in Turn : m = <<job[p].event, job[p].index, t>>
    BY <1>4, <2>3
  <2> HIDE DEF own
  <2> QED  BY <1>4, <2>2, <2>4, <2>5
<1> QED  BY <1>6, <1>7 DEF Learn

LEMMA LearnKeeps == ASSUME IInv, NEW p \in Proc, Learn(p) PROVE IInv'
<1>0. /\ pc[p] = "candidate" /\ Left(p) /\ Outcome(p) = Open
      /\ UNCHANGED <<receipts, done, lock>>
  BY DEF Learn
<1>1. PICK id \in Id :
          /\ pc' = [pc EXCEPT ![p] = "save"]
          /\ job' = [job EXCEPT ![p] = [job[p] EXCEPT !.receipt[job[p].index] = id]]
          /\ memories' \in [Id -> Memory \cup {NoMemory}]
          /\ memories'[id] # NoMemory
          /\ \A m \in Id : memories'[m] = memories[m] \/ memories'[m] # NoMemory
  BY LearnEffect
<1> DEFINE mine == [job[p] EXCEPT !.receipt[job[p].index] = id]
<1>2. /\ mine \in Job /\ mine.event = job[p].event /\ mine.index = job[p].index
      /\ mine.receipt[mine.index] = id
      /\ receipts[mine.event][mine.index] = Open
      /\ \A i \in Index : i = mine.index \/ mine.receipt[i] = receipts[mine.event][i]
  BY <1>0, NoteShape
<1>3. lock = p /\ job[p].event \notin done
  BY <1>0, InWork
<1>4. job[p].index \in Index
  BY <1>0, LeftIndex
<1>5. job' = [job EXCEPT ![p] = mine]
  BY <1>1
<1> HIDE DEF mine
<1>6. /\ pc' \in [Proc -> Step] /\ job' \in [Proc -> Job \cup {NoJob}]
      /\ lock' \in Proc \cup {NoProc}
      /\ pc'[p] = "save" /\ job'[p] = mine
      /\ \A q \in Proc \ {p} : pc'[q] = "idle"
      /\ Held'
  BY <1>0, <1>1, <1>2, <1>3, <1>5, Frame DEF Step
<1>7. TypeOK'
  BY <1>0, <1>1, <1>6 DEF IInv, TypeOK, Step
<1>8. ReceiptTruthful'
  BY <1>0, <1>1 DEF IInv, ReceiptTruthful
<1>9. Copy(p)'
  <2>1. mine \in Job /\ mine.event \notin done' /\ mine.index \in Index
    BY <1>0, <1>2, <1>3, <1>4
  <2>2. receipts'[mine.event][mine.index] = Open
    BY <1>0, <1>2
  <2>3. memories'[mine.receipt[mine.index]] # NoMemory
    BY <1>1, <1>2
  <2>4. \A i \in Index : i = mine.index \/ mine.receipt[i] = receipts'[mine.event][i]
    BY <1>0, <1>2
  <2> QED  BY <1>6, <2>1, <2>2, <2>3, <2>4, Zenon DEF Copy, Named
<1>10. \A q \in Proc : Copy(q)'
  BY <1>6, <1>9 DEF Copy
<1> QED  BY <1>6, <1>7, <1>8, <1>10 DEF IInv, Copies

\* What a save changes in the receipts: the noted outcome of one open index.
LEMMA SavedReceipt ==
    ASSUME IInv, NEW p \in Proc, pc[p] \in {"candidate", "save"},
           receipts' = [receipts EXCEPT ![job[p].event] = job[p].receipt]
    PROVE  /\ receipts' \in [Event -> Receipt]
           /\ receipts'[job[p].event] = job[p].receipt
           /\ \A e \in Event, i \in Index :
                 \/ receipts'[e][i] = receipts[e][i]
                 \/ receipts[e][i] = Open /\ Named(receipts'[e][i])
<1>1. /\ job[p].event \in Event /\ job[p].receipt \in Receipt /\ Copy(p)
  BY InWork
<1>2. receipts \in [Event -> Receipt]
  BY DEF IInv, TypeOK
<1>3. /\ receipts' \in [Event -> Receipt] /\ receipts'[job[p].event] = job[p].receipt
      /\ \A e \in Event \ {job[p].event} : receipts'[e] = receipts[e]
  BY <1>1, <1>2
<1>4. ASSUME NEW i \in Index
      PROVE  \/ job[p].receipt[i] = receipts[job[p].event][i]
             \/ receipts[job[p].event][i] = Open /\ Named(job[p].receipt[i])
  BY <1>1 DEF Copy
<1> QED  BY <1>3, <1>4

LEMMA SavedTruthful ==
    ASSUME IInv, NEW p \in Proc, pc[p] \in {"candidate", "save"}, UNCHANGED memories,
           receipts' = [receipts EXCEPT ![job[p].event] = job[p].receipt]
    PROVE  ReceiptTruthful'
<1> SUFFICES ASSUME NEW e \in Event, NEW i \in Index, receipts'[e][i] \in Id
             PROVE  memories[receipts'[e][i]] # NoMemory
  BY DEF ReceiptTruthful
<1>1. CASE receipts'[e][i] = receipts[e][i]
  BY <1>1 DEF IInv, ReceiptTruthful
<1>2. CASE Named(receipts'[e][i])
  BY <1>2 DEF Named
<1> QED  BY <1>1, <1>2, SavedReceipt

LEMMA SaveKeeps == ASSUME IInv, NEW p \in Proc, Save(p) PROVE IInv'
<1> DEFINE mine == [job[p] EXCEPT !.index = @ + 1]
<1>1. /\ pc[p] = "save" /\ UNCHANGED <<memories, done, lock>>
      /\ receipts' = [receipts EXCEPT ![job[p].event] = job[p].receipt]
      /\ pc' = [pc EXCEPT ![p] = "candidate"] /\ job' = [job EXCEPT ![p] = mine]
  BY DEF Save, Goto
<1>2. lock = p /\ job[p] \in Job /\ job[p].event \notin done
  BY <1>1, InWork
<1>3. mine \in Job /\ mine.event = job[p].event /\ mine.receipt = job[p].receipt
  BY <1>2 DEF Job
<1> HIDE DEF mine
<1>4. /\ pc' \in [Proc -> Step] /\ job' \in [Proc -> Job \cup {NoJob}]
      /\ lock' \in Proc \cup {NoProc}
      /\ pc'[p] = "candidate" /\ job'[p] = mine
      /\ \A q \in Proc \ {p} : pc'[q] = "idle"
      /\ Held'
  BY <1>1, <1>2, <1>3, Frame DEF Step
<1>5. receipts' \in [Event -> Receipt] /\ receipts'[mine.event] = mine.receipt
  BY <1>1, <1>3, SavedReceipt
<1>6. TypeOK'
  BY <1>1, <1>4, <1>5 DEF IInv, TypeOK, Step
<1>7. ReceiptTruthful'
  BY <1>1, SavedTruthful
<1>8. Copy(p)'
  BY <1>1, <1>2, <1>3, <1>4, <1>5 DEF Copy
<1>9. \A q \in Proc : Copy(q)'
  BY <1>4, <1>8 DEF Copy
<1> QED  BY <1>4, <1>6, <1>7, <1>9 DEF IInv, Copies

LEMMA FinishKeeps == ASSUME IInv, NEW p \in Proc, Finish(p) PROVE IInv'
<1>1. /\ pc[p] = "candidate" /\ UNCHANGED memories
      /\ receipts' = [receipts EXCEPT ![job[p].event] = job[p].receipt]
      /\ done' = done \cup {job[p].event} /\ lock' = NoProc
      /\ pc' = [pc EXCEPT ![p] = "idle"] /\ job' = [job EXCEPT ![p] = NoJob]
  BY DEF Finish, Return, Goto
<1>2. lock = p /\ job[p].event \in Event
  BY <1>1, InWork
<1>3. /\ pc' \in [Proc -> Step] /\ job' \in [Proc -> Job \cup {NoJob}]
      /\ lock' \in Proc \cup {NoProc}
      /\ pc'[p] = "idle"
      /\ \A q \in Proc \ {p} : pc'[q] = "idle"
      /\ Held'
  BY <1>1, <1>2, Frame DEF Step
<1>4. receipts' \in [Event -> Receipt]
  BY <1>1, SavedReceipt
<1>5. TypeOK'
  BY <1>1, <1>2, <1>3, <1>4 DEF IInv, TypeOK, Step
<1>6. ReceiptTruthful'
  BY <1>1, SavedTruthful
<1>7. \A q \in Proc : Copy(q)'
  BY <1>3 DEF Copy
<1> QED  BY <1>3, <1>5, <1>6, <1>7 DEF IInv, Copies

LEMMA StopKeeps == ASSUME IInv, NEW p \in Proc, Stop(p) PROVE IInv'
<1>1. /\ pc[p] # "idle" /\ lock' = NoProc /\ UNCHANGED <<memories, receipts, done>>
      /\ pc' = [pc EXCEPT ![p] = "idle"] /\ job' = [job EXCEPT ![p] = NoJob]
  BY DEF Stop, Return, Goto
<1>2. lock = p
  BY <1>1, InWork
<1> QED  BY <1>1, <1>2, WorkKeeps DEF Step

LEMMA ForgetKeeps == ASSUME IInv, NEW m \in Id, Forget(m) PROVE IInv'
<1> DEFINE new == [memories[m] EXCEPT !.status = "forgotten"]
<1>1. /\ memories[m] # NoMemory /\ memories' = [memories EXCEPT ![m] = new]
      /\ UNCHANGED <<receipts, done, lock, pc, job>>
  BY DEF Forget
<1>2. new \in Memory
  BY <1>1 DEF IInv, TypeOK, Memory
<1>3. new # NoMemory
  BY <1>2, ExtractionAssumption
<1> HIDE DEF new
<1>4. /\ memories' \in [Id -> Memory \cup {NoMemory}]
      /\ \A n \in Id : memories[n] # NoMemory => memories'[n] # NoMemory
  BY <1>1, <1>2, <1>3 DEF IInv, TypeOK
<1>5. TypeOK'
  BY <1>1, <1>4 DEF IInv, TypeOK
<1>6. ReceiptTruthful'
  BY <1>1, <1>4 DEF IInv, ReceiptTruthful
<1>7. ASSUME NEW q \in Proc, Copy(q) PROVE Copy(q)'
  BY <1>1, <1>4, <1>7 DEF Copy, Named
<1> QED  BY <1>1, <1>5, <1>6, <1>7 DEF IInv, Held, Copies

LEMMA Initially == Init => IInv
<1> SUFFICES ASSUME Init PROVE IInv
  OBVIOUS
<1> USE DEF Init
<1>1. [i \in Index |-> Open] \in Receipt
  BY DEF Receipt
<1>2. TypeOK
  BY <1>1 DEF TypeOK, NoReceipt
<1>3. ReceiptTruthful
  BY ExtractionAssumption DEF ReceiptTruthful, NoReceipt
<1>4. Held /\ Copies
  BY DEF Held, Copies, Copy
<1> QED  BY <1>2, <1>3, <1>4 DEF IInv

LEMMA Inductive == IInv /\ [Next]_vars => IInv'
<1> SUFFICES ASSUME IInv, [Next]_vars PROVE IInv'
  OBVIOUS
<1>1. CASE UNCHANGED vars
  BY <1>1 DEF vars, IInv, TypeOK, Held, ReceiptTruthful, Copies, Copy, Named
<1> QED  BY <1>1, StartKeeps, AnswerKeeps, SkipKeeps, RejectKeeps, LearnKeeps, SaveKeeps,
            FinishKeeps, StopKeeps, ForgetKeeps DEF Next

LEMMA Invariance == Spec => []IInv
  BY Initially, Inductive, PTL DEF Spec

-----------------------------------------------------------------------------

\* Receipts, memories and work keep their types.
THEOREM TypeCorrect == Spec => []TypeOK
  BY Invariance, PTL DEF IInv

\* Whatever fails or dies, a memory that a receipt names is in the vault.
THEOREM Truthful == Spec => []ReceiptTruthful
  BY Invariance, PTL DEF IInv

\* No retry reopens or rewrites a recorded outcome, for any answers.
THEOREM OutcomesKept == Spec => OutcomeKept
<1> DEFINE Keeps == \A e \in Event, i \in Index : receipts[e][i] # Open =>
                        receipts'[e][i] = receipts[e][i]
<1>1. IInv /\ [Next]_vars => [Keeps]_vars
  <2> SUFFICES ASSUME IInv, Next PROVE Keeps
    OBVIOUS
  <2>1. CASE UNCHANGED receipts
    BY <2>1
  <2>2. ASSUME NEW p \in Proc, Save(p) \/ Finish(p) PROVE Keeps
    <3>1. /\ pc[p] \in {"candidate", "save"}
          /\ receipts' = [receipts EXCEPT ![job[p].event] = job[p].receipt]
      BY <2>2 DEF Save, Finish
    <3> QED  BY <3>1, SavedReceipt
  <2> QED  BY <2>1, <2>2 DEF Next, Start, Answer, Skip, Reject, Learn, Stop, Forget
<1>2. IInv /\ [Next]_vars =>
          [\A e \in Event, i \in Index : receipts[e][i] # Open =>
              receipts'[e][i] = receipts[e][i]]_vars
  BY <1>1
<1> QED  BY <1>2, Invariance, PTL DEF Spec, OutcomeKept

\* Nothing of a recorded index or of a done event is learned again, for any
\* number of retries and whatever they are answered.
THEOREM LearnedOnce == Spec => NeverRelearned
<1> DEFINE Once == \A e \in Event, i \in Index, t \in Turn :
                       memories[<<e, i, t>>] = NoMemory /\ memories'[<<e, i, t>>] # NoMemory =>
                           e \notin done /\ receipts[e][i] = Open
<1>1. IInv /\ [Next]_vars => [Once]_vars
  <2> SUFFICES ASSUME IInv, Next PROVE Once
    OBVIOUS
  <2>1. CASE UNCHANGED memories
    BY <2>1
  <2>2. ASSUME NEW p \in Proc, Learn(p) PROVE Once
    <3>1. pc[p] = "candidate" /\ Left(p) /\ Outcome(p) = Open
      BY <2>2 DEF Learn
    <3>2. job[p].event \notin done
      BY <3>1, InWork
    <3>3. receipts[job[p].event][job[p].index] = Open
      BY <3>1, LeftIndex DEF Outcome
    <3>4. \A m \in Id : \/ memories'[m] = memories[m]
                        \/ \E t \in Turn : m = <<job[p].event, job[p].index, t>>
      BY <2>2, LearnEffect
    <3> QED  BY <3>2, <3>3, <3>4 DEF Id
  <2>3. ASSUME NEW m \in Id, Forget(m) PROVE Once
    <3>1. memories[m] # NoMemory /\ \A n \in Id : n = m \/ memories'[n] = memories[n]
      BY <2>3 DEF Forget, IInv, TypeOK
    <3> QED  BY <3>1 DEF Id
  <2> QED  BY <2>1, <2>2, <2>3 DEF Next, Start, Answer, Skip, Reject, Save, Finish, Stop
<1>2. IInv /\ [Next]_vars =>
          [\A e \in Event, i \in Index, t \in Turn :
              memories[<<e, i, t>>] = NoMemory /\ memories'[<<e, i, t>>] # NoMemory =>
                  e \notin done /\ receipts[e][i] = Open]_vars
  BY <1>1
<1> QED  BY <1>2, Invariance, PTL DEF Spec, NeverRelearned

\* What the user forgot stays forgotten, for any answers and any retries.
THEOREM ForgottenForGood == Spec => ForgottenStays
<1> DEFINE Stays == \A m \in Id : memories[m] # NoMemory =>
                       /\ memories'[m] # NoMemory
                       /\ memories'[m] # NoMemory /\ memories[m].status = "forgotten" =>
                             memories'[m] = memories[m]
<1>1. IInv /\ [Next]_vars => [Stays]_vars
  <2> SUFFICES ASSUME IInv, Next PROVE Stays
    OBVIOUS
  <2>0. memories \in [Id -> Memory \cup {NoMemory}]
    BY DEF IInv, TypeOK
  <2>1. CASE UNCHANGED memories
    BY <2>1
  \* A new memory takes the place of none.
  <2>2. ASSUME NEW p \in Proc, Learn(p) PROVE Stays
    <3> DEFINE c == Current(p)
               id == <<job[p].event, job[p].index, c.turn>>
    <3>1. UNCHANGED memories \/ (Duplicates(id, c) = {} /\ memories' = [memories EXCEPT ![id] = New(c)])
      BY <2>2 DEF Learn
    <3>2. ASSUME Duplicates(id, c) = {}, id \in Id PROVE memories[id] = NoMemory
      BY <3>2 DEF Duplicates
    <3> HIDE DEF id, c
    <3> QED  BY <2>0, <2>1, <3>1, <3>2
  <2>3. ASSUME NEW m \in Id, Forget(m) PROVE Stays
    <3>1. /\ memories[m] \in Memory /\ memories[m].status # "forgotten"
          /\ memories' = [memories EXCEPT ![m].status = "forgotten"]
      BY <2>0, <2>3 DEF Forget
    <3>2. memories'[m] \in Memory /\ \A n \in Id \ {m} : memories'[n] = memories[n]
      BY <2>0, <3>1 DEF Memory
    <3>3. memories'[m] # NoMemory
      BY <3>2, ExtractionAssumption
    <3> QED  BY <3>1, <3>2, <3>3
  <2> QED  BY <2>1, <2>2, <2>3 DEF Next, Start, Answer, Skip, Reject, Save, Finish, Stop
<1>2. IInv /\ [Next]_vars =>
          [\A m \in Id : memories[m] # NoMemory =>
             /\ memories'[m] # NoMemory
             /\ memories'[m] # NoMemory /\ memories[m].status = "forgotten" =>
                   memories'[m] = memories[m]]_vars
  BY <1>1
<1> QED  BY <1>2, Invariance, PTL DEF Spec, ForgottenStays

-----------------------------------------------------------------------------
(***************************************************************************)
(* The dashboard.  A confirmed preview was compared with the settings that *)
(* its engine then loads, unless they were saved in between.               *)
(***************************************************************************)
AsShown ==
    request.shown # NoPreview /\ ~raced =>
        /\ request.at = "checked" => settings = request.shown.routing
        /\ request.at = "calling" => request.engine = request.shown.routing

Requested ==
    /\ request = [at |-> request.at, shown |-> request.shown, engine |-> request.engine, left |-> request.left]
    /\ request.at \in {"idle", "checked", "calling"}
    /\ raced \in BOOLEAN

WorkbenchInv == Requested /\ AsShown

LEMMA Nobody == /\ NoRequest.at = "idle" /\ NoRequest.shown = NoPreview
                /\ NoRequest = [at |-> "idle", shown |-> NoPreview, engine |-> NoPreview, left |-> <<>>]
  BY DEF NoRequest

\* No request is under way.
LEMMA IdleKeeps ==
    ASSUME WorkbenchInv, request' = NoRequest, raced' \in BOOLEAN
    PROVE  WorkbenchInv'
  BY Nobody DEF WorkbenchInv, Requested, AsShown

LEMMA SettingsStand ==
    ASSUME WorkbenchInv, UNCHANGED <<request, raced>>, settings' = settings \/ request.at = "idle"
    PROVE  WorkbenchInv'
  BY DEF WorkbenchInv, Requested, AsShown

LEMMA WorkbenchStep == WorkbenchInv /\ [WorkbenchNext]_workbenchVars => WorkbenchInv'
<1> SUFFICES ASSUME WorkbenchInv, [WorkbenchNext]_workbenchVars PROVE WorkbenchInv'
  OBVIOUS
<1>1. ASSUME NEW s \in Settings, SaveSettings(s) PROVE WorkbenchInv'
  BY <1>1, SettingsStand DEF SaveSettings, Idle
<1>2. ASSUME NEW s \in Settings, OthersSave(s) PROVE WorkbenchInv'
  <2>1. request' = request /\ raced' = (raced \/ request.at = "checked")
    BY <1>2 DEF OthersSave
  <2>2. raced' \in BOOLEAN
    BY <2>1
  <2> QED  BY <2>1, <2>2 DEF WorkbenchInv, Requested, AsShown
<1>3. ASSUME NEW p \in Provider, ClearKey(p) \/ \E i \in Identity : SetKey(p, i) PROVE WorkbenchInv'
  BY <1>3, SettingsStand DEF SetKey, ClearKey
<1>4. ASSUME NEW on \in BOOLEAN, Switch(on) PROVE WorkbenchInv'
  BY <1>4, SettingsStand DEF Switch
<1>5. ASSUME NEW v, Extract(v) PROVE WorkbenchInv'
  <2>1. /\ request' = [NoRequest EXCEPT !.at = "checked", !.shown = v] /\ raced' = FALSE
        /\ v.routing = settings /\ settings' = settings
    BY <1>5 DEF Extract
  <2>2. request' = [at |-> "checked", shown |-> v, engine |-> NoPreview, left |-> <<>>]
    BY <2>1 DEF NoRequest
  <2> QED  BY <2>1, <2>2 DEF WorkbenchInv, Requested, AsShown
<1>6. CASE Background
  <2>1. request' = [at |-> "checked", shown |-> NoPreview, engine |-> NoPreview, left |-> <<>>]
    BY <1>6 DEF Background, NoRequest
  <2>2. request'.shown = NoPreview /\ request'.at = "checked" /\ raced' = FALSE
    BY <1>6, <2>1 DEF Background
  <2> QED  BY <2>1, <2>2 DEF WorkbenchInv, Requested, AsShown
<1>7. CASE Engine
  <2>1. /\ request' = [request EXCEPT !.at = "calling", !.engine = settings, !.left = settings.route]
        /\ request.at = "checked" /\ settings' = settings /\ raced' = raced
    BY <1>7 DEF Engine
  <2>2. request' = [at |-> "calling", shown |-> request.shown, engine |-> settings, left |-> settings.route]
    BY <2>1 DEF WorkbenchInv, Requested
  <2> QED  BY <2>1, <2>2 DEF WorkbenchInv, Requested, AsShown
<1>8. CASE Call
  <2>1. settings' = settings /\ raced' = raced /\ raced \in BOOLEAN
    BY <1>8 DEF Call, WorkbenchInv, Requested
  <2>2. CASE request' = [request EXCEPT !.left = Tail(@)]
    <3>1. request' = [at |-> request.at, shown |-> request.shown, engine |-> request.engine, left |-> Tail(request.left)]
      BY <2>2 DEF WorkbenchInv, Requested
    <3> QED  BY <2>1, <3>1 DEF WorkbenchInv, Requested, AsShown
  <2>3. CASE request' = NoRequest
    BY <2>1, <2>3, IdleKeeps
  <2> QED  BY <1>8, <2>2, <2>3 DEF Call
<1>9. CASE Fail \/ Restart
  BY <1>9, IdleKeeps DEF Fail, Restart, WorkbenchInv, Requested
<1>10. CASE ShowState \/ Prune \/ AddPreview \/ OthersSwitch \/ Clock \/ UNCHANGED workbenchVars
  BY <1>10, SettingsStand DEF ShowState, Prune, AddPreview, OthersSwitch, Clock, workbenchVars
<1> QED
  BY <1>1, <1>2, <1>3, <1>4, <1>5, <1>6, <1>7, <1>8, <1>9, <1>10 DEF WorkbenchNext

LEMMA WorkbenchStarts == WorkbenchInit => WorkbenchInv
  BY Nobody DEF WorkbenchInit, WorkbenchInv, Requested, AsShown

LEMMA WorkbenchInvariant == WorkbenchSpec => []WorkbenchInv
  BY WorkbenchStarts, WorkbenchStep, PTL DEF WorkbenchSpec

\* Text of a preview is sent along the routes it showed (workbench.py).
THEOREM SentWhereShown == WorkbenchSpec => SentAsShown
<1>1. WorkbenchInv /\ [WorkbenchNext]_workbenchVars =>
         [Call /\ request.shown # NoPreview /\ ~raced => request.engine = request.shown.routing]_workbenchVars
  BY DEF WorkbenchInv, AsShown, Call
<1> QED  BY <1>1, WorkbenchInvariant, PTL DEF WorkbenchSpec, SentAsShown

\* A key is held for the profile the user gave it for, and that still stands.
KeysStand ==
    /\ given = [p \in Provider |-> given[p]]
    /\ \A p \in Provider : keys[p] # NoKey => keys[p].secret = keys[p].tag /\ given[p] = keys[p].tag

\* Pruning leaves a key as it is, for the settings that it prunes by.
LEMMA PrunedKey ==
    ASSUME NEW s, NEW p \in Provider, Pruned(s)[p] # NoKey
    PROVE  Pruned(s)[p] = keys[p] /\ keys[p] # NoKey /\ keys[p].tag = s.identity[p]
  BY DEF Pruned

\* Every step prunes by some settings, and takes back what others stand for.
LEMMA KeysKept ==
    ASSUME KeysStand, UNCHANGED given, NEW s, keys' = keys \/ keys' = Pruned(s)
    PROVE  KeysStand'
<1>1. ASSUME NEW p \in Provider, keys'[p] # NoKey PROVE keys'[p] = keys[p]
  BY <1>1, PrunedKey
<1> QED  BY <1>1 DEF KeysStand

LEMMA KeysStep == KeysStand /\ [WorkbenchNext]_workbenchVars => KeysStand'
<1> SUFFICES ASSUME KeysStand, [WorkbenchNext]_workbenchVars PROVE KeysStand'
  OBVIOUS
<1>1. ASSUME NEW s \in Settings, SaveSettings(s) PROVE KeysStand'
  <2>1. keys' = Pruned(s) /\ given' = Standing(s)
    BY <1>1 DEF SaveSettings
  <2>2. given' = [p \in Provider |-> given'[p]]
    BY <2>1 DEF Standing
  <2>3. ASSUME NEW p \in Provider, keys'[p] # NoKey
        PROVE  keys'[p].secret = keys'[p].tag /\ given'[p] = keys'[p].tag
    <3>1. keys'[p] = keys[p] /\ keys[p] # NoKey /\ keys[p].tag = s.identity[p]
      BY <2>1, <2>3, PrunedKey
    <3>2. given[p] = s.identity[p] /\ keys[p].secret = keys[p].tag
      BY <3>1 DEF KeysStand
    <3>3. given'[p] = given[p]
      BY <2>1, <3>2 DEF Standing
    <3> QED  BY <3>1, <3>2, <3>3
  <2> QED  BY <2>2, <2>3 DEF KeysStand
<1>2. ASSUME NEW p \in Provider, NEW k, NEW i,
             keys' = [Pruned(settings) EXCEPT ![p] = k], given' = [given EXCEPT ![p] = i],
             k = NoKey \/ (k.secret = i /\ k.tag = i)
      PROVE  KeysStand'
  <2>1. given' = [q \in Provider |-> given'[q]] /\ given'[p] = i
    BY <1>2 DEF KeysStand
  <2>2. ASSUME NEW q \in Provider, q # p
        PROVE  given'[q] = given[q] /\ (keys'[q] # NoKey => keys'[q] = keys[q])
    <3>1. keys'[q] = Pruned(settings)[q]
      BY <1>2, <2>2 DEF Pruned
    <3> QED  BY <1>2, <2>2, <3>1, PrunedKey DEF KeysStand
  <2>3. keys'[p] = k
    BY <1>2 DEF Pruned
  <2>4. ASSUME NEW q \in Provider, keys'[q] # NoKey
        PROVE  keys'[q].secret = keys'[q].tag /\ given'[q] = keys'[q].tag
    <3>1. CASE q = p
      BY <1>2, <2>1, <2>3, <2>4, <3>1
    <3>2. CASE q # p
      BY <2>2, <2>4, <3>2 DEF KeysStand
    <3> QED  BY <3>1, <3>2
  <2> QED  BY <2>1, <2>4 DEF KeysStand
<1>3. ASSUME NEW p \in Provider, NEW i \in Identity, SetKey(p, i) PROVE KeysStand'
  <2>1. /\ keys' = [Pruned(settings) EXCEPT ![p] = [tag |-> i, secret |-> i]]
        /\ given' = [given EXCEPT ![p] = i]
    BY <1>3 DEF SetKey
  <2> QED  BY <1>2, <2>1
<1>4. ASSUME NEW p \in Provider, ClearKey(p) PROVE KeysStand'
  BY <1>2, <1>4 DEF ClearKey
<1>5. CASE Restart
  <2>1. keys' = [p \in Provider |-> NoKey] /\ given' = [p \in Provider |-> NoKey]
    BY <1>5 DEF Restart
  <2> QED  BY <2>1 DEF KeysStand
<1>6. CASE ShowState \/ Call
  BY <1>6, KeysKept DEF ShowState, Call
<1>7. ASSUME UNCHANGED <<keys, given>> PROVE KeysStand'
  BY <1>7, KeysKept
<1>8. ASSUME NEW s \in Settings, OthersSave(s) PROVE KeysStand'
  BY <1>7, <1>8 DEF OthersSave
<1>9. ASSUME NEW on \in BOOLEAN, Switch(on) PROVE KeysStand'
  BY <1>7, <1>9 DEF Switch
<1>10. ASSUME NEW v, Extract(v) PROVE KeysStand'
  BY <1>7, <1>10 DEF Extract
<1>11. CASE Prune \/ AddPreview \/ Background \/ Engine \/ Fail \/ OthersSwitch \/ Clock \/ UNCHANGED workbenchVars
  BY <1>7, <1>11 DEF Prune, AddPreview, Background, Engine, Fail, OthersSwitch, Clock, workbenchVars
<1> QED
  BY <1>1, <1>3, <1>4, <1>5, <1>6, <1>8, <1>9, <1>10, <1>11 DEF WorkbenchNext

\* A key is used only for the profile the user gave it for, and only as long as
\* that stands: until the user clears it or the dashboard saves another identity,
\* changed back later or not (resolve_credential, prune_credentials).
THEOREM KeysStayBound == WorkbenchSpec => []KeyBound
<1>1. WorkbenchInit => KeysStand
  BY DEF WorkbenchInit, KeysStand
<1>2. KeysStand => KeyBound
  <2> SUFFICES ASSUME KeysStand, NEW p \in Provider, NEW i \in Identity, Resolved(p, i) # NoKey
               PROVE  Resolved(p, i) = i /\ given[p] = i
    BY DEF KeyBound
  <2>1. Pruned(settings)[p] # NoKey /\ Pruned(settings)[p].tag = i /\ Resolved(p, i) = Pruned(settings)[p].secret
    BY DEF Resolved
  <2> QED  BY <2>1, PrunedKey DEF KeysStand
<1> QED  BY <1>1, <1>2, KeysStep, PTL DEF WorkbenchSpec
=============================================================================
