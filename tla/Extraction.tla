----------------------------- MODULE Extraction -----------------------------
(***************************************************************************)
(* jobs.py, LearningJobs.extract: a conversation event is sent to a        *)
(* provider, and the candidates it answers with are learned one by one.    *)
(* The extract lock is taken without waiting and held over the provider    *)
(* call; after each candidate the event's receipt is committed to          *)
(* runtime.sqlite, so that a retry (of the adapter, the source watcher or  *)
(* the history import) continues where a failed or killed call stopped.    *)
(* A retry asks the provider anew, and need not get the same answer.       *)
(*                                                                         *)
(* An event stands for an event id in one scope.  What a candidate says is *)
(* the message it quotes, its text, and whether it is an exact user        *)
(* statement; a receipt holds, per candidate index, the memory learned or  *)
(* Rejected (the code keeps the same as a list, a list and a counter).     *)
(* Memories that come from elsewhere are left out.                         *)
(***************************************************************************)
EXTENDS Naturals, Sequences

CONSTANTS
    Proc,           \* processes that extract
    Event,
    Turn,           \* the messages of an event
    Text,           \* what a candidate states
    Answers,        \* what a provider may answer with: sequences of candidates
    MaxCandidates,  \* an answer with more is refused
    Open, Rejected, \* outcomes of a candidate that name no memory
    NoProc, NoJob, NoMemory, Invalid

Index == 1 .. MaxCandidates

Candidate == [turn : Turn, text : Text, provisional : BOOLEAN]

\* uuid5 over the scope, the session and turn and the occurrence of a candidate.
Id == Event \X Index \X Turn

Memory == [text : Text, status : {"active", "provisional", "forgotten"}]

Receipt == [Index -> Id \cup {Open, Rejected}]

NoReceipt == [i \in Index |-> Open]

ASSUME ExtractionAssumption ==
    /\ MaxCandidates \in Nat
    /\ Answers \subseteq Seq(Candidate \cup {Invalid})
    /\ \A a \in Answers : Len(a) <= MaxCandidates
    /\ NoProc \notin Proc
    /\ NoMemory \notin Memory
    /\ Open \notin Id /\ Rejected \notin Id /\ Open # Rejected

Job == [event : Event, receipt : Receipt, answer : Answers \cup {<<>>}, index : Nat \ {0}]

VARIABLES
    memories,   \* what the vault holds of these events
    receipts,   \* extraction_receipts: the outcomes of an event's candidates
    done,       \* the events whose receipt says so
    lock,       \* the holder of .extract.lock
    pc,
    job         \* what each process works on, with its copy of the receipt

vars == <<memories, receipts, done, lock, pc, job>>

TypeOK ==
    /\ memories \in [Id -> Memory \cup {NoMemory}]
    /\ receipts \in [Event -> Receipt]
    /\ done \subseteq Event
    /\ lock \in Proc \cup {NoProc}
    /\ pc \in [Proc -> {"idle", "call", "candidate", "save"}]
    /\ job \in [Proc -> Job \cup {NoJob}]

Init ==
    /\ memories = [m \in Id |-> NoMemory]
    /\ receipts = [e \in Event |-> NoReceipt]
    /\ done = {}
    /\ lock = NoProc
    /\ pc = [p \in Proc |-> "idle"]
    /\ job = [p \in Proc |-> NoJob]

Goto(p, step) == pc' = [pc EXCEPT ![p] = step]

\* The call returns or raises, and unlocks.
Return(p) ==
    /\ Goto(p, "idle")
    /\ job' = [job EXCEPT ![p] = NoJob]
    /\ lock' = NoProc

-----------------------------------------------------------------------------

\* Mutant: the lock excludes nobody.
StartShared(p, e) ==
    /\ pc[p] = "idle"
    /\ e \notin done
    /\ lock' = p
    /\ Goto(p, "call")
    /\ job' = [job EXCEPT ![p] =
                  [event |-> e, receipt |-> receipts[e], answer |-> <<>>, index |-> 1]]
    /\ UNCHANGED <<memories, receipts, done>>

\* The lock is taken and the receipt read.  When the receipt is done, or the
\* lock is held, the call ends at once and changes nothing.
Start(p, e) ==
    /\ pc[p] = "idle" /\ lock = NoProc
    /\ e \notin done
    /\ lock' = p
    /\ Goto(p, "call")
    /\ job' = [job EXCEPT ![p] =
                  [event |-> e, receipt |-> receipts[e], answer |-> <<>>, index |-> 1]]
    /\ UNCHANGED <<memories, receipts, done>>

\* The provider answers, and every candidate is judged before the first is
\* learned.  An answer that is no list of candidates, or holds a secret, ends
\* the call (Stop).
Answer(p, answer) ==
    /\ pc[p] = "call"
    /\ job' = [job EXCEPT ![p].answer = answer]
    /\ Goto(p, "candidate")
    /\ UNCHANGED <<memories, receipts, done, lock>>

Left(p) == job[p].index <= Len(job[p].answer)
Outcome(p) == job[p].receipt[job[p].index]
Current(p) == job[p].answer[job[p].index]

\* An earlier call already dealt with this index.
Skip(p) ==
    /\ pc[p] = "candidate" /\ Left(p)
    /\ Outcome(p) # Open
    /\ job' = [job EXCEPT ![p].index = @ + 1]
    /\ UNCHANGED <<memories, receipts, done, lock, pc>>

Note(p, outcome) ==
    /\ job' = [job EXCEPT ![p].receipt[job[p].index] = outcome]
    /\ Goto(p, "save")

Reject(p) ==
    /\ pc[p] = "candidate" /\ Left(p)
    /\ Outcome(p) = Open /\ Current(p) = Invalid
    /\ Note(p, Rejected)
    /\ UNCHANGED <<memories, receipts, done, lock>>

\* What learn takes for a duplicate: the same occurrence, whatever became of
\* it, or the same statement in force.
Duplicates(id, c) ==
    {m \in Id : memories[m] # NoMemory /\
        (memories[m] # NoMemory =>
            \/ m = id
            \/ /\ memories[m].text = c.text
               /\ \/ memories[m].status = "active"
                  \/ memories[m].status = "provisional" /\ c.provisional)}

New(c) == [text |-> c.text, status |-> IF c.provisional THEN "provisional" ELSE "active"]

\* Mutant: what is known by its id only is learned again.
LearnAgain(p) ==
    /\ pc[p] = "candidate" /\ Left(p)
    /\ Outcome(p) = Open /\ Current(p) # Invalid
    /\ LET c == Current(p)
           id == <<job[p].event, job[p].index, c.turn>> IN
       /\ Note(p, id)
       /\ memories' = [memories EXCEPT ![id] = New(c)]
    /\ UNCHANGED <<receipts, done, lock>>

\* Mutant: a write that failed is noted all the same.
LearnNotedOnly(p) ==
    /\ pc[p] = "candidate" /\ Left(p)
    /\ Outcome(p) = Open /\ Current(p) # Invalid
    /\ LET c == Current(p)
           id == <<job[p].event, job[p].index, c.turn>> IN
       /\ Note(p, id)
       /\ memories' = [memories EXCEPT ![id] = New(c)] \/ UNCHANGED memories
    /\ UNCHANGED <<receipts, done, lock>>

Learn(p) ==
    /\ pc[p] = "candidate" /\ Left(p)
    /\ Outcome(p) = Open /\ Current(p) # Invalid
    /\ LET c == Current(p)
           id == <<job[p].event, job[p].index, c.turn>> IN
       \/ /\ \E m \in Duplicates(id, c) : Note(p, m)
          /\ UNCHANGED memories
       \/ /\ Duplicates(id, c) = {}
          /\ Note(p, id)
          /\ memories' = [memories EXCEPT ![id] = New(c)]
    /\ UNCHANGED <<receipts, done, lock>>

Save(p) ==
    /\ pc[p] = "save"
    /\ receipts' = [receipts EXCEPT ![job[p].event] = job[p].receipt]
    /\ job' = [job EXCEPT ![p].index = @ + 1]
    /\ Goto(p, "candidate")
    /\ UNCHANGED <<memories, done, lock>>

\* Every candidate has its outcome: the receipt is done.
Finish(p) ==
    /\ pc[p] = "candidate" /\ ~Left(p)
    /\ receipts' = [receipts EXCEPT ![job[p].event] = job[p].receipt]
    /\ done' = done \cup {job[p].event}
    /\ Return(p)
    /\ UNCHANGED memories

\* Anything raises (no budget, no provider, a bad answer, a busy vault or
\* database), or the process dies.
Stop(p) ==
    /\ pc[p] # "idle"
    /\ Return(p)
    /\ UNCHANGED <<memories, receipts, done>>

\* The user forgets a memory, whatever else is going on.
Forget(m) ==
    /\ memories[m] # NoMemory
    /\ memories[m] # NoMemory => memories[m].status # "forgotten"
    /\ memories' = [memories EXCEPT ![m].status = "forgotten"]
    /\ UNCHANGED <<receipts, done, lock, pc, job>>

Next ==
    \/ \E m \in Id : Forget(m)
    \/ \E p \in Proc :
          \/ Skip(p) \/ Reject(p) \/ Learn(p) \/ Save(p) \/ Finish(p) \/ Stop(p)
          \/ \E e \in Event : Start(p, e)
          \/ \E answer \in Answers : Answer(p, answer)

Spec == Init /\ [][Next]_vars

-----------------------------------------------------------------------------

\* A retry never reopens or rewrites what an earlier call recorded, whatever
\* it was answered this time.
OutcomeKept ==
    [][\A e \in Event, i \in Index : receipts[e][i] # Open =>
          receipts'[e][i] = receipts[e][i]]_vars

\* An index whose outcome is recorded is never learned again, so that a retry
\* with another answer makes no second memory of it; of a done event nothing
\* is ever learned again.
NeverRelearned ==
    [][\A e \in Event, i \in Index, t \in Turn :
          memories[<<e, i, t>>] = NoMemory /\ memories'[<<e, i, t>>] # NoMemory =>
              e \notin done /\ receipts[e][i] = Open]_vars

\* The vault is written before the receipt: what a receipt names is there.
ReceiptTruthful ==
    \A e \in Event, i \in Index :
        receipts[e][i] \in Id => memories[receipts[e][i]] # NoMemory

\* A forgotten memory does not come back: not even a retry of the occurrence
\* that the user has forgotten meanwhile stores it again.
ForgottenStays ==
    [][\A m \in Id : memories[m] # NoMemory =>
          /\ memories'[m] # NoMemory
          /\ memories'[m] # NoMemory /\ memories[m].status = "forgotten" =>
                memories'[m] = memories[m]]_vars
=============================================================================
