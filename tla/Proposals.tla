----------------------------- MODULE Proposals -----------------------------
(***************************************************************************)
(* proposals.py: review files that modules create and a person accepts or  *)
(* rejects.  Accepting remembers the text under an id derived from the     *)
(* proposal (uuid5), then marks the file; both steps run under the         *)
(* proposals lock, and the first also takes the vault lock.  Creating a    *)
(* proposal takes no lock at all.                                          *)
(*                                                                         *)
(* The vault is seen through what it promises (MemoryStore): remember with *)
(* a supplied id either stores the memory, returns the stored one as it    *)
(* is, or fails, and anybody may forget it later.                          *)
(***************************************************************************)
EXTENDS Naturals, FiniteSets

CONSTANTS
    Proc,        \* processes using the store
    Proposal,    \* proposal ids (uuid4) that may ever be drawn
    MaxProposals,\* MAX_PROPOSAL_FILES
    NoProc, NoProposal

ASSUME ProposalsAssumption ==
    /\ MaxProposals \in Nat
    /\ NoProc \notin Proc
    /\ NoProposal \notin Proposal

ASSUME ProcAssumption == IsFiniteSet(Proc) /\ Proc # {}

VARIABLES
    status,   \* the file of each proposal: absent, pending, accepted, rejected
    memory,   \* the memory under the proposal's id: none, active, forgotten
    lock,     \* the holder of .ai-dememory.proposals.lock
    pc,       \* how far each process is
    job       \* the proposal it works on

vars == <<status, memory, lock, pc, job>>

TypeOK ==
    /\ status \in [Proposal -> {"absent", "pending", "accepted", "rejected"}]
    /\ memory \in [Proposal -> {"none", "active", "forgotten"}]
    /\ lock \in Proc \cup {NoProc}
    /\ pc \in [Proc -> {"idle", "counted", "locked", "accepting", "saved", "rejecting"}]
    /\ job \in [Proc -> Proposal \cup {NoProposal}]

Init ==
    /\ status = [x \in Proposal |-> "absent"]
    /\ memory = [x \in Proposal |-> "none"]
    /\ lock = NoProc
    /\ pc = [p \in Proc |-> "idle"]
    /\ job = [p \in Proc |-> NoProposal]

Present == {x \in Proposal : status[x] # "absent"}

\* _paths() raises for every caller once there are more files than allowed.
Readable == Cardinality(Present) <= MaxProposals

-----------------------------------------------------------------------------
(***************************************************************************)
(* propose: count the files, then write a new one.                         *)
(***************************************************************************)
\* Mutant: the last file is counted too late.
CountOffByOne(p) ==
    /\ pc[p] = "idle"
    /\ Cardinality(Present) <= MaxProposals
    /\ pc' = [pc EXCEPT ![p] = "counted"]
    /\ UNCHANGED <<status, memory, lock, job>>

Count(p) ==
    /\ pc[p] = "idle"
    /\ Cardinality(Present) < MaxProposals
    /\ pc' = [pc EXCEPT ![p] = "counted"]
    /\ UNCHANGED <<status, memory, lock, job>>

Propose(p, x) ==
    /\ pc[p] = "counted"
    /\ status[x] = "absent"
    /\ status' = [status EXCEPT ![x] = "pending"]
    /\ pc' = [pc EXCEPT ![p] = "idle"]
    /\ UNCHANGED <<memory, lock, job>>

-----------------------------------------------------------------------------
(***************************************************************************)
(* decide: lock, read the proposal, remember it when accepted, write the   *)
(* decision.                                                               *)
(***************************************************************************)

Lock(p) ==
    /\ pc[p] = "idle"
    /\ lock = NoProc
    /\ lock' = p
    /\ pc' = [pc EXCEPT ![p] = "locked"]
    /\ UNCHANGED <<status, memory, job>>

\* The end of a decision, an exception or a crash gives the lock back.
Return(p) ==
    /\ lock' = NoProc
    /\ pc' = [pc EXCEPT ![p] = "idle"]
    /\ job' = [job EXCEPT ![p] = NoProposal]

\* Mutant: a decided proposal can be decided again.
DecideAgain(p, x, accept) ==
    /\ pc[p] = "locked"
    /\ IF Readable /\ status[x] # "absent"
       THEN /\ pc' = [pc EXCEPT ![p] = IF accept THEN "accepting" ELSE "rejecting"]
            /\ job' = [job EXCEPT ![p] = x]
            /\ UNCHANGED lock
       ELSE Return(p)
    /\ UNCHANGED <<status, memory>>

\* Only a pending proposal can be decided; anything else is an error.
Decide(p, x, accept) ==
    /\ pc[p] = "locked"
    /\ IF Readable /\ status[x] = "pending"
       THEN /\ pc' = [pc EXCEPT ![p] = IF accept THEN "accepting" ELSE "rejecting"]
            /\ job' = [job EXCEPT ![p] = x]
            /\ UNCHANGED lock
       ELSE Return(p)
    /\ UNCHANGED <<status, memory>>

\* Mutant: a failure to save the memory is not an error of the decision.
RememberAnyway(p) ==
    /\ pc[p] = "accepting"
    /\ \/ /\ memory' = [memory EXCEPT ![job[p]] = IF @ = "none" THEN "active" ELSE @]
          /\ pc' = [pc EXCEPT ![p] = "saved"]
          /\ UNCHANGED <<status, lock, job>>
       \/ /\ pc' = [pc EXCEPT ![p] = "saved"]
          /\ UNCHANGED <<status, memory, lock, job>>

\* vault.remember with the derived id: a new memory, the stored one as it is
\* (whatever became of it), or an error (vault busy, full, I/O) that ends the
\* decision and leaves the proposal pending.
Remember(p) ==
    /\ pc[p] = "accepting"
    /\ \/ /\ memory' = [memory EXCEPT ![job[p]] = IF @ = "none" THEN "active" ELSE @]
          /\ pc' = [pc EXCEPT ![p] = "saved"]
          /\ UNCHANGED <<status, lock, job>>
       \/ Return(p) /\ UNCHANGED <<status, memory>>

\* The decision is written over the proposal file, unless that write fails.
WriteDecision(p) ==
    /\ \/ /\ pc[p] = "saved"
          /\ status' = [status EXCEPT ![job[p]] = "accepted"]
       \/ /\ pc[p] = "rejecting"
          /\ status' = [status EXCEPT ![job[p]] = "rejected"]
       \/ pc[p] \in {"saved", "rejecting"} /\ UNCHANGED status
    /\ Return(p)
    /\ UNCHANGED memory

-----------------------------------------------------------------------------

\* Anybody may forget the memory through the vault.
Forget(x) ==
    /\ memory[x] = "active"
    /\ memory' = [memory EXCEPT ![x] = "forgotten"]
    /\ UNCHANGED <<status, lock, pc, job>>

\* A person may remove a reviewed proposal file (architecture.md).
Remove(x) ==
    /\ status[x] \in {"accepted", "rejected"}
    /\ status' = [status EXCEPT ![x] = "absent"]
    /\ UNCHANGED <<memory, lock, pc, job>>

Crash(p) ==
    /\ pc[p] # "idle"
    /\ pc' = [pc EXCEPT ![p] = "idle"]
    /\ job' = [job EXCEPT ![p] = NoProposal]
    /\ lock' = IF lock = p THEN NoProc ELSE lock
    /\ UNCHANGED <<status, memory>>

\* uuid4 never draws an id twice: an id that left no file and no memory stands
\* for the next one drawn.
Fresh(x) == status[x] = "absent" /\ memory[x] = "none"

Next ==
    \/ \E p \in Proc :
          \/ Count(p) \/ Lock(p) \/ Remember(p) \/ WriteDecision(p) \/ Crash(p)
          \/ \E x \in Proposal : Fresh(x) /\ Propose(p, x)
          \/ \E x \in Proposal, accept \in BOOLEAN : Decide(p, x, accept)
    \/ \E x \in Proposal : Forget(x) \/ Remove(x)

Spec == Init /\ [][Next]_vars

-----------------------------------------------------------------------------

\* An accepted proposal has its memory: the decision is never recorded
\* without the verified save, whatever fails or dies on the way.
AcceptedIsSaved == \A x \in Proposal : status[x] = "accepted" => memory[x] # "none"

\* A decision is final: competing, repeated or interrupted decisions never
\* turn an accepted proposal into a rejected one or back into a pending one.
DecidedOnce ==
    [][\A x \in Proposal : status[x] \in {"accepted", "rejected"} =>
          status'[x] \in {status[x], "absent"}]_vars

\* A memory appears only while its own pending proposal is being accepted.
SavedByAcceptance ==
    [][\A x \in Proposal : memory[x] = "none" /\ memory'[x] # "none" =>
          status[x] = "pending" /\ \E p \in Proc : lock = p /\ job[p] = x]_vars

\* architecture.md: "Proposals are capped at ... 1,000 files total".  Proposers
\* that counted together all write, so the cap can be exceeded (and then every
\* read of the store fails), but by no more than one file for each other
\* process, however often they come back and die.
OverLimitBounded == Cardinality(Present) < MaxProposals + Cardinality(Proc)
=============================================================================
