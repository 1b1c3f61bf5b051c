------------------------------- MODULE Hermes -------------------------------
(***************************************************************************)
(* hermes_provider.py: another agent, Hermes, remembers and forgets in a   *)
(* vault of this program through an adapter it loads (DeMemoryAdapter).    *)
(* The vault is the one MemoryStore promises; others use it too.           *)
(*                                                                         *)
(* An occurrence of the vault is made of the turn and the event that the   *)
(* model names.  Hermes numbers turns upwards, but starts again anywhere   *)
(* when a session is resumed, rewound or compacted, so that the adapter    *)
(* adds a number of its own for every such binding (a random nonce).  What *)
(* it refuses (no human turn, no quote, a vault error) changes nothing.    *)
(***************************************************************************)
EXTENDS MemoryFiles

CONSTANTS
    Profile,      \* the scope of the Hermes profile
    Event,        \* event ids the model names, again when it retries
    MaxBindings,  \* bound: sessions started, resumed, rewound
    MaxOrdinal    \* bound: turns of a binding

VARIABLES
    store,    \* the vault
    primary,  \* the agent talks to its user, not a scheduled or a sub-agent
    binding,  \* the nonce of the session; 0 before there is one
    turn,     \* the current turn: its number, the statement in the user's words
    used      \* auxiliary: events named in this turn

Store == INSTANCE MemoryStore

hermesVars == <<store, primary, binding, turn, used>>

Turn == [ordinal : 0 .. MaxOrdinal, said : Content, human : BOOLEAN]

ASSUME HermesAssumption ==
    /\ Profile \in Scope
    /\ {MaxBindings, MaxOrdinal} \subseteq Nat
    /\ (1 .. MaxBindings) \X (1 .. MaxOrdinal) \X Event \subseteq Occurrence
    /\ Uuid \cap (Scope \X Occurrence) = {}   \* version 4 and version 5
    /\ Content # {}

Own == (1 .. MaxBindings) \X (1 .. MaxOrdinal) \X Event

HermesTypeOK ==
    /\ Store!TypeOK
    /\ primary \in BOOLEAN
    /\ binding \in 0 .. MaxBindings
    /\ turn \in Turn
    /\ used \subseteq Event

NoTurn == [ordinal |-> 0, said |-> CHOOSE c \in Content : TRUE, human |-> FALSE]

HermesInit ==
    /\ Store!Init
    /\ primary = FALSE
    /\ binding = 0
    /\ turn = NoTurn
    /\ used = {}

-----------------------------------------------------------------------------

\* Mutant: the nonce is drawn once.
SwitchSessionSameNonce ==
    /\ binding' = 1
    /\ turn' = NoTurn /\ used' = {}

\* on_session_switch.
SwitchSession ==
    /\ binding < MaxBindings
    /\ binding' = binding + 1
    /\ turn' = NoTurn /\ used' = {}

\* initialize, and a session resumed, rewound or compacted later.
Initialize(main) == SwitchSession /\ primary' = main /\ UNCHANGED store
Resume == binding > 0 /\ SwitchSession /\ UNCHANGED <<store, primary>>

\* on_turn_start.  A message of a bot, or one that cannot be used (too long, or
\* with a secret), is not a human turn.
TurnStart(n, c, human) ==
    /\ binding > 0
    /\ n > turn.ordinal
    /\ turn' = [ordinal |-> n, said |-> c, human |-> human]
    /\ used' = {}
    /\ UNCHANGED <<store, primary, binding>>

\* dememory_learn.  Only the user's words, and only when the model does not
\* call them its inference, become active.
LearnTool(e, c, k, target, inference) ==
    LET occurrence  == <<binding, turn.ordinal, e>>
        provisional == inference \/ c # turn.said
    IN  /\ primary /\ turn.human
        /\ target = NoId \/ ~provisional
        /\ \/ Store!Learn(Profile, occurrence, c, k, target, provisional)
           \/ /\ Duplicate(store, <<Profile, occurrence>>, Profile, k, c, provisional)
              /\ UNCHANGED store
        /\ used' = used \cup {e}
        /\ UNCHANGED <<primary, binding, turn>>

\* dememory_forget, within the scope of the profile.
ForgetTool(i) ==
    /\ primary /\ turn.human
    /\ store[i] # NoFile /\ store[i].scope = Profile
    /\ Store!Forget(i)
    /\ UNCHANGED <<primary, binding, turn, used>>

\* prefetch, dememory_context, and whatever is refused.
Recall == binding > 0 /\ UNCHANGED hermesVars

\* Every other client of the vault.
OtherClients ==
    /\ \/ \E i \in Uuid, s \in Scope, c \in Content : Store!Remember(i, s, c)
       \/ \E s \in Scope, o \in Occurrence \ Own, c \in Content, k \in Key \cup {NoKey},
             target \in Id \cup {NoId}, provisional \in BOOLEAN :
                Store!Learn(s, o, c, k, target, provisional)
       \/ \E i \in Id : Store!Forget(i)
    /\ UNCHANGED <<primary, binding, turn, used>>

HermesNext ==
    \/ \E main \in BOOLEAN : Initialize(main)
    \/ Resume
    \/ \E n \in 1 .. MaxOrdinal, c \in Content, human \in BOOLEAN : TurnStart(n, c, human)
    \/ \E e \in Event, c \in Content, k \in Key \cup {NoKey}, target \in Id \cup {NoId},
          inference \in BOOLEAN : LearnTool(e, c, k, target, inference)
    \/ \E i \in Id : ForgetTool(i)
    \/ Recall
    \/ OtherClients

HermesSpec == HermesInit /\ [][HermesNext]_hermesVars

-----------------------------------------------------------------------------

\* integrations.md and the comment in on_turn_start: a new binding "must not
\* silently discard a later keyed correction".  When the model saves the user's
\* words under a key and an event id it has not used in this turn, they are in
\* force afterwards, whatever was learned, corrected and forgotten in earlier
\* turns and sessions, and by others; else the call had answered with an error.
NothingSwallowed ==
    [][\A e \in Event \ used, k \in Key, target \in Id \cup {NoId} :
          LearnTool(e, turn.said, k, target, FALSE) =>
             \E i \in Current(store', Profile, k) : store'[i].content = turn.said]_hermesVars
=============================================================================
