----------------------------- MODULE Workbench -----------------------------
(***************************************************************************)
(* builtin_modules/workbench.py: what the dashboard process keeps in       *)
(* memory between requests, namely previewed conversations that wait for   *)
(* confirmation, and the API keys of the session.  Both are bound to the   *)
(* settings they were made under; settings.json is shared with other       *)
(* processes (the setup command, an editor), which may save it at any      *)
(* moment.  The server handles one request, or one scheduled job, at a *)
(* time; a job loads the settings when it builds its engine, and again for *)
(* each key.  Every profile here is one that needs a key of the session.   *)
(*                                                                         *)
(* What is sent, and what the answer is good for, is left to Extraction.   *)
(***************************************************************************)
EXTENDS Naturals, Sequences

CONSTANTS
    Provider,     \* names of provider profiles
    Identity,     \* kind, address and authentication of a profile
    Settings,     \* what settings.json may say: the route (a sequence of names,
                  \* the primary first) and the identity of each profile
    Life,         \* lifetime of a preview (900 seconds)
    MaxPreviews,  \* previews kept (10)
    LastTime,     \* bound of the clock
    NoKey, NoPreview

Preview == [born : 0 .. LastTime, routing : Settings]

\* An entry of _credentials: the identity it is held for, and the key itself,
\* which is known by the profile that the user entered it for.
Key == [tag : Identity, secret : Identity]

VARIABLES
    settings,   \* settings.json: the route, the identity of each profile
    enabled,    \* whether config.toml enables the sources module
    now,
    keys,       \* _credentials
    previews,   \* _previews, in the order of insertion
    request,    \* the request or scheduled job that calls a provider
    raced,      \* auxiliary: whether others saved settings since it compared them
    given       \* auxiliary: for which identity the user gave a profile's key,
                \* until the key is cleared or the dashboard saves another one

workbenchVars == <<settings, enabled, now, keys, previews, request, raced, given>>

NoRequest == [at |-> "idle", shown |-> NoPreview, engine |-> NoPreview, left |-> <<>>]

WorkbenchTypeOK ==
    /\ settings \in Settings
    /\ settings \in [route : Seq(Provider), identity : [Provider -> Identity]]
    /\ enabled \in BOOLEAN
    /\ now \in 0 .. LastTime
    /\ keys \in [Provider -> Key \cup {NoKey}]
    /\ given \in [Provider -> Identity \cup {NoKey}]
    /\ previews \in Seq(Preview) /\ Len(previews) <= MaxPreviews
    /\ request \in [at : {"idle", "checked", "calling"}, shown : Preview \cup {NoPreview},
                engine : Settings \cup {NoPreview}, left : Seq(Provider)]
    /\ raced \in BOOLEAN

WorkbenchInit ==
    /\ settings \in Settings
    /\ enabled \in BOOLEAN
    /\ now = 0
    /\ keys = [p \in Provider |-> NoKey]
    /\ given = [p \in Provider |-> NoKey]
    /\ previews = <<>>
    /\ request = NoRequest
    /\ raced = FALSE

Idle == request.at = "idle"

\* prune_credentials: only keys of profiles that are as they were stay.
Pruned(s) ==
    [p \in Provider |-> IF keys[p] = NoKey \/ keys[p].tag # s.identity[p] THEN NoKey ELSE keys[p]]

\* What every use of the previews begins with.
Fresh == SelectSeq(previews, LAMBDA v : now - v.born < Life)

-----------------------------------------------------------------------------
(***************************************************************************)
(* Requests that end at once.                                              *)
(***************************************************************************)

\* What the user gave still stands for the profiles that are as they were.
Standing(s) == [p \in Provider |-> IF given[p] = s.identity[p] THEN given[p] ELSE NoKey]

\* Mutant: the keys are left to the next use.
SaveSettingsOnly(s) ==
    /\ Idle
    /\ settings' = s
    /\ given' = Standing(s)
    /\ UNCHANGED <<enabled, now, keys, previews, request, raced>>

SaveSettings(s) ==
    /\ Idle
    /\ settings' = s
    /\ keys' = Pruned(s)
    /\ given' = Standing(s)
    /\ UNCHANGED <<enabled, now, previews, request, raced>>

\* The user enters a key for a profile as the page shows it, which may be out
\* of date: the page saves the settings and then the key, in two requests.
SetKey(p, expected) ==
    /\ Idle
    /\ expected = settings.identity[p]
    /\ keys' = [Pruned(settings) EXCEPT ![p] = [tag |-> settings.identity[p], secret |-> expected]]
    /\ given' = [given EXCEPT ![p] = expected]
    /\ UNCHANGED <<settings, enabled, now, previews, request, raced>>

ClearKey(p) ==
    /\ Idle
    /\ keys' = [Pruned(settings) EXCEPT ![p] = NoKey]
    /\ given' = [given EXCEPT ![p] = NoKey]
    /\ UNCHANGED <<settings, enabled, now, previews, request, raced>>

\* The page asks for the state.
ShowState ==
    /\ Idle
    /\ keys' = Pruned(settings)
    /\ UNCHANGED <<settings, enabled, now, previews, request, raced, given>>

\* The server ticks, or a batch of previews is validated.
Prune ==
    /\ Idle
    /\ previews' = Fresh
    /\ UNCHANGED <<settings, enabled, now, keys, request, raced, given>>

\* A preview; the oldest makes room for it.
AddPreview ==
    /\ Idle /\ enabled
    /\ LET kept == IF Len(Fresh) >= MaxPreviews THEN Tail(Fresh) ELSE Fresh IN
       previews' = Append(kept, [born |-> now, routing |-> settings])
    /\ UNCHANGED <<settings, enabled, now, keys, request, raced, given>>

\* Disabling the module in the dashboard clears the previews.
Switch(on) ==
    /\ Idle
    /\ enabled' = on
    /\ previews' = IF on THEN previews ELSE <<>>
    /\ UNCHANGED <<settings, now, keys, request, raced, given>>

\* server_close, or the death of the process, and a new dashboard.
Restart ==
    /\ keys' = [p \in Provider |-> NoKey]
    /\ given' = [p \in Provider |-> NoKey]
    /\ previews' = <<>>
    /\ request' = NoRequest
    /\ raced' = FALSE
    /\ UNCHANGED <<settings, enabled, now>>

-----------------------------------------------------------------------------
(***************************************************************************)
(* Jobs that call a provider.                                              *)
(***************************************************************************)

\* Mutant: the routes are not compared.
ExtractAnyRoute(v) ==
    /\ Idle /\ enabled
    /\ \E i \in 1 .. Len(Fresh) : Fresh[i] = v
    /\ previews' = Fresh
    /\ request' = [NoRequest EXCEPT !.at = "checked", !.shown = v]
    /\ raced' = FALSE
    /\ UNCHANGED <<settings, enabled, now, keys, given>>

\* The user confirms a preview: it must still be there, under the same routes
\* and profiles.
Extract(v) ==
    /\ Idle /\ enabled
    /\ \E i \in 1 .. Len(Fresh) : Fresh[i] = v
    /\ v.routing = settings
    /\ previews' = Fresh
    /\ request' = [NoRequest EXCEPT !.at = "checked", !.shown = v]
    /\ raced' = FALSE
    /\ UNCHANGED <<settings, enabled, now, keys, given>>

\* A schedule is due, or a job without a preview is asked for.
Background ==
    /\ Idle
    /\ previews' = Fresh
    /\ request' = [NoRequest EXCEPT !.at = "checked"]
    /\ raced' = FALSE
    /\ UNCHANGED <<settings, enabled, now, keys, given>>

\* ProviderEngine loads the settings, and keeps them for the whole run.
Engine ==
    /\ request.at = "checked"
    /\ request' = [request EXCEPT !.at = "calling", !.engine = settings, !.left = settings.route]
    /\ UNCHANGED <<settings, enabled, now, keys, previews, raced, given>>

\* resolve_credential: the key, if it is held for the profile it is wanted for.
Resolved(p, identity) ==
    LET key == Pruned(settings)[p] IN
    IF key = NoKey \/ key.tag # identity THEN NoKey ELSE key.secret

\* The next provider of the route: without its key it fails, otherwise the text
\* is sent to it; a failure leads to the next one.
Call ==
    /\ request.at = "calling" /\ request.left # <<>>
    /\ LET p == Head(request.left) IN
       /\ keys' = Pruned(settings)
       /\ \/ request' = [request EXCEPT !.left = Tail(@)]
          \/ Resolved(p, request.engine.identity[p]) # NoKey /\ request' = NoRequest
    /\ UNCHANGED <<settings, enabled, now, previews, raced, given>>

\* The route is exhausted, the budget is spent, or the receipt says that this
\* preview has been extracted.
Fail ==
    /\ request.at # "idle"
    /\ request' = NoRequest
    /\ UNCHANGED <<settings, enabled, now, keys, previews, raced, given>>

-----------------------------------------------------------------------------
(***************************************************************************)
(* Other processes, and time.                                              *)
(***************************************************************************)
OthersSave(s) ==
    /\ settings' = s
    /\ raced' = (raced \/ request.at = "checked")
    /\ UNCHANGED <<enabled, now, keys, previews, request, given>>

OthersSwitch ==
    /\ enabled' = ~enabled
    /\ UNCHANGED <<settings, now, keys, previews, request, raced, given>>

Clock ==
    /\ now < LastTime
    /\ now' = now + 1
    /\ UNCHANGED <<settings, enabled, keys, previews, request, raced, given>>

WorkbenchNext ==
    \/ \E s \in Settings : SaveSettings(s) \/ OthersSave(s)
    \/ \E p \in Provider : ClearKey(p) \/ \E i \in Identity : SetKey(p, i)
    \/ \E on \in BOOLEAN : Switch(on)
    \/ \E i \in 1 .. Len(previews) : Extract(previews[i])
    \/ ShowState \/ Prune \/ AddPreview \/ Restart \/ Background \/ Engine \/ Call \/ Fail
    \/ OthersSwitch \/ Clock

WorkbenchSpec == WorkbenchInit /\ [][WorkbenchNext]_workbenchVars

-----------------------------------------------------------------------------

\* workbench.md: "Changing provider routes requires a new preview."  What is
\* sent of a confirmed preview goes along the routes and to the profiles that
\* the preview showed, fallbacks included, unless another process saves
\* settings between the comparison and the engine that loads them again.
SentAsShown ==
    [][Call /\ request.shown # NoPreview /\ ~raced =>
          request.engine = request.shown.routing]_workbenchVars

\* docs/workbench.md: a key is "used for the selected endpoint", and "clearing
\* the key, changing the endpoint or restarting the workbench" clears it.
\* Whatever profile a job or a look at the models resolves a key for, it gets
\* the one the user gave for that very profile, and gave since the dashboard
\* last changed or cleared it: not one that came back with an address that was
\* changed and changed back in the dashboard, not one entered on a page that was
\* out of date.  Settings that others change and change back between two looks
\* at them keep a key, as nothing shows that they did.
KeyBound ==
    \A p \in Provider, i \in Identity :
        Resolved(p, i) # NoKey => Resolved(p, i) = i /\ given[p] = i
=============================================================================
