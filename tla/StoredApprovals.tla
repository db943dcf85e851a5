-------------------------- MODULE StoredApprovals --------------------------
(***************************************************************************)
(* The server half of persist-permissions: prompts that a stored rule      *)
(* answers, the rules of the session that outrank it, and what the user    *)
(* answers for always (plugins/persist-permissions/src/index.ts).          *)
(*                                                                         *)
(* The host launches event hooks in order and awaits none of them, so the  *)
(* handlers of several prompts run interleaved with later events.  There   *)
(* is one session, and one stored rule that covers every prompt; opening   *)
(* the store is in StoreKeying, the save in StoreLock.  The sibling plugin *)
(* that tells the user's replies from automatic ones reads the same events *)
(* right after this plugin.                                                *)
(***************************************************************************)
EXTENDS Integers, Sequences, FiniteSets, SequencesExt

CONSTANTS Prompts, Hooked,          \* prompts, and those the host asks the hook about first
          MaxOutstanding,           \* how many requests are remembered
          MaxSessionEdits, MaxStoreEdits, MaxFailures

ASSUME SAAssumption == IsFiniteSet(Prompts) /\ MaxOutstanding \in Nat

VARIABLES
    reply,        \* how each prompt stands with the host
    override,     \* the session has a rule of its own that asks
    events,       \* events not yet handled
    allowed,      \* the store holds the rule
    pending, autoReplied, ledger, sessionRules,    \* the plugin's bookkeeping
    handler,      \* the handler of each prompt
    lastTold,         \* auxiliary: the override as of the last event handled
    tried,        \* auxiliary: prompts the plugin answered, whatever came of it
    savedFor,         \* auxiliary: prompts whose approval was saved
    users,        \* auxiliary: prompts whose reply the sibling took for the user's
    lost, sessionEdits, storeEdits, failures

saVars == <<reply, override, events, allowed, pending, autoReplied, ledger, sessionRules, handler,
            lastTold, tried, savedFor, users, lost, sessionEdits, storeEdits,
            failures>>

NoHandler == [pc |-> "none", saw |-> FALSE, stale |-> FALSE]
UserReplies == {"once", "always", "reject"}

SARest ==
    /\ reply = [p \in Prompts |-> "none"]
    /\ override = FALSE /\ events = <<>>
    /\ pending = <<>> /\ autoReplied = {} /\ ledger = {} /\ sessionRules = "unknown"
    /\ handler = [p \in Prompts |-> NoHandler]
    /\ lastTold = FALSE /\ tried = {} /\ savedFor = {} /\ users = {} /\ lost = {}

SAFresh == sessionEdits = 0 /\ storeEdits = 0 /\ failures = 0

SAInit == SARest /\ SAFresh /\ allowed \in BOOLEAN

\* What the host and the user leave alone.
plugin == <<pending, autoReplied, ledger, sessionRules, lastTold, tried, savedFor, users, lost,
            failures>>

-----------------------------------------------------------------------------
(* The host and the user                                                   *)

Publish(event) == events' = Append(events, event)

AskedEvent(p) == [type |-> "asked", id |-> p, reply |-> "none", override |-> FALSE]
Replied(p, r) == [AskedEvent(p) EXCEPT !.type = "replied", !.reply = r]
Updated(o) == [type |-> "updated", id |-> 0, reply |-> "none", override |-> o]

AskUser(p) ==
    /\ reply[p] = "none" /\ p \notin Hooked
    /\ reply' = [reply EXCEPT ![p] = "asked"]
    /\ Publish(AskedEvent(p))
    /\ UNCHANGED <<override, allowed, handler, sessionEdits, storeEdits, plugin>>

Answer(p) ==
    /\ reply[p] = "asked"
    /\ \E r \in UserReplies : reply' = [reply EXCEPT ![p] = r] /\ Publish(Replied(p, r))
    /\ UNCHANGED <<override, allowed, handler, sessionEdits, storeEdits, plugin>>

EditSession ==
    /\ sessionEdits < MaxSessionEdits
    /\ sessionEdits' = sessionEdits + 1
    /\ override' = ~override
    /\ Publish(Updated(~override))
    /\ UNCHANGED <<reply, allowed, handler, storeEdits, plugin>>

EditStore ==
    /\ storeEdits < MaxStoreEdits
    /\ storeEdits' = storeEdits + 1
    /\ allowed' = ~allowed
    /\ UNCHANGED <<reply, override, events, handler, sessionEdits, plugin>>

\* The hook is asked before the user is.
CallHook(p) ==
    /\ p \in Hooked /\ reply[p] = "none" /\ handler[p].pc = "none"
    /\ reply' = [reply EXCEPT ![p] = "hook"]
    /\ handler' = [handler EXCEPT ![p].pc = "store"]
    /\ UNCHANGED <<override, events, allowed, sessionEdits, storeEdits, plugin>>

-----------------------------------------------------------------------------
(* Events                                                                  *)

Trimmed(requests) == IF Len(requests) > MaxOutstanding THEN Tail(requests) ELSE requests

HandleAsked ==
    LET p == events[1].id IN
    /\ events # <<>> /\ events[1].type = "asked"
    /\ events' = Tail(events)
    /\ pending' = Trimmed(Append(pending, p))
    /\ handler' = IF p \in autoReplied THEN handler ELSE [handler EXCEPT ![p].pc = "store"]
    /\ UNCHANGED <<reply, override, allowed, autoReplied, ledger, sessionRules, lastTold,
                   tried, savedFor, users, lost, sessionEdits, storeEdits, failures>>

\* Mutant of Invalidated: only the cached rules are dropped.
MutInvalidated == handler

\* invalidateSessionRules marks the look-ups under way: what they bring is of
\* before the change.
Invalidated == [p \in Prompts |-> IF handler[p].pc \in {"get", "got"}
                                  THEN [handler[p] EXCEPT !.stale = TRUE] ELSE handler[p]]

HandleUpdated ==
    /\ events # <<>> /\ events[1].type = "updated"
    /\ events' = Tail(events)
    /\ sessionRules' = "unknown"
    /\ handler' = Invalidated
    /\ lastTold' = events[1].override
    /\ UNCHANGED <<reply, override, allowed, pending, autoReplied, ledger, tried, savedFor, users,
                   lost, sessionEdits, storeEdits, failures>>

\* An always of the user is saved.  The sibling takes a reply that is not in the
\* ledger for the user's.
HandleReplied ==
    LET p == events[1].id
        saves == /\ events[1].reply = "always"
                 /\ p \notin autoReplied
                 /\ \E i \in DOMAIN pending : pending[i] = p
    IN  /\ events # <<>> /\ events[1].type = "replied"
        /\ events' = Tail(events)
        /\ pending' = RemoveFirst(pending, p)
        /\ autoReplied' = autoReplied \ {p}
        /\ allowed' = (allowed \/ saves)
        /\ savedFor' = IF saves THEN savedFor \cup {p} ELSE savedFor
        /\ users' = IF p \in ledger THEN users ELSE users \cup {p}
        /\ ledger' = ledger \ {p}
        /\ UNCHANGED <<reply, override, sessionRules, handler, lastTold, tried, lost, sessionEdits,
                       storeEdits, failures>>

-----------------------------------------------------------------------------
(* The handler of a prompt                                                 *)

\* What the handler of a prompt comes to: nothing, or an answer.
Leaves(p) ==
    /\ handler' = [handler EXCEPT ![p] = NoHandler]
    /\ reply' = [reply EXCEPT ![p] = IF @ = "hook" THEN "asked" ELSE @]
    /\ events' = IF reply[p] = "hook" THEN Append(events, AskedEvent(p)) ELSE events
    /\ UNCHANGED <<autoReplied, ledger, tried>>

\* The hook answers at once; of a prompt the answer is sent, entered in the ledger
\* first because the host publishes it before the request returns.
Approves(p) ==
    IF reply[p] = "hook"
    THEN /\ handler' = [handler EXCEPT ![p] = NoHandler]
         /\ reply' = [reply EXCEPT ![p] = "auto"]
         /\ UNCHANGED <<events, autoReplied, ledger, tried>>
    ELSE /\ handler' = [handler EXCEPT ![p] = [NoHandler EXCEPT !.pc = "post"]]
         /\ autoReplied' = autoReplied \cup {p}
         /\ ledger' = ledger \cup {p}
         /\ tried' = tried \cup {p}
         /\ UNCHANGED <<reply, events>>

\* readActiveStore, and the rules of the session if they are cached.
ReadActiveStore(p) ==
    /\ handler[p].pc = "store"
    /\ CASE ~allowed \/ sessionRules = "asks" -> Leaves(p)
         [] allowed /\ sessionRules = "silent" -> Approves(p)
         [] OTHER -> /\ handler' = [handler EXCEPT ![p].pc = "get"]
                     /\ UNCHANGED <<reply, events, autoReplied, ledger, tried>>
    /\ UNCHANGED <<override, allowed, pending, sessionRules, lastTold, savedFor, users, lost,
                   sessionEdits, storeEdits, failures>>

\* The host reads the session; its response is on the way.
SessionIsRead(p) ==
    /\ handler[p].pc = "get"
    /\ handler' = [handler EXCEPT ![p].pc = "got", ![p].saw = override]
    /\ UNCHANGED <<reply, override, events, allowed, sessionEdits, storeEdits, plugin>>

\* resolveSessionRules: a response that went stale is neither cached nor used, and
\* without one the prompt is left to the user.
ResolveSessionRules(p) ==
    /\ handler[p].pc = "got"
    /\ \/ /\ ~handler[p].stale
          /\ sessionRules' = IF handler[p].saw THEN "asks" ELSE "silent"
          /\ IF handler[p].saw THEN Leaves(p) ELSE Approves(p)
          /\ UNCHANGED failures
       \/ /\ handler[p].stale
          /\ Leaves(p)
          /\ UNCHANGED <<sessionRules, failures>>
       \/ /\ failures < MaxFailures
          /\ failures' = failures + 1
          /\ Leaves(p)
          /\ UNCHANGED sessionRules
    /\ UNCHANGED <<override, allowed, pending, lastTold, savedFor, users, lost, sessionEdits, storeEdits>>

\* The host takes the answer of a prompt that is still open.
AnswerArrives(p) ==
    /\ handler[p].pc = "post"
    /\ IF reply[p] = "asked"
       THEN /\ reply' = [reply EXCEPT ![p] = "auto"]
            /\ Publish(Replied(p, "once"))
            /\ handler' = [handler EXCEPT ![p].pc = "answered"]
       ELSE /\ handler' = [handler EXCEPT ![p].pc = "refused"]
            /\ UNCHANGED <<reply, events>>
    /\ UNCHANGED <<override, allowed, sessionEdits, storeEdits, plugin>>

\* autoReply: a failed answer is taken back, which it may be although it landed.
AutoReply(p) ==
    \E fails \in BOOLEAN :
        /\ handler[p].pc \in {"answered", "refused"}
        /\ handler[p].pc = "refused" => fails
        /\ handler[p].pc = "answered" /\ fails => failures < MaxFailures
        /\ failures' = IF handler[p].pc = "answered" /\ fails THEN failures + 1 ELSE failures
        /\ lost' = IF handler[p].pc = "answered" /\ fails THEN lost \cup {p} ELSE lost
        /\ autoReplied' = IF fails THEN autoReplied \ {p} ELSE autoReplied
        /\ ledger' = IF fails THEN ledger \ {p} ELSE ledger
        /\ handler' = [handler EXCEPT ![p] = NoHandler]
        /\ UNCHANGED <<reply, override, events, allowed, pending, sessionRules, lastTold, tried, savedFor,
                       users, sessionEdits, storeEdits>>

SANext ==
    \/ \E p \in Prompts : \/ AskUser(p) \/ Answer(p) \/ CallHook(p)
                          \/ ReadActiveStore(p) \/ SessionIsRead(p) \/ ResolveSessionRules(p)
                          \/ AnswerArrives(p) \/ AutoReply(p)
    \/ EditSession \/ EditStore
    \/ HandleAsked \/ HandleUpdated \/ HandleReplied

SASpec == SAInit /\ [][SANext]_saVars

-----------------------------------------------------------------------------
SATypeOK ==
    /\ {pending[i] : i \in DOMAIN pending} \cup autoReplied \cup ledger \subseteq Prompts
    /\ Len(pending) <= MaxOutstanding
    /\ sessionRules \in {"unknown", "asks", "silent"}

\* The event that tells how a prompt was answered has been handled.
Handled(p) == /\ reply[p] \in UserReplies
              /\ ~\E i \in DOMAIN events : events[i].id = p

\* What the user answers for always is saved, and nothing else is: unless the
\* plugin, by the same stored rule, was answering the prompt too, or the request
\* was forgotten among too many.
AlwaysIsSaved ==
    /\ savedFor \subseteq {p \in Prompts : reply[p] = "always"}
    /\ \A p \in Prompts : reply[p] = "always" /\ Handled(p)
                          => p \in savedFor \cup tried \/ Cardinality(Prompts) > MaxOutstanding

\* An automatic answer is not taken for the user's presence, unless its own
\* response was lost, and the user's is not taken for an automatic one, unless the
\* plugin was answering too.
AnswersAreAttributed ==
    /\ \A p \in users : reply[p] = "auto" => p \in lost
    /\ \A p \in Prompts : Handled(p) => p \in users \cup tried

\* Once the plugin was told that the session asks, and until the session changes
\* again, it approves nothing by the stored rule, whatever it was looking up then.
OwnRulesWin ==
    [][lastTold /\ ~(\E i \in DOMAIN events : events[i].type = "updated") =>
          \A p \in Prompts :
          /\ handler'[p].pc = "post" => handler[p].pc = "post"
          /\ reply[p] = "hook" => reply'[p] # "auto"]_saVars

StoredRulesAreMeant == [](SATypeOK /\ AlwaysIsSaved /\ AnswersAreAttributed) /\ OwnRulesWin
=============================================================================
