----------------------------- MODULE SecretVault -----------------------------
(***************************************************************************)
(* The vault of redact-secrets and the catalog of fingerprints it keeps on *)
(* disk (plugins/redact-secrets/src/shared.ts, Redactor; src/index.ts).    *)
(* Servers share the catalog, crash and start again; each knows only the   *)
(* secrets its own scans came across.                                      *)
(*                                                                         *)
(* A text is a secret and the form it is written in: "a" and "b" carry the *)
(* context one rule needs, "gated" depends on a keyword elsewhere in the   *)
(* request, "bare" matches no rule, and "heavy" is bare behind so many      *)
(* candidates that recovery gives up.  What a scan makes of it is the rule *)
(* that labels the placeholder, "raw" or "omitted".  The key of the        *)
(* fingerprints is fixed here (InstallKey).  A catalog is a sequence of    *)
(* secrets and labels, oldest first.                                       *)
(***************************************************************************)
EXTENDS Integers, Sequences, FiniteSets, SequencesExt

CONSTANTS
    Processes,   \* servers
    Texts,       \* <<secret, form>> that appear in requests and completions
    EnvTexts,    \* those of the shell environment and the env files
    PeerEntries, \* what servers that are not modelled in full add to the catalog
    Limit,       \* FINGERPRINT_LIMIT
    MaxCache,    \* entries, for CACHE_MAX_BYTES
    MaxBoots     \* bound on the starts of servers

VARIABLES
    disk,        \* the catalog file
    up,          \* the servers that run
    boots,
    vault, label, unresolved, gate, cache,
    catalog, persisted, timer, failed, attempted,
    jobs,        \* fingerprintWrites: writes that wait
    merge,       \* what the running write will publish, or <<>>
    base,        \* the file that write read
    completing,  \* the completion under way: its text, label and the writes it awaits
    stored,      \* the texts written into transcripts in plain
    crossed      \* have two servers' writes crossed?

svVars == <<disk, up, boots, vault, label, unresolved, gate, cache, catalog, persisted,
            timer, failed, attempted, jobs, merge, base, completing, stored, crossed>>

diskVars == <<disk, stored, crossed>>
writeVars == <<jobs, merge, base, failed, persisted>>

Secrets == {t[1] : t \in Texts \cup EnvTexts}
NoWork == [at |-> "none", text |-> <<>>, label |-> "none", awaits |-> 0]
NoLabel == [s \in Secrets |-> "none"]

SVInit ==
    /\ disk = <<>> /\ up = {} /\ boots = 0
    /\ vault = [p \in Processes |-> {}]
    /\ label = [p \in Processes |-> NoLabel]
    /\ unresolved = [p \in Processes |-> {}]
    /\ gate = [p \in Processes |-> FALSE]
    /\ cache = [p \in Processes |-> <<>>]
    /\ catalog = [p \in Processes |-> <<>>]
    /\ persisted = [p \in Processes |-> <<>>]
    /\ timer = [p \in Processes |-> FALSE]
    /\ failed = [p \in Processes |-> FALSE]
    /\ attempted = [p \in Processes |-> {}]
    /\ jobs = [p \in Processes |-> 0]
    /\ merge = [p \in Processes |-> <<>>]
    /\ base = [p \in Processes |-> <<>>]
    /\ completing = [p \in Processes |-> NoWork]
    /\ stored = {} /\ crossed = FALSE

-----------------------------------------------------------------------------
(* Catalogs. *)

Newest(c) == IF Len(c) > Limit THEN SubSeq(c, Len(c) - Limit + 1, Len(c)) ELSE c
Listed(c) == {c[i][1] : i \in DOMAIN c}
LabelIn(c, s) == (CHOOSE e \in Range(c) : e[1] = s)[2]

\* Map.set: an entry keeps its place, a new one comes last.
Put(c, e) ==
    IF e[1] \in Listed(c) THEN [i \in DOMAIN c |-> IF c[i][1] = e[1] THEN e ELSE c[i]]
    ELSE Append(c, e)

Merged(file, own) == FoldLeft(Put, file, own)

-----------------------------------------------------------------------------
(* A redactor, as a record: what one scan reads and changes. *)

Redactor(p) == [vault |-> vault[p], label |-> label[p], unresolved |-> unresolved[p],
                gate |-> gate[p], cache |-> cache[p], fresh |-> <<>>]

\* seedFingerprints of a redactor that has seen nothing.
Seeded(c) == [vault |-> {},
              label |-> [s \in Secrets |-> IF s \in Listed(c) THEN LabelIn(c, s) ELSE "none"],
              unresolved |-> Listed(c), gate |-> FALSE, cache |-> <<>>, fresh |-> <<>>]

\* register: the first rule names a secret for ever, and every result computed
\* without it is dropped.
Register(r, s, rule) ==
    IF s \in r.vault THEN r
    ELSE LET name == IF r.label[s] = "none" THEN rule ELSE r.label[s]
         IN  [r EXCEPT !.vault = @ \cup {s}, !.label[s] = name, !.unresolved = @ \ {s},
                       !.cache = <<>>, !.fresh = Append(@, <<s, name>>)]

\* The rule that finds the secret in its text, if one does.
RuleFor(r, t) ==
    IF t[2] \in {"a", "b"} THEN t[2] ELSE IF t[2] = "gated" /\ r.gate THEN "a" ELSE "none"

\* recoverFingerprints gives up; or it finds a persisted secret.
GivesUp(r, t) == t[2] = "heavy" /\ r.unresolved # {}
Recovered(r, t) == IF t[1] \in r.unresolved THEN Register(r, t[1], r.label[t[1]]) ELSE r

\* scanContent and vaultFindings
Found(r, t) == IF RuleFor(r, t) = "none" THEN r ELSE Register(r, t[1], RuleFor(r, t))

Output(r, t) ==
    IF GivesUp(r, t) THEN "omitted"
    ELSE LET q == Found(Recovered(r, t), t)
         IN  IF t[1] \in q.vault THEN q.label[t[1]] ELSE "raw"

\* redactString: from the cache, or by a scan whose result is kept.
Redacted(r, t) ==
    IF t \in Listed(r.cache) \/ GivesUp(r, t) THEN r
    ELSE LET q == Found(Recovered(r, t), t)
             all == Append(q.cache, <<t, Output(r, t)>>)
         IN  [q EXCEPT !.cache = IF Len(all) > MaxCache THEN Tail(all) ELSE all]

\* onRegister: the newly registered go into the catalog, and a write is due.
Noted(p, r) ==
    LET new == SelectSeq(r.fresh, LAMBDA e : ~\E i \in DOMAIN catalog[p] : catalog[p][i] = e)
    IN  /\ catalog' = [catalog EXCEPT ![p] = Newest(Merged(@, new))]
        /\ timer' = [timer EXCEPT ![p] = @ \/ new # <<>>]

Becomes(p, r) ==
    /\ vault' = [vault EXCEPT ![p] = r.vault]
    /\ label' = [label EXCEPT ![p] = r.label]
    /\ unresolved' = [unresolved EXCEPT ![p] = r.unresolved]
    /\ gate' = [gate EXCEPT ![p] = r.gate]
    /\ cache' = [cache EXCEPT ![p] = r.cache]

-----------------------------------------------------------------------------
(* Servers. *)

\* The catalog is read and seeds the redactor.
Boot(p) ==
    /\ p \notin up /\ boots < MaxBoots
    /\ up' = up \cup {p} /\ boots' = boots + 1
    /\ Becomes(p, Seeded(Newest(disk)))
    /\ catalog' = [catalog EXCEPT ![p] = Newest(disk)]
    /\ persisted' = [persisted EXCEPT ![p] = Newest(disk)]
    /\ UNCHANGED <<diskVars, timer, failed, attempted, jobs, merge, base, completing>>

Crash(p) ==
    /\ p \in up
    /\ up' = up \ {p}
    /\ Becomes(p, Seeded(<<>>))
    /\ catalog' = [catalog EXCEPT ![p] = <<>>] /\ persisted' = [persisted EXCEPT ![p] = <<>>]
    /\ timer' = [timer EXCEPT ![p] = FALSE] /\ failed' = [failed EXCEPT ![p] = FALSE]
    /\ attempted' = [attempted EXCEPT ![p] = {}]
    /\ jobs' = [jobs EXCEPT ![p] = 0]
    /\ merge' = [merge EXCEPT ![p] = <<>>] /\ base' = [base EXCEPT ![p] = <<>>]
    /\ completing' = [completing EXCEPT ![p] = NoWork]
    /\ UNCHANGED <<diskVars, boots>>

\* noteScanContext: a keyword of the request opens its rules, for good.
NoteScanContext(p) ==
    /\ p \in up /\ ~gate[p]
    /\ Becomes(p, [Redactor(p) EXCEPT !.gate = TRUE, !.cache = <<>>])
    /\ UNCHANGED <<diskVars, up, boots, catalog, timer, attempted, writeVars, completing>>

\* redactString, for any surface of a request.
RedactString(p, t) ==
    /\ p \in up
    /\ LET r == Redacted(Redactor(p), t) IN Becomes(p, r) /\ Noted(p, r)
    /\ UNCHANGED <<diskVars, up, boots, attempted, writeVars, completing>>

-----------------------------------------------------------------------------
(* persistFingerprints *)

\* The timer fires; writes run one after the other.
TimerFires(p) ==
    /\ timer[p]
    /\ timer' = [timer EXCEPT ![p] = FALSE]
    /\ jobs' = [jobs EXCEPT ![p] = @ + 1]
    /\ UNCHANGED <<diskVars, up, boots, vault, label, unresolved, gate, cache, catalog,
                   persisted, failed, attempted, merge, base, completing>>

\* The file is read and merged with what this server has.
ReadAndMerge(p) ==
    /\ jobs[p] > 0 /\ merge[p] = <<>>
    /\ LET all == Newest(Merged(disk, catalog[p]))
       IN  all # <<>> /\ merge' = [merge EXCEPT ![p] = all]
    /\ base' = [base EXCEPT ![p] = disk]
    /\ UNCHANGED <<diskVars, up, boots, vault, label, unresolved, gate, cache, catalog,
                   persisted, timer, failed, attempted, jobs, completing>>

Finished(p) ==
    /\ jobs' = [jobs EXCEPT ![p] = @ - 1]
    /\ merge' = [merge EXCEPT ![p] = <<>>] /\ base' = [base EXCEPT ![p] = <<>>]
    /\ completing' = [completing EXCEPT ![p].awaits = IF @ > 0 THEN @ - 1 ELSE 0]
    /\ UNCHANGED <<stored, up, boots, vault, label, unresolved, gate, cache, catalog, timer,
                   attempted>>

Publish(p) ==
    /\ merge[p] # <<>>
    /\ disk' = merge[p] /\ crossed' = (crossed \/ disk # base[p])
    /\ persisted' = [persisted EXCEPT ![p] = merge[p]]
    /\ failed' = [failed EXCEPT ![p] = FALSE]
    /\ Finished(p)

WriteFails(p) ==
    /\ merge[p] # <<>>
    /\ failed' = [failed EXCEPT ![p] = TRUE]
    /\ Finished(p)
    /\ UNCHANGED <<disk, crossed, persisted>>

\* A write of another server, read and rename at once.
PeerWrites ==
    /\ \E e \in PeerEntries : disk' = Newest(Put(disk, e))
    /\ disk' # disk
    /\ UNCHANGED <<crossed, stored, up, boots, vault, label, unresolved, gate, cache, catalog,
                   timer, attempted, writeVars, completing>>

-----------------------------------------------------------------------------
(* experimental.text.complete *)

\* Unknown placeholders are looked up once in the local sources.
LearnFrom(r) == FoldSet(LAMBDA t, q : Redacted(q, t), r, EnvTexts)

\* The text came back with a placeholder of this label.
StartCompletion(p, t, l) ==
    /\ p \in up /\ completing[p] = NoWork
    /\ LET unknown == t[1] \notin vault[p] /\ t[1] \notin attempted[p]
           r == IF unknown THEN LearnFrom(Redactor(p)) ELSE Redactor(p)
       IN  /\ Becomes(p, r) /\ Noted(p, r)
           /\ attempted' = [attempted EXCEPT ![p] = IF unknown THEN @ \cup {t[1]} ELSE @]
    /\ completing' = [completing EXCEPT ![p] =
                        [at |-> "flush", text |-> t, label |-> l, awaits |-> 0]]
    /\ UNCHANGED <<diskVars, up, boots, writeVars>>

\* A write that is due, or failed, is made; else those on their way are awaited.
FlushFingerprints(p) ==
    /\ completing[p].at = "flush"
    /\ LET due == timer[p] \/ failed[p]
           n == IF due THEN jobs[p] + 1 ELSE jobs[p]
       IN  /\ jobs' = [jobs EXCEPT ![p] = n]
           /\ timer' = [timer EXCEPT ![p] = FALSE]
           /\ completing' = [completing EXCEPT ![p].at = "restore", ![p].awaits = n]
    /\ UNCHANGED <<diskVars, up, boots, vault, label, unresolved, gate, cache, catalog,
                   persisted, failed, attempted, merge, base>>

\* Mutant of Reproduces: the server's own vault vouches for the text.
MutReproduces(p, t, l) == Output(Redactor(p), t) = l

\* A cold redactor, with what is known to be on disk, masks it the same way.
Reproduces(p, t, l) == Output(Seeded(persisted[p]), t) = l

\* restoreText
EndCompletion(p) ==
    /\ completing[p].at = "restore" /\ completing[p].awaits = 0
    /\ completing' = [completing EXCEPT ![p] = NoWork]
    /\ LET c == completing[p]
       IN  stored' = IF c.text[1] \in vault[p] /\ ~failed[p] /\ Reproduces(p, c.text, c.label)
                     THEN stored \cup {c.text} ELSE stored
    /\ UNCHANGED <<disk, crossed, up, boots, vault, label, unresolved, gate, cache, catalog,
                   timer, attempted, writeVars>>

SVNext ==
    \/ PeerWrites
    \/ \E p \in Processes :
        \/ Boot(p) \/ Crash(p) \/ NoteScanContext(p)
        \/ \E t \in Texts : RedactString(p, t)
        \/ TimerFires(p) \/ ReadAndMerge(p) \/ Publish(p) \/ WriteFails(p)
        \/ \E t \in Texts, l \in {"a", "b"} : StartCompletion(p, t, l)
        \/ FlushFingerprints(p) \/ EndCompletion(p)

SVSpec == SVInit /\ [][SVNext]_svVars

-----------------------------------------------------------------------------
\* A cached result is what a scan would find now, whatever was learned since.
CacheIsFresh ==
    \A p \in Processes : \A e \in Range(cache[p]) : Output(Redactor(p), e[1]) = e[2]

\* A plain text goes into a transcript only if a server that starts now masks it
\* again, though nothing in it gives the secret away: until two servers' writes
\* cross, the entry it depends on stays on disk, as long as the catalog is below the
\* bound at which it drops its oldest entries.
StoredIsRemasked ==
    ~crossed => \A t \in stored : Output(Seeded(disk), t) # "raw"

\* What the server knows is applied to what it sends, and what it stores.
VaultIsSound == CacheIsFresh /\ StoredIsRemasked
=============================================================================
