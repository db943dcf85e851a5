--------------------------- MODULE SessionMirrors ---------------------------
(***************************************************************************)
(* The mirrors of pinned models a terminal keeps                           *)
(* (plugins/approve-for-me/src/tui.tsx sessionModelMirror and the sidebar  *)
(* that leases them).  A mirror watches the record of a root session and   *)
(* rereads it; the least recently used that no sidebar shows are stopped   *)
(* when there are too many.                                                *)
(***************************************************************************)
EXTENDS Naturals, Sequences, FiniteSets, SequencesExt

CONSTANTS
    Roots,          \* root sessions
    MaxMirrors,     \* SESSION_MODEL_WATCHERS_MAX; the host shows at most as many
    MaxWrites       \* bound on the changes of the records

VARIABLES
    versions,     \* the record of each root: how often it was written
    mirrors,    \* the cache, the least recently used first
    shown,      \* the roots of the mounted sidebars
    usable      \* the filesystem is shared

smVars == <<versions, mirrors, shown, usable>>

NotRead == MaxWrites + 1

\* The latest read is the one that counts: "none", begun, or what it sampled.
Idling == [on |-> FALSE, value |-> NotRead]
Begun == [on |-> TRUE, value |-> NotRead]
NewMirror(r) == [root |-> r, leases |-> 0, shows |-> NotRead, changed |-> FALSE, reload |-> Begun]

SMInit ==
    /\ versions = [r \in Roots |-> 0] /\ mirrors = <<>> /\ shown = {} /\ usable = TRUE

-----------------------------------------------------------------------------

RootsOf(seq) == {seq[k].root : k \in DOMAIN seq}
IndexOf(seq, r) == CHOOSE k \in DOMAIN seq : seq[k].root = r

\* Mutant of Evictable: leases are not looked at.
MutEvictable(m) == TRUE

\* A mirror that a sidebar shows is never stopped.
Evictable(m) == m.leases = 0

\* pruneSessionModelMirrors: one too many at most.
Pruned(seq) ==
    LET idle == {k \in DOMAIN seq : Evictable(seq[k])}
    IN  IF Len(seq) > MaxMirrors /\ idle # {}
        THEN RemoveAt(seq, CHOOSE k \in idle : \A j \in idle : k <= j) ELSE seq

\* sessionModelMirror: found, and now the latest used, or new.
Visited(seq, r) ==
    IF r \in RootsOf(seq)
    THEN Append(RemoveAt(seq, IndexOf(seq, r)), seq[IndexOf(seq, r)])
    ELSE Pruned(Append(seq, NewMirror(r)))

Lease(seq, r, by) ==
    IF r \in RootsOf(seq) THEN [seq EXCEPT ![IndexOf(seq, r)].leases = IF by = "mount" THEN @ + 1 ELSE @ - 1] ELSE seq

\* The sidebar of r is mounted: its texts read the mirror, its effect leases it.
Mount(r) ==
    /\ r \notin shown /\ Cardinality(shown) < MaxMirrors
    /\ shown' = shown \cup {r}
    /\ mirrors' = IF usable THEN Lease(Visited(mirrors, r), r, "mount") ELSE mirrors
    /\ UNCHANGED <<versions, usable>>

Unmount(r) ==
    /\ r \in shown
    /\ shown' = shown \ {r}
    /\ mirrors' = Pruned(Lease(mirrors, r, "unmount"))
    /\ UNCHANGED <<versions, usable>>

\* A toggle or the model dialog looks at a session and reloads.
Refresh(r) ==
    /\ usable
    /\ LET seq == Visited(mirrors, r)
       IN  mirrors' = IF r \in RootsOf(seq) THEN [seq EXCEPT ![IndexOf(seq, r)].reload = Begun] ELSE seq
    /\ UNCHANGED <<versions, shown, usable>>

\* invalidateLocality stops them all; once the files are shared again, the
\* effects of the mounted sidebars lease new ones.
Invalidate ==
    /\ usable
    /\ usable' = FALSE /\ mirrors' = <<>>
    /\ UNCHANGED <<versions, shown>>

Mounting(order) == FoldLeft(LAMBDA seq, r : Lease(Visited(seq, r), r, "mount"), <<>>, order)
Validate ==
    /\ ~usable
    /\ usable' = TRUE
    /\ mirrors' = Mounting(SetToSeq(shown))
    /\ UNCHANGED <<versions, shown>>

-----------------------------------------------------------------------------

RecordWritten(r) ==
    /\ versions[r] < MaxWrites
    /\ versions' = [versions EXCEPT ![r] = @ + 1]
    /\ mirrors' = [k \in DOMAIN mirrors |-> IF mirrors[k].root = r THEN [mirrors[k] EXCEPT !.changed = TRUE] ELSE mirrors[k]]
    /\ UNCHANGED <<shown, usable>>

\* watchFile fires; a reload under way is outdated.
WatchNotices(k) ==
    /\ mirrors[k].changed
    /\ mirrors' = [mirrors EXCEPT ![k].changed = FALSE, ![k].reload = Begun]
    /\ UNCHANGED <<versions, shown, usable>>

ReadsRecord(k) ==
    /\ mirrors[k].reload = Begun
    /\ mirrors' = [mirrors EXCEPT ![k].reload.value = versions[mirrors[k].root]]
    /\ UNCHANGED <<versions, shown, usable>>

SetsRead(k) ==
    /\ mirrors[k].reload.on /\ mirrors[k].reload.value # NotRead
    /\ mirrors' = [mirrors EXCEPT ![k].shows = mirrors[k].reload.value, ![k].reload = Idling]
    /\ UNCHANGED <<versions, shown, usable>>

SMNext ==
    \/ \E r \in Roots : Mount(r) \/ Unmount(r) \/ Refresh(r) \/ RecordWritten(r)
    \/ \E k \in DOMAIN mirrors : WatchNotices(k) \/ ReadsRecord(k) \/ SetsRead(k)
    \/ Invalidate \/ Validate

SMSpec == SMInit /\ [][SMNext]_smVars

-----------------------------------------------------------------------------

\* What a mounted sidebar shows is alive: its session is mirrored, and the
\* mirror is the record unless a change has yet to be noticed or read; and no
\* more mirrors are kept than the bound.
MirrorsStayLive ==
    /\ usable => shown \subseteq RootsOf(mirrors)
    /\ Cardinality(RootsOf(mirrors)) = Len(mirrors) /\ Len(mirrors) <= MaxMirrors
    /\ \A k \in DOMAIN mirrors :
          ~mirrors[k].changed /\ ~mirrors[k].reload.on => mirrors[k].shows = versions[mirrors[k].root]
=============================================================================
