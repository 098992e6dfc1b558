-------------------------- MODULE SnapshotCatalog --------------------------
(***************************************************************************)
(* What the graph history promises its readers (snapshot lookups, diffs,   *)
(* churn, lifecycle): a catalog with at most one entry per commit.  An     *)
(* entry appears in one step, goes as a whole, and is not changed in       *)
(* between.  It lists files of its commit's own tree unless the entry it   *)
(* was derived from, its parent's, was dropped at some time or was not     *)
(* exact either.                                                           *)
(***************************************************************************)
CONSTANTS
  Commits, Paths, Blobs, NoBlob,
  Repos,            \* the repositories considered: [parent, tree]
  Stored(_),        \* the paths of a tree that the indexer stores
  Absent            \* "the commit has no entry"

VARIABLES
  repo,             \* the git repository, which history never writes
  catalog,          \* the entry of each commit: [files, whole, exact]
  dropped           \* commits an entry of which was removed or replaced

Holds(e) == {q \in Paths : e.files[q] # NoBlob}

\* What an exact entry lists; a whole one lists all that is stored.
Listing(c, e) ==
  /\ \A q \in Holds(e) : e.files[q] = repo.tree[c][q]
  /\ Holds(e) \subseteq Stored(repo.tree[c])
  /\ e.whole => Holds(e) = Stored(repo.tree[c])

Entries == [files : [Paths -> Blobs \cup {NoBlob}], whole : BOOLEAN, exact : BOOLEAN]

\* The entry of c's parent may not be what was read for c.
Doubtful(c) ==
  \/ repo.parent[c] \in dropped
  \/ /\ repo.parent[c] \in Commits /\ catalog[repo.parent[c]] # Absent
     /\ ~catalog[repo.parent[c]].exact

Init ==
  /\ repo \in Repos
  /\ catalog = [c \in Commits |-> Absent]
  /\ dropped = {}

\* A commit is indexed: it had no entry, or one without a single file.
Index(c) ==
  /\ catalog[c] = Absent \/ Holds(catalog[c]) = {}
  /\ catalog'[c] \in Entries
  /\ IF catalog'[c].exact THEN Listing(c, catalog'[c]) ELSE Doubtful(c)
  /\ catalog' = [catalog EXCEPT ![c] = catalog'[c]]
  /\ dropped' = IF catalog[c] = Absent THEN dropped ELSE dropped \cup {c}

\* Entries are removed, by a prune or before a rebuild.
Drop(S) ==
  /\ catalog' = [c \in Commits |-> IF c \in S THEN Absent ELSE catalog[c]]
  /\ dropped' = dropped \cup S

Next ==
  /\ \/ \E c \in Commits : Index(c)
     \/ \E S \in SUBSET Commits : Drop(S)
  /\ UNCHANGED repo

vars == <<repo, catalog, dropped>>

Spec == Init /\ [][Next]_vars
=============================================================================
