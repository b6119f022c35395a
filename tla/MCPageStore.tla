---------------------------- MODULE MCPageStore ----------------------------
(***************************************************************************)
(* Instances of PageStore for TLC, and what the repository's documents say *)
(* of the store after a restart.                                           *)
(***************************************************************************)
EXTENDS PageStore, TLC

Symmetry == Permutations(Thread)

\* "On replay we see PAGE_CREATE but no PAGE_RETIRE, so the page is treated as
\* live.  RebuildVolatile then finds no queue WAL refs for it and reclaims it
\* as an orphan" (journal.go): right after a start every page has a live slot.
OrphansReclaimed ==
  [][Restart => \A id \in DOMAIN pgs' : \E r \in DOMAIN ref' : PageID(r) = id]_vars

\* "Payload fsynced -> WAL fsynced -> client told 201" and "page store volatile
\* state rebuilt from live message refs" (README.md): the payload of a
\* committed message is readable, across restarts too.
CommittedReadable ==
  up => \A r \in DOMAIN ref : ref[r].st = "live" => PageID(r) \in DOMAIN pgs \cap DOMAIN disk

\* "RebuildVolatile reconstructs the bitmap and freeCount for every page from
\* the set of live refs collected by replaying all queue WALs" (store.go): the
\* releases that replaying the logs makes before that reclaim no page on which
\* a message lives.
ReplayKeepsPages == early = {}

\* "If the process dies between 1 and 5, no ENQUEUE record exists, recovery
\* never learns of the slot, and the refcount/freelist rebuild (§7) reclaims
\* it automatically" (design-doc.md): a crash during an allocation does not
\* keep the store from opening.
StoreOpens == up

\* "Written and fsynced before the corresponding physical action (create,
\* retire, delete)" (design-doc.md, of the records of store.log): every page
\* file has its PAGE_CREATE record.
CreateJournaledFirst ==
  \A id \in DOMAIN disk : \E i \in DOMAIN jnl : jnl[i] = Record("create", id)
=============================================================================
