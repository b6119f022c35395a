----------------------------- MODULE PageStore -----------------------------
(***************************************************************************)
(* The page store that all queues share (internal/pagestore): slab pages   *)
(* per size class, jumbo pages of one slot, the journal store.log, and     *)
(* what Open and RebuildVolatile make of them after a crash (store.go,     *)
(* journal.go, and the releases that queue.go's recover makes before       *)
(* RebuildVolatile).  Headers, bitmaps and references are those of         *)
(* PageLayout.                                                             *)
(*                                                                         *)
(* Calls that hold s.mu throughout are one action; a thread that creates   *)
(* or retires a page does so in steps, each of them visible to a crash.    *)
(* The queues are reduced to what they ask of the store: a slot is         *)
(* allocated, perhaps logged, then acked and released.                     *)
(***************************************************************************)
EXTENDS PageLayout

LOCAL INSTANCE SequencesExt
LOCAL INSTANCE Functions

CONSTANTS
  Thread,          \* callers of the store
  Sizes,           \* payload sizes that are asked for
  Cuts,            \* bytes that may be left of an incomplete journal record
  HeaderFaults,    \* whether a crash may come while a page header is incomplete
  None,
  MaxPage,         \* bound: page ids
  MaxAllocs,       \* bound: allocations
  MaxTears,        \* bound: incomplete records in store.log
  MaxRestarts      \* bound: restarts

ASSUME PageStoreAssumption ==
  /\ Sizes \subseteq Nat \ {0} /\ Cuts \subseteq 1..16 /\ None \notin Thread /\ HeaderFaults \in BOOLEAN
  /\ MaxPage \in Nat /\ MaxAllocs \in Nat /\ MaxTears \in Nat /\ MaxRestarts \in Nat

VARIABLES
  pgs,             \* s.pgs: id -> page
  nextID,
  active,          \* s.active: the hint per size class, 0 for none
  mu,              \* the thread that holds s.mu across a page creation
  task,            \* what each thread is doing outside a single action
  disk,            \* the page files: id -> the header in the file
  jnl, jsynced,    \* store.log, and how many records of it are known to be on disk
  ref,             \* the slots in use: SlotRef -> "new", "live" or "dying", and the size
  acks,            \* the ACK records since the queues' checkpoints: SlotRefs
  up,              \* FALSE when Open has failed
  early,           \* history: pages that recover reclaimed under live slots
  allocs, restarts

mem == <<pgs, nextID, active>>
files == <<disk, jnl, jsynced>>
queues == <<ref, acks>>
vars == <<mem, mu, task, files, queues, up, early, allocs, restarts>>

Slab == {n \in Sizes : n <= JumboThreshold}
Class == {SizeClassFor(n) : n \in Slab}

Idle == [step |-> "idle", id |-> 0, size |-> 0]
EmptyFcn == [x \in {} |-> x]
Without(f, S) == Restrict(f, DOMAIN f \ S)
With(f, x, v) == [y \in DOMAIN f \cup {x} |-> IF y = x THEN v ELSE f[y]]

Init ==
  /\ pgs = EmptyFcn /\ nextID = 1 /\ active = [c \in Class |-> 0] /\ mu = None
  /\ task = [t \in Thread |-> Idle]
  /\ disk = EmptyFcn /\ jnl = << >> /\ jsynced = 0
  /\ ref = EmptyFcn /\ acks = << >> /\ up = TRUE /\ early = {} /\ allocs = 0 /\ restarts = 0

Step(t, step, id, n) == task' = [task EXCEPT ![t] = [step |-> step, id |-> id, size |-> n]]
Done(t) == task' = [task EXCEPT ![t] = Idle]
Ready(t) == up /\ task[t].step = "idle"

----------------------------------------------------------------------------
\* store.log.  A record is its op, the page, and how many of its bytes are in
\* the file.

RecordLen == [create |-> 19, retire |-> 17]
Record(op, id) == [op |-> op, id |-> id, len |-> RecordLen[op]]
Whole(rec) == rec.len = RecordLen[rec.op]
Incomplete(rec) == {[rec EXCEPT !.len = k] : k \in Cuts}
Tears(log) == Len(SelectSeq(log, LAMBDA rec : ~Whole(rec)))

\* What a write of rec that failed may have left of it.
FailedAppends(rec) ==
  {log \in {jnl} \cup {Append(jnl, w) : w \in {rec} \cup Incomplete(rec)} : Tears(log) <= MaxTears}

\* journal.replay: an incomplete record swallows the bytes behind it.  When
\* there are too few of them the scan ends; else the checksum is wrong, which
\* is an error unless it is the first record.
Replay(log) ==
  LET torn == {i \in DOMAIN log : ~Whole(log[i])}
      i == CHOOSE j \in torn : \A k \in torn : j <= k
      left == FoldLeft(LAMBDA n, rec : n + rec.len, 0, SubSeq(log, i, Len(log)))
  IN  IF torn = {} THEN [recs |-> log, ok |-> TRUE]
      ELSE [recs |-> SubSeq(log, 1, i - 1), ok |-> left < RecordLen[log[i].op] \/ i = 1]

----------------------------------------------------------------------------
\* Alloc.

\* allocSlot on page id, which is in pages, for a payload of n bytes.
TakeSlot(pages, id, n) ==
  LET p == pages[id] IN
    /\ pgs' = [pages EXCEPT ![id] = allocSlot(p)]
    /\ ref' = With(ref, Pack(id, slotOffset(p.h, NextSlot(p))), [st |-> "new", size |-> n])

HintUsable(c) == active[c] \in DOMAIN pgs /\ CanAlloc(pgs[active[c]])

\* allocSlab with a page that has room.
AllocHinted(t, n) ==
  /\ Ready(t) /\ mu = None /\ allocs < MaxAllocs /\ HintUsable(SizeClassFor(n))
  /\ TakeSlot(pgs, active[SizeClassFor(n)], n)
  /\ allocs' = allocs + 1
  /\ UNCHANGED <<nextID, active, mu, task, files, acks, up, early, restarts>>

\* allocSlab without one: s.mu is held until the new page is there.
NewSlabPage(t, n) ==
  /\ Ready(t) /\ mu = None /\ allocs < MaxAllocs /\ nextID <= MaxPage
  /\ ~HintUsable(SizeClassFor(n))
  /\ active' = [active EXCEPT ![SizeClassFor(n)] = 0]
  /\ nextID' = nextID + 1 /\ mu' = t /\ allocs' = allocs + 1
  /\ Step(t, "file", nextID, n)
  /\ UNCHANGED <<pgs, files, queues, up, early, restarts>>

\* newJumboPage takes an id under s.mu and goes on without it.
NewJumboPage(t, n) ==
  /\ Ready(t) /\ mu = None /\ allocs < MaxAllocs /\ nextID <= MaxPage
  /\ nextID' = nextID + 1 /\ allocs' = allocs + 1
  /\ Step(t, "file", nextID, n)
  /\ UNCHANGED <<pgs, active, mu, files, queues, up, early, restarts>>

Unlock(t) == mu' = IF mu = t THEN None ELSE mu

\* The file is created, or O_EXCL or an I/O error makes Alloc fail.
CreateFile(t) ==
  /\ up /\ task[t].step = "file"
  /\ \/ /\ task[t].id \notin DOMAIN disk
        /\ disk' = With(disk, task[t].id, Zeroed)
        /\ Step(t, "journal", task[t].id, task[t].size)
        /\ UNCHANGED mu
     \/ Done(t) /\ Unlock(t) /\ UNCHANGED disk
  /\ UNCHANGED <<mem, jnl, jsynced, queues, up, early, allocs, restarts>>

\* appendPageCreate syncs the journal; when it fails the file is removed.
AppendPageCreate(t) ==
  /\ up /\ task[t].step = "journal"
  /\ LET rec == Record("create", task[t].id) IN
       \/ /\ jnl' = Append(jnl, rec) /\ jsynced' = Len(jnl')
          /\ Step(t, "map", task[t].id, task[t].size)
          /\ UNCHANGED <<disk, mu>>
       \/ /\ jnl' \in FailedAppends(rec)
          /\ disk' = Without(disk, {task[t].id})
          /\ Done(t) /\ Unlock(t) /\ UNCHANGED jsynced
  /\ UNCHANGED <<mem, queues, up, early, allocs, restarts>>

\* The header of the page that a thread creates.
NewHeader(t) ==
  IF task[t].size > JumboThreshold THEN NewJumboHeader(task[t].id, SpanPagesFor(task[t].size))
  ELSE NewSlabHeader(task[t].id, SizeClassFor(task[t].size))

\* The file is mapped, its header written and its first slot taken.
MapPage(t) ==
  /\ up /\ task[t].step = "map" /\ mu \in {None, t}
  /\ LET id == task[t].id
         h == NewHeader(t)
         new == With(pgs, id, NewPage(h))
     IN  /\ disk' = [disk EXCEPT ![id] = WriteHeader(h)]
         /\ IF IsJumbo(h)
            THEN /\ pgs' = new
                 /\ ref' = With(ref, Pack(id, HeaderSize), [st |-> "new", size |-> task[t].size])
                 /\ UNCHANGED active
            ELSE TakeSlot(new, id, task[t].size) /\ active' = [active EXCEPT ![h.scIdx] = id]
  /\ Done(t) /\ Unlock(t)
  /\ UNCHANGED <<nextID, jnl, jsynced, acks, up, early, allocs, restarts>>

\* mmap failed: Alloc returns the error and leaves the file behind.
MapPageFail(t) ==
  /\ up /\ task[t].step = "map" /\ HeaderFaults
  /\ Done(t) /\ Unlock(t)
  /\ UNCHANGED <<mem, files, queues, up, early, allocs, restarts>>

----------------------------------------------------------------------------
\* The queues: a commit, a commit of the ack, a checkpoint.

Commit(r) ==
  /\ up /\ ref[r].st = "new"
  /\ ref' = [ref EXCEPT ![r].st = "live"]
  /\ UNCHANGED <<mem, mu, task, files, acks, up, early, allocs, restarts>>

Ack(r) ==
  /\ up /\ ref[r].st = "live"
  /\ ref' = [ref EXCEPT ![r].st = "dying"] /\ acks' = Append(acks, r)
  /\ UNCHANGED <<mem, mu, task, files, up, early, allocs, restarts>>

Checkpoint ==
  /\ up /\ acks # << >>
  /\ \A r \in DOMAIN ref : ref[r].st # "dying"
  /\ acks' = << >>
  /\ UNCHANGED <<mem, mu, task, files, ref, up, early, allocs, restarts>>

----------------------------------------------------------------------------
\* Release, of a slot whose ack is durable or whose enqueue has failed.

\* Mutant: the page counts as empty one slot too late.
EmptiesLate(p, r) == IsJumbo(p.h) \/ p.free = p.h.capacity

\* The reclaim decision: whether page p without slot r is empty.
Empties(p, r) == IsJumbo(p.h) \/ Emptied(freeSlot(p, slotIndex(p.h, r)))

\* The hints once page id is reclaimed.
HintsCleared(id) == [c \in Class |-> IF active[c] = id THEN 0 ELSE active[c]]

Release(t, r) ==
  /\ Ready(t) /\ mu = None /\ ref[r].st \in {"new", "dying"} /\ PageID(r) \in DOMAIN pgs
  /\ ref' = Without(ref, {r})
  /\ LET id == PageID(r)
         p == pgs[id]
     IN  IF Empties(p, r)
         THEN /\ pgs' = Without(pgs, {id})
              /\ active' = HintsCleared(id)
              /\ Step(t, "retire", id, 0)
         ELSE /\ pgs' = [pgs EXCEPT ![id] = freeSlot(p, slotIndex(p.h, r))]
              /\ active' = [active EXCEPT ![p.h.scIdx] = IF @ = 0 THEN id ELSE @]
              /\ UNCHANGED task
  /\ UNCHANGED <<nextID, mu, files, acks, up, early, allocs, restarts>>

\* doReclaim: the record, which is not synced and whose failure is ignored,
\* the new generation in the two writes of BumpGen, and the file.
AppendPageRetire(t) ==
  /\ up /\ task[t].step = "retire"
  /\ jnl' \in FailedAppends(Record("retire", task[t].id))
  /\ Step(t, "bump", task[t].id, 0)
  /\ UNCHANGED <<mem, mu, disk, jsynced, queues, up, early, allocs, restarts>>

BumpGen(t) ==
  /\ up /\ task[t].step = "bump"
  /\ disk' = [disk EXCEPT ![task[t].id] = GenWritten(@)]
  /\ Step(t, "crc", task[t].id, 0)
  /\ UNCHANGED <<mem, mu, jnl, jsynced, queues, up, early, allocs, restarts>>

\* The new checksum makes the header a valid one again, and the file goes.
RemoveFile(t) ==
  /\ up /\ task[t].step = "crc"
  /\ disk' = Without(disk, {task[t].id})
  /\ Done(t)
  /\ UNCHANGED <<mem, mu, jnl, jsynced, queues, up, early, allocs, restarts>>

----------------------------------------------------------------------------
\* A crash and the next start, in the order of OpenBroker.  A state of the
\* recovery has the mapped pages with their free counts, the files, the
\* journal, nextID, and whether Open still succeeds.

Drop(s, id) ==
  [s EXCEPT !.free = Without(@, {id}), !.disk = Without(@, {id})]

\* replayJournal.  Counts are not rebuilt yet and start at 0.
ReplayRecord(s, rec) ==
  IF rec.op = "retire" THEN IF rec.id \in DOMAIN s.free THEN Drop(s, rec.id) ELSE s
  ELSE IF rec.id \notin DOMAIN s.disk THEN s
  ELSE IF ~Validate(s.disk[rec.id]) THEN [s EXCEPT !.ok = FALSE]
  ELSE [s EXCEPT !.free = With(@, rec.id, 0), !.next = IF @ <= rec.id THEN rec.id + 1 ELSE @]

Retired(s, id) == [Drop(s, id) EXCEPT !.jnl = Append(@, Record("retire", id))]

\* recover() of a queue calls Release for every ACK record it replays.
RecoverRecord(s, r) ==
  LET id == PageID(r)
      h == s.disk[id].h
  IN  IF id \notin DOMAIN s.free THEN s
      ELSE IF IsJumbo(h) \/ s.free[id] + 1 = h.capacity
           THEN [Retired(s, id) EXCEPT !.early = @ \cup {id}]
      ELSE [s EXCEPT !.free[id] = @ + 1]

\* Mutant: slots whose enqueue or ack was cut short stay allocated.
HeldRefs(id) == {r \in DOMAIN ref : PageID(r) = id}

LiveRefs(id) == {r \in DOMAIN ref : PageID(r) = id /\ ref[r].st = "live"}

\* Mutant: every jumbo page is taken for an orphan.
OrphansAll(s) == {id \in DOMAIN s.free : IsJumbo(s.disk[id].h)}

\* RebuildVolatile reclaims the jumbo pages that no queue refers to.
Orphans(s) == {id \in DOMAIN s.free : IsJumbo(s.disk[id].h) /\ LiveRefs(id) = {}}

RebuildVolatile(s) ==
  [id \in DOMAIN s.free |->
     LET h == s.disk[id].h
     IN  IF IsJumbo(h) THEN NewPage(h)
         ELSE Rebuilt(h, {slotIndex(h, r) : r \in LiveRefs(id)})]

\* Whether a crash may come now.
CrashPoint == HeaderFaults \/ \A t \in Thread : task[t].step \notin {"map", "crc"}

\* What a crash may leave of store.log.
SurvivingLogs ==
  LET cut(k) == {SubSeq(jnl, 1, k)} \cup
                (IF k < Len(jnl) THEN {Append(SubSeq(jnl, 1, k), w) : w \in Incomplete(jnl[k + 1])}
                 ELSE {})
  IN  {log \in UNION {cut(k) : k \in jsynced..Len(jnl)} : Tears(log) <= MaxTears}

Recovered(log) ==
  LET read == Replay(log)
      opened == FoldLeft(ReplayRecord,
        [free |-> EmptyFcn, disk |-> disk, jnl |-> log, next |-> 1, early |-> {}, ok |-> read.ok], read.recs)
      replayed == FoldLeft(RecoverRecord, opened, acks)
  IN  IF opened.ok THEN FoldLeft(Retired, replayed, SetToSeq(Orphans(replayed))) ELSE opened

Restart ==
  /\ up /\ restarts < MaxRestarts /\ CrashPoint
  /\ \E s \in {Recovered(log) : log \in SurvivingLogs} :
       /\ up' = s.ok
       /\ early' = early \cup {id \in s.early : LiveRefs(id) # {}}
       /\ pgs' = IF s.ok THEN RebuildVolatile(s) ELSE EmptyFcn
       /\ nextID' = s.next
       /\ disk' = s.disk /\ jnl' = s.jnl /\ jsynced' = Len(s.jnl)
       /\ active' \in [Class -> {0} \cup DOMAIN pgs']
       /\ \A c \in Class :
            LET fit == {id \in DOMAIN pgs' : pgs'[id].h.scIdx = c /\ hasFreeSlot(pgs'[id])}
            IN  active'[c] \in IF fit = {} THEN {0} ELSE fit
  /\ ref' = Restrict(ref, {r \in DOMAIN ref : ref[r].st = "live"})
  /\ mu' = None /\ task' = [t \in Thread |-> Idle]
  /\ restarts' = restarts + 1
  /\ UNCHANGED <<acks, allocs>>

Next ==
  \/ \E t \in Thread :
       \/ \E n \in Slab : AllocHinted(t, n) \/ NewSlabPage(t, n)
       \/ \E n \in Sizes \ Slab : NewJumboPage(t, n)
       \/ CreateFile(t) \/ AppendPageCreate(t) \/ MapPage(t) \/ MapPageFail(t)
       \/ AppendPageRetire(t) \/ BumpGen(t) \/ RemoveFile(t)
       \/ \E r \in DOMAIN ref : Release(t, r)
  \/ \E r \in DOMAIN ref : Commit(r) \/ Ack(r)
  \/ Checkpoint
  \/ Restart

Spec == Init /\ [][Next]_vars

----------------------------------------------------------------------------
\* Properties.

\* The pages whose PAGE_CREATE record is behind an incomplete record.
Behind ==
  {jnl[j].id : j \in {k \in DOMAIN jnl : \E i \in 1..k - 1 : ~Whole(jnl[i])}}

\* The pages whose id is that of a retired page: ids are used again after a
\* restart that finds no later page.
Reused ==
  {jnl[j].id : j \in {k \in DOMAIN jnl :
     jnl[k].op = "create" /\ \E i \in 1..k - 1 : jnl[i] = Record("retire", jnl[k].id)}}

\* A restart may lose these pages: the ones journaled behind an incomplete
\* record, which neither a failed write nor Open cuts off store.log; the ones
\* to which the retire record of their predecessor is applied; and the ones
\* that recover's releases reclaim while their counts are not rebuilt.
Exposed == IF restarts = 0 THEN {} ELSE Behind \cup Reused \cup early

\* The bitmap and the free count of a slab page agree with the slots that the
\* queues hold: no slot is handed out twice, none leaks, and the page is
\* reclaimed by the release of its last slot and no other.
CountsExact ==
  \A id \in DOMAIN pgs \ Exposed :
    LET p == pgs[id]
        held == {slotIndex(p.h, r) : r \in {q \in DOMAIN ref : PageID(q) = id}}
    IN  ~IsJumbo(p.h) =>
          /\ \A w \in DOMAIN p.words : \A b \in 0..WordBits - 1 :
               b \in p.words[w] <=> w * WordBits + b \in held
          /\ p.free = p.h.capacity - Cardinality(held)

\* A slot that a queue holds can be read: its page is mapped and its file is
\* there, whatever other threads create or retire, and across a restart that
\* Open survives for all pages that are not exposed.
HeldReadable ==
  up => \A r \in DOMAIN ref : PageID(r) \notin Exposed =>
          /\ PageID(r) \in DOMAIN pgs \cap DOMAIN disk
          /\ disk[PageID(r)] = WriteHeader(pgs[PageID(r)].h)

\* Before any restart, a store whose slots have all been released has no
\* page left, and no file but those of creations that failed
\* (TestStoreShrinksToZero).
ShrinksToZero ==
  restarts = 0 /\ DOMAIN ref = {} /\ (\A t \in Thread : task[t] = Idle)
    => DOMAIN pgs = {} /\ \A id \in DOMAIN disk : disk[id] = Zeroed

\* The bytes that the holders of two slots may write are apart, and apart
\* from header and bitmap, and a payload fits into its slot and its page:
\* whatever sizes were asked for, in whatever order slots were taken and given
\* back, also by threads that create and retire pages at the same time.
SlotsApart ==
  \A r \in DOMAIN ref : PageID(r) \in DOMAIN pgs \ Exposed =>
    LET h == pgs[PageID(r)].h
        end(q) == Offset(q) + IF IsJumbo(h) THEN TotalSize(h) - HeaderSize ELSE SlotSize(h)
    IN  /\ Offset(r) >= HeaderSize + 8 * BitmapLen(h)
        /\ Offset(r) + ref[r].size <= end(r) /\ end(r) <= TotalSize(h)
        /\ \A q \in DOMAIN ref \ {r} : PageID(q) = PageID(r) =>
             end(q) <= Offset(r) \/ end(r) <= Offset(q)
=============================================================================
