------------------------------- MODULE Broker -------------------------------
(***************************************************************************)
(* The broker (internal/queue/broker.go): a map from names to open queues, *)
(* one directory per queue, and a page store that all queues share.        *)
(* Create works under the broker's lock; Delete takes the name out of the  *)
(* map under the lock and then closes the queue and removes its directory  *)
(* without it.  Clients fetch a queue with Get and use it after the lock   *)
(* is gone.  A queue is reduced to the set of messages confirmed to it;    *)
(* its log, index and commit pipeline are the subject of other modules.    *)
(***************************************************************************)
EXTENDS Naturals, FiniteSets, Sequences, Functions


CONSTANTS
  Name,            \* queue names
  Admin,           \* handlers that create and delete queues
  Client,          \* handlers that use a queue
  None,
  MaxQueues,       \* bound: directories and queues made
  MaxMsgs,         \* bound: messages confirmed
  MaxRestarts      \* bound: restarts

ASSUME BrokerAssumption ==
  /\ None \notin Name \cup Admin
  /\ MaxQueues \in Nat /\ MaxMsgs \in Nat /\ MaxRestarts \in Nat

VARIABLES
  queues,          \* the map: the position in opened of each queue, or 0
  opened,          \* Queue objects of this process: [name, dir, msgs, closed]
  dirs,            \* queues/<name>: the directory there, or 0
  files,           \* directories ever made: [meta, msgs]
  held,            \* messages whose slots the page store counts as used
  mu,              \* holder of the broker's lock during Create
  task,            \* what each admin is doing: [step, name, queue]
  handle,          \* the queue each client got, or 0
  up,              \* the broker is not closed
  deleted,         \* history: messages of queues whose Delete returned
  raced,           \* history: names of which an older queue wrote to the directory
                   \* of a newer one, or removed it
  damaged,         \* history: names whose queue.meta was lost, but not the messages
  msgs, restarts

vars == <<queues, opened, dirs, files, held, mu, task, handle, up, deleted, raced, damaged,
          msgs, restarts>>
disk == <<dirs, files>>
history == <<deleted, raced, damaged>>
bounds == <<msgs, restarts>>

Idle == [step |-> "idle", name |-> None, queue |-> 0]

Init ==
  /\ queues = [n \in Name |-> 0] /\ opened = << >>
  /\ dirs = [n \in Name |-> 0] /\ files = << >>
  /\ held = {} /\ mu = None /\ up = TRUE
  /\ task = [a \in Admin |-> Idle] /\ handle = [c \in Client |-> 0]
  /\ deleted = {} /\ raced = {} /\ damaged = {} /\ msgs = 0 /\ restarts = 0

At(a, step) == task[a].step = step
Goto(a, step) == task' = [task EXCEPT ![a].step = step]
Return(a) == task' = [task EXCEPT ![a] = Idle]

\* os.MkdirAll: the directory that is there, or a new one without queue.meta.
Mkdir(n) ==
  IF dirs[n] # 0 THEN UNCHANGED disk
  ELSE /\ dirs' = [dirs EXCEPT ![n] = Len(files) + 1]
       /\ files' = Append(files, [meta |-> FALSE, msgs |-> {}])

\* A Delete of the name has left the map and not yet removed the directory.
Deleting(n) == \E a \in Admin : task[a].name = n /\ task[a].step \in {"close", "remove"}

----------------------------------------------------------------------------
\* Create.

Create(a, n) ==
  /\ mu = None /\ At(a, "idle") /\ Len(files) < MaxQueues /\ Len(opened) < MaxQueues
  /\ queues[n] = 0
  /\ mu' = a
  /\ Mkdir(n)
  /\ task' = [task EXCEPT ![a] = [step |-> "meta", name |-> n, queue |-> 0]]
  /\ raced' = raced \cup (IF Deleting(n) THEN {n} ELSE {})
  /\ UNCHANGED <<queues, opened, held, handle, up, deleted, damaged, bounds>>

\* Mutant: queue.meta is not written.
CreateMetaSkipped(a) ==
  /\ At(a, "meta") /\ dirs[task[a].name] # 0
  /\ Goto(a, "open")
  /\ UNCHANGED <<queues, opened, disk, held, mu, handle, up, history, bounds>>

\* saveMeta.
CreateMeta(a) ==
  /\ At(a, "meta") /\ dirs[task[a].name] # 0
  /\ files' = [files EXCEPT ![dirs[task[a].name]].meta = TRUE]
  /\ Goto(a, "open")
  /\ UNCHANGED <<queues, opened, dirs, held, mu, handle, up, history, bounds>>

\* saveMeta fails, because the directory was removed or otherwise, or
\* openQueue does: what is on disk by then stays there.
CreateFail(a) ==
  /\ task[a].step \in {"meta", "open"}
  /\ mu' = None
  /\ Return(a)
  /\ UNCHANGED <<queues, opened, disk, held, handle, up, history, bounds>>

\* openQueue makes the directory again if it is gone, and recovers what the
\* log and the index there hold.
CreateOpen(a) ==
  /\ At(a, "open")
  /\ LET n == task[a].name
     IN  /\ Mkdir(n)
         /\ opened' = Append(opened, [name |-> n, dir |-> dirs'[n], msgs |-> files'[dirs'[n]].msgs,
                                      closed |-> FALSE])
         /\ queues' = [queues EXCEPT ![n] = Len(opened) + 1]
  /\ mu' = None
  /\ Return(a)
  /\ UNCHANGED <<held, handle, up, history, bounds>>

----------------------------------------------------------------------------
\* Delete.

Delete(a, n) ==
  /\ mu = None /\ At(a, "idle") /\ queues[n] # 0
  /\ queues' = [queues EXCEPT ![n] = 0]
  /\ task' = [task EXCEPT ![a] = [step |-> "close", name |-> n, queue |-> queues[n]]]
  /\ UNCHANGED <<opened, disk, held, mu, handle, up, history, bounds>>

DeleteClose(a) ==
  /\ At(a, "close")
  /\ opened' = [opened EXCEPT ![task[a].queue].closed = TRUE]
  /\ Goto(a, "remove")
  /\ UNCHANGED <<queues, disk, held, mu, handle, up, history, bounds>>

\* Mutant: the directory is not removed.
DeleteRemoveSkipped(a) ==
  /\ At(a, "remove")
  /\ deleted' = deleted \cup opened[task[a].queue].msgs
  /\ Return(a)
  /\ UNCHANGED <<queues, opened, disk, held, mu, handle, up, raced, damaged, bounds>>

\* RemoveAll: whatever directory has the name now.
DeleteRemove(a) ==
  /\ At(a, "remove")
  /\ dirs' = [dirs EXCEPT ![task[a].name] = 0]
  /\ deleted' = deleted \cup opened[task[a].queue].msgs
  /\ Return(a)
  /\ UNCHANGED <<queues, opened, files, held, mu, handle, up, raced, damaged, bounds>>

\* RemoveAll fails half way: the directory stays, with or without queue.meta
\* and with what log and index still yield.
DeleteRemoveFail(a) ==
  /\ At(a, "remove") /\ dirs[task[a].name] # 0
  /\ LET d == dirs[task[a].name] IN
       \E meta \in {FALSE, files[d].meta}, kept \in SUBSET files[d].msgs :
         /\ files' = [files EXCEPT ![d] = [meta |-> meta, msgs |-> kept]]
         /\ damaged' = damaged \cup (IF meta THEN {} ELSE {task[a].name})
  /\ Return(a)
  /\ UNCHANGED <<queues, opened, dirs, held, mu, handle, up, deleted, raced, bounds>>

----------------------------------------------------------------------------
\* Clients.

Get(c, n) ==
  /\ mu = None /\ handle[c] = 0 /\ queues[n] # 0
  /\ handle' = [handle EXCEPT ![c] = queues[n]]
  /\ UNCHANGED <<queues, opened, disk, held, mu, task, up, history, bounds>>

Open(c) == handle[c] # 0 /\ ~opened[handle[c]].closed

\* Once the store is closed, Alloc fails.
Enqueue(c) ==
  /\ Open(c) /\ up /\ msgs < MaxMsgs
  /\ msgs' = msgs + 1
  /\ opened' = [opened EXCEPT ![handle[c]].msgs = @ \cup {msgs + 1}]
  /\ files' = [files EXCEPT ![opened[handle[c]].dir].msgs = @ \cup {msgs + 1}]
  /\ held' = held \cup {msgs + 1}
  /\ handle' = [handle EXCEPT ![c] = 0]
  /\ UNCHANGED <<queues, dirs, mu, task, up, history, restarts>>

Ack(c, m) ==
  /\ Open(c) /\ m \in opened[handle[c]].msgs
  /\ opened' = [opened EXCEPT ![handle[c]].msgs = @ \ {m}]
  /\ files' = [files EXCEPT ![opened[handle[c]].dir].msgs = @ \ {m}]
  /\ held' = IF up THEN held \ {m} ELSE held
  /\ handle' = [handle EXCEPT ![c] = 0]
  /\ UNCHANGED <<queues, dirs, mu, task, up, history, bounds>>

\* The queue or the store was closed in the meantime: ErrClosed, or an error
\* of Alloc.
UseClosed(c) ==
  /\ handle[c] # 0 /\ ~(Open(c) /\ up)
  /\ handle' = [handle EXCEPT ![c] = 0]
  /\ UNCHANGED <<queues, opened, disk, held, mu, task, up, history, bounds>>

\* Checkpoint by a client.  It asks neither whether the queue is closed nor
\* whose directory has the name now: index.dat of an older queue there makes
\* the next start recover that queue's messages, and skip records of the
\* newer one.
Checkpoint(c) ==
  /\ handle[c] # 0
  /\ handle' = [handle EXCEPT ![c] = 0]
  /\ LET q == opened[handle[c]]
         d == dirs[q.name]
         stale == d \notin {0, q.dir}
     IN  /\ \E lost \in IF stale THEN SUBSET files[d].msgs ELSE {{}} :
              files' = IF stale THEN [files EXCEPT ![d].msgs = (@ \ lost) \cup q.msgs]
                       ELSE files
         /\ raced' = raced \cup (IF stale THEN {q.name} ELSE {})
  /\ UNCHANGED <<queues, opened, dirs, held, mu, task, up, deleted, damaged, bounds>>

----------------------------------------------------------------------------
\* Close and OpenBroker.

Close ==
  /\ up /\ mu = None
  /\ up' = FALSE
  /\ opened' = [q \in 1..Len(opened) |->
                  [opened[q] EXCEPT !.closed = @ \/ \E n \in Name : queues[n] = q]]
  /\ queues' = [n \in Name |-> 0]
  /\ UNCHANGED <<disk, held, mu, task, handle, history, bounds>>

CollectRefs(objects) == UNION {objects[i].msgs : i \in DOMAIN objects}

\* The process ends, after Close or by a crash at any point, and OpenBroker
\* opens every queue whose queue.meta it can read.  saveMeta does not sync
\* the file, so that a power loss may leave it unreadable.
Restart(lost) ==
  /\ restarts < MaxRestarts
  /\ restarts' = restarts + 1
  /\ files' = [d \in 1..Len(files) |->
                 [files[d] EXCEPT !.meta = @ /\ ~\E n \in lost : dirs[n] = d]]
  /\ LET names == {n \in Name : dirs[n] # 0 /\ files'[dirs[n]].meta}
     IN  \E order \in Bijection(1..Cardinality(names), names) :
           /\ opened' = [i \in DOMAIN order |->
                           [name |-> order[i], dir |-> dirs[order[i]],
                            msgs |-> files[dirs[order[i]]].msgs, closed |-> FALSE]]
           /\ queues' = [n \in Name |-> IF n \in names
                                        THEN CHOOSE i \in DOMAIN order : order[i] = n ELSE 0]
  /\ held' = CollectRefs(opened')
  /\ damaged' = damaged \cup lost
  /\ mu' = None /\ up' = TRUE
  /\ task' = [a \in Admin |-> Idle] /\ handle' = [c \in Client |-> 0]
  /\ UNCHANGED <<dirs, deleted, raced, msgs>>

Next ==
  \/ \E a \in Admin : \/ \E n \in Name : Create(a, n) \/ Delete(a, n)
                      \/ CreateMeta(a) \/ CreateFail(a) \/ CreateOpen(a)
                      \/ DeleteClose(a) \/ DeleteRemove(a) \/ DeleteRemoveFail(a)
  \/ \E c \in Client : \/ \E n \in Name : Get(c, n)
                       \/ Enqueue(c) \/ UseClosed(c) \/ Checkpoint(c)
                       \/ \E m \in 1..msgs : Ack(c, m)
  \/ Close
  \/ \E lost \in SUBSET {n \in Name : dirs[n] # 0} : Restart(lost)

Spec == Init /\ [][Next]_vars

----------------------------------------------------------------------------
\* Both properties leave out the names in raced (broker.go unlocks before it
\* closes the queue and removes the directory, and Checkpoint works on any
\* queue) and in damaged (OpenBroker skips the queue).

Sound == Name \ (raced \cup damaged)

\* What OpenBroker would recover for a name is what the open queue of that
\* name has confirmed and not seen acknowledged, at every instant.  The page
\* store counts the slots of these messages as used, and no others but those
\* that queues deleted since the last start have left behind.
RestartRestores ==
  /\ \A n \in Sound : queues[n] # 0 =>
       /\ dirs[n] # 0 /\ files[dirs[n]].meta
       /\ files[dirs[n]].msgs = opened[queues[n]].msgs
       /\ opened[queues[n]].msgs \subseteq held
  /\ up => held \subseteq CollectRefs(opened)

\* Once Delete has returned, no queue ever serves the deleted messages
\* again, whatever is created or restarted under the name.
DeletedStays ==
  \A n \in Sound : queues[n] # 0 => opened[queues[n]].msgs \cap deleted = {}
=============================================================================
