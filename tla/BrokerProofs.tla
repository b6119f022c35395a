---------------------------- MODULE BrokerProofs ----------------------------
(***************************************************************************)
(* Proofs about the broker and the listing of its queues: BrokerInv is an  *)
(* inductive invariant, from which RestartRestores and DeletedStays        *)
(* follow, and ListInv one from which ListingExact follows.                *)
(***************************************************************************)
EXTENDS HttpApi, FiniteSetTheorems, TLAPS

\* Most steps are first-order; those that need arithmetic or the types of
\* functions and records cite SMT.
USE Zenon

Steps == {"idle", "meta", "open", "close", "remove"}
Object == [name : Name, dir : Nat, msgs : SUBSET Nat, closed : BOOLEAN]
File == [meta : BOOLEAN, msgs : SUBSET Nat]
Task == [step : Steps, name : Name \cup {None}, queue : Nat]

BrokerTypeOK ==
  /\ queues \in [Name -> Nat] /\ dirs \in [Name -> Nat] /\ handle \in [Client -> Nat]
  /\ opened \in Seq(Object) /\ files \in Seq(File)
  /\ task \in [Admin -> Task]
  /\ held \in SUBSET Nat /\ deleted \in SUBSET Nat /\ msgs \in Nat
  /\ raced \in SUBSET Name /\ damaged \in SUBSET Name

\* The broker's map and the clients' handles point to Queue objects; those
\* in the map are open.
Mapped ==
  /\ \A n \in Name : queues[n] # 0 =>
       queues[n] \in DOMAIN opened /\ opened[queues[n]].name = n /\ ~opened[queues[n]].closed
  /\ \A c \in Client : handle[c] # 0 => handle[c] \in DOMAIN opened

\* A directory belongs to one name, for good.
Placed ==
  /\ \A n \in Name : dirs[n] # 0 => dirs[n] \in DOMAIN files
  /\ \A m, n \in Name : dirs[m] = dirs[n] /\ dirs[m] # 0 => m = n
  /\ \A q \in DOMAIN opened :
       /\ opened[q].dir \in DOMAIN files
       /\ \A n \in Name : dirs[n] = opened[q].dir => opened[q].name = n

Making(a) == task[a].step \in {"meta", "open"}
Removing(a) == task[a].step \in {"close", "remove"}

\* Create holds the lock and its name is not in the map; Delete has taken
\* its queue out of the map.
TasksOK ==
  \A a \in Admin :
    /\ Making(a) => mu = a /\ task[a].name \in Name /\ queues[task[a].name] = 0
    /\ Removing(a) => /\ task[a].name \in Name /\ task[a].queue \in DOMAIN opened
                      /\ opened[task[a].queue].name = task[a].name
                      /\ queues[task[a].name] # task[a].queue
                      /\ task[a].step = "remove" => opened[task[a].queue].closed

\* A queue that is open is in the map, or a Delete is about to close it.
Known(q) ==
  \/ queues[opened[q].name] = q
  \/ \E a \in Admin : task[a].step = "close" /\ task[a].name = opened[q].name /\ task[a].queue = q
OpenKnown == \A q \in DOMAIN opened : ~opened[q].closed => Known(q)

MessagesNumbered ==
  /\ \A q \in DOMAIN opened : opened[q].msgs \subseteq 1..msgs
  /\ \A d \in DOMAIN files : files[d].msgs \subseteq 1..msgs
  /\ deleted \subseteq 1..msgs

\* Queues of different names share no message, in memory or on disk.
MessagesApart ==
  /\ \A p, q \in DOMAIN opened :
       opened[p].name # opened[q].name => opened[p].msgs \cap opened[q].msgs = {}
  /\ \A p \in DOMAIN opened : \A n \in Name :
       dirs[n] # 0 /\ opened[p].name # n => opened[p].msgs \cap files[dirs[n]].msgs = {}
  /\ \A m, n \in Name :
       dirs[m] # 0 /\ dirs[n] # 0 /\ m # n => files[dirs[m]].msgs \cap files[dirs[n]].msgs = {}

\* Under a sound name no Create overlaps a Delete, and no two Deletes overlap.
SoundTasks ==
  \A n \in Sound : \A a \in Admin : task[a].name = n =>
    /\ Making(a) => dirs[n] # 0 /\ \A b \in Admin : Removing(b) => task[b].name # n
    /\ task[a].step = "open" => files[dirs[n]].meta
    /\ Removing(a) => queues[n] = 0
    /\ Removing(a) => \A b \in Admin : task[b].name = n /\ Removing(b) => b = a

\* An open queue of a sound name is what the directory of the name holds.
SoundOpen ==
  \A q \in DOMAIN opened : opened[q].name \in Sound /\ ~opened[q].closed =>
    /\ opened[q].dir = dirs[opened[q].name]
    /\ files[opened[q].dir].meta /\ files[opened[q].dir].msgs = opened[q].msgs

\* The directory of a sound name holds messages whose slots are in use, none
\* of them deleted, and has queue.meta if it holds any.
SoundFiles ==
  \A n \in Sound : dirs[n] # 0 =>
    /\ files[dirs[n]].msgs \subseteq held /\ files[dirs[n]].msgs \cap deleted = {}
    /\ ~files[dirs[n]].meta => files[dirs[n]].msgs = {}

SlotsKnown == up => held \subseteq CollectRefs(opened)

BrokerInv ==
  /\ BrokerTypeOK /\ Mapped /\ Placed /\ TasksOK /\ OpenKnown /\ MessagesNumbered
  /\ MessagesApart /\ SoundTasks /\ SoundOpen /\ SoundFiles /\ SlotsKnown

----------------------------------------------------------------------------
\* Facts of the current state.

\* A directory number that is in use is not 0, the mark for no directory.
LEMMA Positions ==
  ASSUME BrokerTypeOK
  PROVE  /\ DOMAIN opened = 1..Len(opened) /\ DOMAIN files = 1..Len(files)
         /\ Len(opened) \in Nat /\ Len(files) \in Nat
         /\ 0 \notin DOMAIN opened /\ 0 \notin DOMAIN files
         /\ \A q \in DOMAIN opened : opened[q] \in Object
         /\ \A d \in DOMAIN files : files[d] \in File
BY SMT DEF BrokerTypeOK

LEMMA NoneApart == \A a \in Admin : a # None
BY BrokerAssumption

\* A sound name has at most one open queue.
LEMMA OneOpen ==
  ASSUME BrokerInv, NEW p \in DOMAIN opened, NEW q \in DOMAIN opened,
         ~opened[p].closed, ~opened[q].closed,
         opened[p].name = opened[q].name, opened[p].name \in Sound
  PROVE  p = q
<1>0. PICK n : n = opened[p].name
  OBVIOUS
<1>1. \A r \in DOMAIN opened : ~opened[r].closed /\ opened[r].name = n =>
        \/ queues[n] = r
        \/ \E a \in Admin : Removing(a) /\ task[a].name = n /\ task[a].queue = r
  <2>1. OpenKnown
    BY DEF BrokerInv
  <2>2. \A a \in Admin : task[a].step = "close" => Removing(a)
    BY DEF Removing
  <2> QED
    BY <2>1, <2>2, SMT DEF OpenKnown, Known
<1>2. p # 0 /\ q # 0
  BY Positions DEF BrokerInv
<1>3. \A a \in Admin : Removing(a) /\ task[a].name = n =>
        queues[n] = 0 /\ \A b \in Admin : Removing(b) /\ task[b].name = n => b = a
  BY <1>0 DEF BrokerInv, SoundTasks
<1>4. opened[p].name = n /\ opened[q].name = n
  BY <1>0
<1>5. CASE queues[n] = p
  BY <1>1, <1>2, <1>3, <1>4, <1>5
<1>6. CASE queues[n] # p
  <2>1. PICK a \in Admin : Removing(a) /\ task[a].name = n /\ task[a].queue = p
    BY <1>1, <1>4, <1>6
  <2>2. PICK b \in Admin : Removing(b) /\ task[b].name = n /\ task[b].queue = q
    BY <1>1, <1>2, <1>3, <1>4, <2>1
  <2> QED
    BY <1>3, <2>1, <2>2
<1> QED
  BY <1>5, <1>6

\* What a step of one admin does to the table of tasks.
LEMMA TaskSet ==
  ASSUME BrokerTypeOK, NEW a \in Admin, NEW t \in Task, task' = [task EXCEPT ![a] = t]
  PROVE  task' \in [Admin -> Task] /\ task'[a] = t /\ \A b \in Admin \ {a} : task'[b] = task[b]
BY DEF BrokerTypeOK

LEMMA TaskReturn ==
  ASSUME BrokerTypeOK, NEW a \in Admin, Return(a)
  PROVE  /\ task' \in [Admin -> Task] /\ task'[a].step = "idle"
         /\ \A b \in Admin \ {a} : task'[b] = task[b]
<1>1. Idle \in Task /\ Idle.step = "idle"
  BY SMT DEF Idle, Task, Steps
<1> QED
  BY <1>1, TaskSet DEF Return

LEMMA TaskGoto ==
  ASSUME BrokerTypeOK, NEW a \in Admin, NEW s \in Steps, Goto(a, s)
  PROVE  /\ task' \in [Admin -> Task]
         /\ task'[a].step = s /\ task'[a].name = task[a].name /\ task'[a].queue = task[a].queue
         /\ \A b \in Admin \ {a} : task'[b] = task[b]
<1> DEFINE t == [task[a] EXCEPT !.step = s]
<1>1. task[a] \in Task
  BY DEF BrokerTypeOK
<1>2. t \in Task /\ t.step = s /\ t.name = task[a].name /\ t.queue = task[a].queue
  BY <1>1, SMT DEF Task
<1>3. task' = [task EXCEPT ![a] = t]
  BY DEF Goto
<1> HIDE DEF t
<1> QED
  BY <1>2, <1>3, TaskSet

LEMMA FileSet ==
  ASSUME BrokerTypeOK, NEW d \in DOMAIN files, NEW e \in File, files' = [files EXCEPT ![d] = e]
  PROVE  /\ files' \in Seq(File) /\ DOMAIN files' = DOMAIN files /\ files'[d] = e
         /\ \A k \in DOMAIN files \ {d} : files'[k] = files[k]
BY SMT DEF BrokerTypeOK

LEMMA ObjectSet ==
  ASSUME BrokerTypeOK, NEW q \in DOMAIN opened, NEW e \in Object, opened' = [opened EXCEPT ![q] = e]
  PROVE  /\ opened' \in Seq(Object) /\ DOMAIN opened' = DOMAIN opened /\ opened'[q] = e
         /\ \A k \in DOMAIN opened \ {q} : opened'[k] = opened[k]
BY SMT DEF BrokerTypeOK

LEMMA ObjectAdded ==
  ASSUME BrokerTypeOK, NEW o \in Object, NEW q, q = Len(opened) + 1, opened' = Append(opened, o)
  PROVE  /\ opened' \in Seq(Object) /\ DOMAIN opened' = DOMAIN opened \cup {q}
         /\ q \notin DOMAIN opened /\ q \in Nat /\ q # 0
         /\ opened'[q] = o /\ \A k \in DOMAIN opened : opened'[k] = opened[k]
BY SMT DEF BrokerTypeOK

\* A step that leaves messages and directories alone.
LEMMA DiskFrame ==
  ASSUME BrokerInv, Sound' \subseteq Sound, up' => up,
         UNCHANGED <<opened, dirs, files, held, deleted, msgs>>
  PROVE  /\ Placed' /\ MessagesNumbered' /\ MessagesApart' /\ SoundOpen' /\ SoundFiles'
         /\ SlotsKnown'
<1>1. Placed'
  BY DEF BrokerInv, Placed
<1>2. MessagesNumbered'
  BY DEF BrokerInv, MessagesNumbered
<1>3. MessagesApart'
  BY DEF BrokerInv, MessagesApart
<1>4. SoundOpen'
  BY DEF BrokerInv, SoundOpen
<1>5. SoundFiles'
  BY DEF BrokerInv, SoundFiles
<1>6. SlotsKnown'
  BY DEF BrokerInv, SlotsKnown, CollectRefs
<1> QED
  BY <1>1, <1>2, <1>3, <1>4, <1>5, <1>6

\* A step that closes queues.
LEMMA MoreClosed ==
  ASSUME BrokerInv, Sound' = Sound, DOMAIN opened' = DOMAIN opened,
         \A q \in DOMAIN opened : /\ opened'[q].name = opened[q].name
                                  /\ opened'[q].dir = opened[q].dir
                                  /\ opened'[q].msgs = opened[q].msgs
                                  /\ ~opened'[q].closed => ~opened[q].closed,
         UNCHANGED <<dirs, files, held, deleted, msgs>>
  PROVE  Placed' /\ MessagesNumbered' /\ MessagesApart' /\ SoundOpen' /\ SoundFiles'
<1>0. Placed /\ MessagesNumbered /\ MessagesApart
  BY DEF BrokerInv
<1>1. Placed'
  BY <1>0, SMT DEF Placed
<1>2. MessagesNumbered'
  BY <1>0 DEF MessagesNumbered
<1>3. MessagesApart'
  BY <1>0, SMT DEF MessagesApart
<1>4. SoundOpen'
  <2> SUFFICES ASSUME NEW k \in DOMAIN opened, opened[k].name \in Sound, ~opened'[k].closed
               PROVE  /\ opened[k].dir = dirs[opened[k].name] /\ files[opened[k].dir].meta
                      /\ files[opened[k].dir].msgs = opened[k].msgs
    BY SMT DEF SoundOpen
  <2> QED
    BY DEF BrokerInv, SoundOpen
<1>5. SoundFiles'
  BY DEF BrokerInv, SoundFiles
<1> QED
  BY <1>1, <1>2, <1>3, <1>4, <1>5

\* A Delete under way goes on, alone under its name if that is sound.
LEMMA StillRemoving ==
  ASSUME BrokerInv, Sound' \subseteq Sound, NEW m \in Sound', NEW b \in Admin,
         \A k \in Admin : Removing(k)' => Removing(k) /\ task'[k].name = task[k].name,
         Removing(b)', task'[b].name = m
  PROVE  queues[m] = 0 /\ \A k \in Admin : task'[k].name = m /\ Removing(k)' => k = b
<1>1. m \in Sound /\ Removing(b) /\ task[b].name = m
  OBVIOUS
<1>2. queues[m] = 0 /\ \A k \in Admin : task[k].name = m /\ Removing(k) => k = b
  BY <1>1 DEF BrokerInv, SoundTasks
<1> QED
  BY <1>2

\* Create works alone.
LEMMA OnlyMaker ==
  ASSUME BrokerInv, NEW a \in Admin, Making(a), NEW b \in Admin \ {a}
  PROVE  task[b].step \notin {"meta", "open"}
BY DEF BrokerInv, TasksOK, Making

\* When no Create is under way, and every Delete is where it was.
LEMMA NoMaker ==
  ASSUME BrokerInv, \A b \in Admin : ~Making(b)', Sound' \subseteq Sound,
         \A b \in Admin : Removing(b)' => task'[b] = task[b],
         \A b \in Admin : task[b].step = "close" => task'[b] = task[b],
         UNCHANGED <<queues, opened>>
  PROVE  TasksOK' /\ OpenKnown' /\ SoundTasks'
<1>1. \A b \in Admin : Removing(b)' => Removing(b)
  BY DEF Removing
<1>2. TasksOK'
  <2> SUFFICES ASSUME NEW b \in Admin, Removing(b)'
               PROVE  /\ task'[b].name \in Name /\ task'[b].queue \in DOMAIN opened
                      /\ opened[task'[b].queue].name = task'[b].name
                      /\ queues[task'[b].name] # task'[b].queue
                      /\ task'[b].step = "remove" => opened[task'[b].queue].closed
    BY DEF TasksOK
  <2> QED
    BY <1>1 DEF BrokerInv, TasksOK
<1>3. OpenKnown'
  <2>1. OpenKnown
    BY DEF BrokerInv
  <2> QED
    BY <2>1, SMT DEF OpenKnown, Known
<1>4. SoundTasks'
  <2> SUFFICES ASSUME NEW m \in Sound', NEW b \in Admin, task'[b].name = m, Removing(b)'
               PROVE  /\ queues'[m] = 0
                      /\ \A k \in Admin : task'[k].name = m /\ Removing(k)' => k = b
    BY DEF SoundTasks, Making
  <2> QED
    BY <1>1, StillRemoving
<1> QED
  BY <1>2, <1>3, <1>4

----------------------------------------------------------------------------
\* Create.

\* MkdirAll keeps what the directories of the names hold.
LEMMA MkdirEffect ==
  ASSUME BrokerInv, NEW n \in Name, Mkdir(n)
  PROVE  /\ dirs' \in [Name -> Nat] /\ files' \in Seq(File)
         /\ DOMAIN files \subseteq DOMAIN files'
         /\ \A d \in DOMAIN files : files'[d] = files[d]
         /\ dirs'[n] \in DOMAIN files' /\ dirs'[n] # 0
         /\ \A m \in Name : dirs[m] # 0 \/ m # n => dirs'[m] = dirs[m]
         /\ \A d \in DOMAIN files' \ DOMAIN files : files'[d] = [meta |-> FALSE, msgs |-> {}]
         /\ dirs[n] = 0 => dirs'[n] \notin DOMAIN files
<1>1. BrokerTypeOK /\ Placed
  BY DEF BrokerInv
<1>2. CASE dirs[n] # 0
  BY <1>1, <1>2 DEF Mkdir, disk, BrokerTypeOK, Placed
<1>3. CASE dirs[n] = 0
  <2> DEFINE e == [meta |-> FALSE, msgs |-> {}]
  <2>1. e \in File
    BY DEF File
  <2>2. dirs' = [dirs EXCEPT ![n] = Len(files) + 1] /\ files' = Append(files, e)
    BY <1>3 DEF Mkdir
  <2> HIDE DEF e
  <2>3. /\ files' \in Seq(File) /\ DOMAIN files \subseteq DOMAIN files'
        /\ \A d \in DOMAIN files : files'[d] = files[d]
        /\ DOMAIN files' \ DOMAIN files = {Len(files) + 1}
        /\ files'[Len(files) + 1] = e
        /\ Len(files) + 1 \in Nat /\ Len(files) + 1 # 0
        /\ Len(files) + 1 \in DOMAIN files' \ DOMAIN files
    BY <1>1, <2>1, <2>2, SMT DEF BrokerTypeOK
  <2>4. dirs' \in [Name -> Nat] /\ dirs'[n] = Len(files) + 1 /\ \A m \in Name \ {n} : dirs'[m] = dirs[m]
    BY <1>1, <2>2, <2>3 DEF BrokerTypeOK
  <2> QED
    BY <1>3, <2>3, <2>4 DEF e
<1> QED
  BY <1>2, <1>3

\* What holds of the directories still does, for the queues opened so far.
LEMMA MkdirKeeps ==
  ASSUME BrokerInv, NEW n \in Name, Mkdir(n)
  PROVE  /\ \A m \in Name : dirs'[m] # 0 => dirs'[m] \in DOMAIN files'
         /\ \A k, m \in Name : dirs'[k] = dirs'[m] /\ dirs'[k] # 0 => k = m
         /\ \A q \in DOMAIN opened :
              /\ opened[q].dir \in DOMAIN files' /\ files'[opened[q].dir] = files[opened[q].dir]
              /\ \A m \in Name : dirs'[m] = opened[q].dir => opened[q].name = m
         /\ \A d \in DOMAIN files' : files'[d].msgs \subseteq 1..msgs
         /\ \A m \in Name : dirs[m] # 0 => dirs'[m] = dirs[m] /\ files'[dirs'[m]] = files[dirs[m]]
         /\ \A m \in Name : dirs'[m] # 0 =>
              \/ dirs[m] # 0 /\ dirs'[m] = dirs[m] /\ files'[dirs'[m]] = files[dirs[m]]
              \/ m = n /\ files'[dirs'[m]].msgs = {} /\ ~files'[dirs'[m]].meta
<1>0. BrokerTypeOK /\ Placed /\ MessagesNumbered
  BY DEF BrokerInv
<1>1. \A m \in Name : dirs[m] # 0 =>
        dirs[m] \in DOMAIN files /\ dirs'[m] = dirs[m] /\ files'[dirs'[m]] = files[dirs[m]]
  BY <1>0, MkdirEffect DEF Placed
<1>2. dirs[n] = 0 => /\ dirs'[n] \in DOMAIN files' \ DOMAIN files
                     /\ files'[dirs'[n]].msgs = {} /\ ~files'[dirs'[n]].meta
  <2>1. [meta |-> FALSE, msgs |-> {}].msgs = {} /\ ~[meta |-> FALSE, msgs |-> {}].meta
    OBVIOUS
  <2> QED
    BY <2>1, MkdirEffect
<1>3. \A m \in Name : dirs'[m] # 0 => dirs[m] # 0 \/ (m = n /\ dirs[n] = 0)
  BY MkdirEffect
<1>4. \A m \in Name : dirs'[m] # 0 => dirs'[m] \in DOMAIN files'
  BY <1>1, <1>2, <1>3, MkdirEffect
<1>5. \A k, m \in Name : dirs'[k] = dirs'[m] /\ dirs'[k] # 0 => k = m
  <2> SUFFICES ASSUME NEW k \in Name, NEW m \in Name, dirs'[k] = dirs'[m], dirs'[k] # 0
               PROVE  k = m
    OBVIOUS
  <2>1. CASE dirs[k] # 0 /\ dirs[m] # 0
    BY <1>0, <1>1, <2>1, SMT DEF Placed
  <2>2. CASE dirs[k] = 0 \/ dirs[m] = 0
    <3>1. CASE dirs[k] = 0 /\ dirs[m] = 0
      BY <1>3, <3>1
    <3>2. CASE dirs[k] = 0 /\ dirs[m] # 0
      BY <1>1, <1>2, <1>3, <3>2
    <3>3. CASE dirs[k] # 0 /\ dirs[m] = 0
      BY <1>1, <1>2, <1>3, <3>3
    <3> QED
      BY <2>2, <3>1, <3>2, <3>3
  <2> QED
    BY <2>1, <2>2
<1>6. \A q \in DOMAIN opened :
        /\ opened[q].dir \in DOMAIN files' /\ files'[opened[q].dir] = files[opened[q].dir]
        /\ \A m \in Name : dirs'[m] = opened[q].dir => opened[q].name = m
  <2> SUFFICES ASSUME NEW q \in DOMAIN opened
               PROVE  /\ opened[q].dir \in DOMAIN files' /\ files'[opened[q].dir] = files[opened[q].dir]
                      /\ \A m \in Name : dirs'[m] = opened[q].dir => opened[q].name = m
    OBVIOUS
  <2>1. opened[q].dir \in DOMAIN files /\ opened[q].dir # 0
    BY <1>0, Positions DEF Placed
  <2>2. opened[q].dir \in DOMAIN files' /\ files'[opened[q].dir] = files[opened[q].dir]
    BY <2>1, MkdirEffect
  <2>3. ASSUME NEW m \in Name, dirs'[m] = opened[q].dir
        PROVE  opened[q].name = m
    <3>1. dirs[m] # 0
      BY <1>2, <1>3, <2>1, <2>3
    <3> QED
      BY <1>0, <1>1, <2>3, <3>1, SMT DEF Placed
  <2> QED
    BY <2>2, <2>3
<1>7. \A d \in DOMAIN files' : files'[d].msgs \subseteq 1..msgs
  <2>1. \A d \in DOMAIN files' \ DOMAIN files : files'[d].msgs = {}
    <3>1. [meta |-> FALSE, msgs |-> {}].msgs = {}
      OBVIOUS
    <3>2. \A d \in DOMAIN files' \ DOMAIN files : files'[d] = [meta |-> FALSE, msgs |-> {}]
      BY MkdirEffect
    <3> QED
      BY <3>1, <3>2
  <2>2. \A d \in DOMAIN files : files'[d] = files[d]
    BY MkdirEffect
  <2> QED
    BY <1>0, <2>1, <2>2 DEF MessagesNumbered
<1> QED
  BY <1>1, <1>2, <1>3, <1>4, <1>5, <1>6, <1>7

LEMMA MkdirApart ==
  ASSUME BrokerInv, NEW n \in Name, Mkdir(n)
  PROVE  /\ \A p \in DOMAIN opened : \A m \in Name :
              dirs'[m] # 0 /\ opened[p].name # m => opened[p].msgs \cap files'[dirs'[m]].msgs = {}
         /\ \A k, m \in Name :
              dirs'[k] # 0 /\ dirs'[m] # 0 /\ k # m =>
                files'[dirs'[k]].msgs \cap files'[dirs'[m]].msgs = {}
<1>1. \A m \in Name : dirs'[m] # 0 =>
        \/ dirs[m] # 0 /\ files'[dirs'[m]].msgs = files[dirs[m]].msgs
        \/ files'[dirs'[m]].msgs = {}
  BY MkdirKeeps
<1>2. MessagesApart
  BY DEF BrokerInv
<1>3. ASSUME NEW p \in DOMAIN opened, NEW m \in Name, dirs'[m] # 0, opened[p].name # m
      PROVE  opened[p].msgs \cap files'[dirs'[m]].msgs = {}
  BY <1>1, <1>2, <1>3 DEF MessagesApart
<1>4. ASSUME NEW k \in Name, NEW m \in Name, dirs'[k] # 0, dirs'[m] # 0, k # m
      PROVE  files'[dirs'[k]].msgs \cap files'[dirs'[m]].msgs = {}
  BY <1>1, <1>2, <1>4 DEF MessagesApart
<1> QED
  BY <1>3, <1>4

LEMMA MkdirSound ==
  ASSUME BrokerInv, NEW n \in Name, Mkdir(n), Sound' \subseteq Sound,
         UNCHANGED <<held, deleted>>
  PROVE  /\ \A q \in DOMAIN opened : opened[q].name \in Sound /\ ~opened[q].closed =>
              /\ opened[q].dir = dirs'[opened[q].name]
              /\ files'[opened[q].dir].meta /\ files'[opened[q].dir].msgs = opened[q].msgs
         /\ SoundFiles'
<1>1. ASSUME NEW q \in DOMAIN opened, opened[q].name \in Sound, ~opened[q].closed
      PROVE  /\ opened[q].dir = dirs'[opened[q].name]
             /\ files'[opened[q].dir].meta /\ files'[opened[q].dir].msgs = opened[q].msgs
  <2>1. /\ opened[q].dir = dirs[opened[q].name]
        /\ files[opened[q].dir].meta /\ files[opened[q].dir].msgs = opened[q].msgs
    BY <1>1 DEF BrokerInv, SoundOpen
  <2>2. opened[q].dir # 0 /\ opened[q].name \in Name
    BY <1>1, Positions DEF BrokerInv, Placed, Sound
  <2>3. dirs'[opened[q].name] = dirs[opened[q].name] /\ files'[opened[q].dir] = files[opened[q].dir]
    BY <2>1, <2>2, MkdirKeeps
  <2> QED
    BY <2>1, <2>3
<1>2. SoundFiles'
  <2> SUFFICES ASSUME NEW m \in Sound, dirs'[m] # 0
               PROVE  /\ files'[dirs'[m]].msgs \subseteq held
                      /\ files'[dirs'[m]].msgs \cap deleted = {}
                      /\ ~files'[dirs'[m]].meta => files'[dirs'[m]].msgs = {}
    BY DEF SoundFiles
  <2>1. m \in Name
    BY DEF Sound
  <2>2. \/ dirs[m] # 0 /\ files'[dirs'[m]] = files[dirs[m]]
        \/ files'[dirs'[m]].msgs = {}
    BY <2>1, MkdirKeeps
  <2> QED
    BY <2>2 DEF BrokerInv, SoundFiles
<1> QED
  BY <1>1, <1>2

LEMMA CreateInv ==
  ASSUME BrokerInv, NEW a \in Admin, NEW n \in Name, Create(a, n)
  PROVE  BrokerInv'
<1>1. /\ mu = None /\ task[a].step = "idle" /\ queues[n] = 0 /\ mu' = a /\ Mkdir(n)
      /\ raced' = raced \cup (IF Deleting(n) THEN {n} ELSE {})
      /\ UNCHANGED <<queues, opened, held, handle, up, deleted, damaged, msgs>>
      /\ task' = [task EXCEPT ![a] = [step |-> "meta", name |-> n, queue |-> 0]]
  BY DEF Create, At, bounds
<1>2. /\ task' \in [Admin -> Task] /\ \A b \in Admin \ {a} : task'[b] = task[b]
      /\ task'[a].step = "meta" /\ task'[a].name = n
  <2>1. [step |-> "meta", name |-> n, queue |-> 0] \in Task
    BY SMT DEF Task, Steps
  <2> QED
    BY <1>1, <2>1, TaskSet DEF BrokerInv
<1>3. /\ \A b \in Admin \ {a} : ~Making(b) /\ ~Making(b)' /\ (Removing(b)' <=> Removing(b))
      /\ ~Removing(a) /\ ~Removing(a)'
  BY <1>1, <1>2, NoneApart DEF BrokerInv, TasksOK, Making, Removing
<1>4. Sound' \subseteq Sound /\ (n \in Sound' => ~Deleting(n))
  BY <1>1 DEF Sound
<1>5. BrokerTypeOK'
  BY <1>1, <1>2, MkdirEffect DEF BrokerInv, BrokerTypeOK
<1>6. Mapped' /\ TasksOK'
  <2>1. Mapped'
    BY <1>1 DEF BrokerInv, Mapped
  <2>2. ASSUME NEW b \in Admin \ {a}, Removing(b)
        PROVE  /\ task'[b].name \in Name /\ task'[b].queue \in DOMAIN opened
               /\ opened[task'[b].queue].name = task'[b].name
               /\ queues[task'[b].name] # task'[b].queue
               /\ task'[b].step = "remove" => opened[task'[b].queue].closed
    BY <1>2, <2>2 DEF BrokerInv, TasksOK
  <2> QED
    BY <1>1, <1>2, <1>3, <2>1, <2>2 DEF TasksOK
<1>7. OpenKnown'
  <2>1. \A b \in Admin : task[b].step = "close" => task'[b] = task[b]
    BY <1>1, <1>2
  <2>2. OpenKnown
    BY DEF BrokerInv
  <2> QED
    BY <1>1, <2>1, <2>2, SMT DEF OpenKnown, Known
<1>8. Placed' /\ MessagesNumbered'
  <2>1. Placed'
    BY <1>1, MkdirKeeps DEF Placed
  <2> QED
    BY <1>1, <2>1, MkdirKeeps DEF MessagesNumbered, BrokerInv
<1>9. MessagesApart'
  <2>1. \A p, q \in DOMAIN opened :
          opened[p].name # opened[q].name => opened[p].msgs \cap opened[q].msgs = {}
    BY DEF BrokerInv, MessagesApart
  <2> QED
    BY <1>1, <2>1, MkdirApart DEF MessagesApart
<1>10. SoundTasks'
  <2>1. dirs'[n] # 0
    BY <1>1, MkdirEffect
  <2>2. n \in Sound' => \A b \in Admin : Removing(b)' => task'[b].name # n
    BY <1>2, <1>3, <1>4 DEF Deleting, Removing
  <2>3. ASSUME NEW m \in Sound', NEW b \in Admin, task'[b].name = m, Removing(b)'
        PROVE  queues'[m] = 0 /\ \A k \in Admin : task'[k].name = m /\ Removing(k)' => k = b
    <3>1. \A k \in Admin : Removing(k)' => Removing(k) /\ task'[k] = task[k]
      BY <1>2, <1>3
    <3> QED
      BY <1>1, <1>4, <2>3, <3>1, StillRemoving
  <2>4. ASSUME NEW m \in Sound', NEW b \in Admin, task'[b].name = m, Making(b)'
        PROVE  b = a /\ m = n
    BY <1>2, <1>3, <2>4
  <2>5. \A b \in Admin : task'[b].step # "open"
    BY <1>2, <1>3 DEF Making
  <2> QED
    BY <2>1, <2>2, <2>3, <2>4, <2>5 DEF SoundTasks
<1>11. SoundOpen' /\ SoundFiles'
  BY <1>1, <1>4, MkdirSound DEF SoundOpen
<1>12. SlotsKnown'
  BY <1>1 DEF BrokerInv, SlotsKnown, CollectRefs
<1> QED
  BY <1>5, <1>6, <1>7, <1>8, <1>9, <1>10, <1>11, <1>12 DEF BrokerInv

\* Create writes queue.meta, and the directory is then as good as open.
LEMMA CreateMetaInv ==
  ASSUME BrokerInv, NEW a \in Admin, CreateMeta(a)
  PROVE  BrokerInv'
<1>0. PICK n : n = task[a].name
  OBVIOUS
<1>1. /\ task[a].step = "meta" /\ dirs[n] # 0 /\ Goto(a, "open")
      /\ files' = [files EXCEPT ![dirs[n]].meta = TRUE]
      /\ UNCHANGED <<queues, opened, dirs, held, mu, handle, up, deleted, raced, damaged, msgs>>
  BY <1>0 DEF CreateMeta, At, history, bounds
<1>2. /\ task' \in [Admin -> Task] /\ \A b \in Admin \ {a} : task'[b] = task[b]
      /\ task'[a].step = "open" /\ task'[a].name = n
  BY <1>0, <1>1, TaskGoto DEF BrokerInv, Steps
<1>3. /\ Making(a) /\ Making(a)' /\ ~Removing(a) /\ ~Removing(a)'
      /\ \A b \in Admin \ {a} : ~Making(b) /\ ~Making(b)' /\ (Removing(b)' <=> Removing(b))
  <2>1. Making(a) /\ Making(a)' /\ ~Removing(a) /\ ~Removing(a)'
    BY <1>1, <1>2 DEF Making, Removing
  <2>2. \A b \in Admin : Making(b) => mu = b
    BY DEF BrokerInv, TasksOK
  <2>3. \A b \in Admin \ {a} : (Making(b)' <=> Making(b)) /\ (Removing(b)' <=> Removing(b))
    BY <1>2 DEF Making, Removing
  <2> QED
    BY <2>1, <2>2, <2>3
<1>4. n \in Name /\ queues[n] = 0 /\ mu = a
  BY <1>0, <1>3 DEF BrokerInv, TasksOK
<1>5. dirs[n] \in DOMAIN files
  BY <1>1, <1>4 DEF BrokerInv, Placed
<1>6. /\ files' \in Seq(File) /\ DOMAIN files' = DOMAIN files /\ files'[dirs[n]].meta
      /\ \A d \in DOMAIN files : files'[d].msgs = files[d].msgs /\ (files[d].meta => files'[d].meta)
  <2> DEFINE e == [files[dirs[n]] EXCEPT !.meta = TRUE]
  <2>1. e \in File /\ e.meta /\ e.msgs = files[dirs[n]].msgs
    <3>1. files[dirs[n]] \in File
      BY <1>5, Positions DEF BrokerInv
    <3>2. ASSUME NEW f \in File PROVE LET g == [f EXCEPT !.meta = TRUE]
                                     IN  g \in File /\ g.meta /\ g.msgs = f.msgs
      BY DEF File
    <3> QED
      BY <3>1, <3>2
  <2>2. files' = [files EXCEPT ![dirs[n]] = e]
    BY <1>1
  <2> HIDE DEF e
  <2> QED
    BY <1>5, <2>1, <2>2, FileSet DEF BrokerInv
<1>7. Sound' = Sound
  BY <1>1 DEF Sound
<1>8. BrokerTypeOK' /\ Mapped'
  BY <1>1, <1>2, <1>6 DEF BrokerInv, BrokerTypeOK, Mapped
<1>9. TasksOK'
  <2>1. ASSUME NEW b \in Admin \ {a}, Removing(b)
        PROVE  /\ task'[b].name \in Name /\ task'[b].queue \in DOMAIN opened
               /\ opened[task'[b].queue].name = task'[b].name
               /\ queues[task'[b].name] # task'[b].queue
               /\ task'[b].step = "remove" => opened[task'[b].queue].closed
    BY <1>2, <2>1 DEF BrokerInv, TasksOK
  <2> QED
    BY <1>1, <1>2, <1>3, <1>4, <2>1 DEF TasksOK
<1>10. OpenKnown'
  <2>1. \A b \in Admin : task[b].step = "close" => task'[b] = task[b]
    BY <1>1, <1>2
  <2>2. OpenKnown
    BY DEF BrokerInv
  <2> QED
    BY <1>1, <2>1, <2>2, SMT DEF OpenKnown, Known
<1>11. Placed' /\ MessagesNumbered'
  BY <1>1, <1>6 DEF BrokerInv, Placed, MessagesNumbered
<1>12. MessagesApart'
  <2>1. \A m \in Name : dirs[m] # 0 => files'[dirs[m]].msgs = files[dirs[m]].msgs
    BY <1>6 DEF BrokerInv, Placed
  <2> QED
    BY <1>1, <2>1, SMT DEF BrokerInv, MessagesApart
<1>13. SoundTasks'
  <2>1. ASSUME NEW m \in Sound, NEW b \in Admin, task'[b].name = m, Removing(b)'
        PROVE  queues'[m] = 0 /\ \A k \in Admin : task'[k].name = m /\ Removing(k)' => k = b
    <3>1. \A k \in Admin : Removing(k)' => Removing(k) /\ task'[k] = task[k]
      BY <1>2, <1>3
    <3> QED
      BY <1>1, <1>7, <2>1, <3>1, StillRemoving
  <2>2. n \in Sound => \A b \in Admin : Removing(b)' => task'[b].name # n
    BY <1>0, <1>2, <1>3, SMT DEF BrokerInv, SoundTasks
  <2>3. \A b \in Admin : Making(b)' \/ task'[b].step = "open" => b = a
    BY <1>3 DEF Making
  <2>4. dirs'[n] # 0 /\ files'[dirs'[n]].meta
    BY <1>1, <1>6
  <2> QED
    <3> SUFFICES ASSUME NEW m \in Sound, NEW b \in Admin, task'[b].name = m
                 PROVE  /\ Making(b)' => /\ dirs'[m] # 0
                                         /\ \A k \in Admin : Removing(k)' => task'[k].name # m
                        /\ task'[b].step = "open" => files'[dirs'[m]].meta
                        /\ Removing(b)' => queues'[m] = 0
                        /\ Removing(b)' => \A k \in Admin : task'[k].name = m /\ Removing(k)' => k = b
      BY <1>7 DEF SoundTasks
    <3>1. Making(b)' \/ task'[b].step = "open" => m = n
      BY <1>2, <2>3
    <3> QED
      BY <2>1, <2>2, <2>4, <3>1
<1>14. SoundOpen' /\ SoundFiles'
  <2>1. \A q \in DOMAIN opened : opened[q].dir \in DOMAIN files
    BY DEF BrokerInv, Placed
  <2>2. SoundOpen'
    BY <1>1, <1>6, <1>7, <2>1, SMT DEF BrokerInv, SoundOpen
  <2>3. \A m \in Sound : dirs[m] # 0 => dirs[m] \in DOMAIN files
    BY DEF BrokerInv, Placed, Sound
  <2>4. SoundFiles'
    BY <1>1, <1>6, <1>7, <2>3 DEF BrokerInv, SoundFiles
  <2> QED
    BY <2>2, <2>4
<1>15. SlotsKnown'
  BY <1>1 DEF BrokerInv, SlotsKnown, CollectRefs
<1> QED
  BY <1>8, <1>9, <1>10, <1>11, <1>12, <1>13, <1>14, <1>15 DEF BrokerInv

LEMMA CreateFailInv ==
  ASSUME BrokerInv, NEW a \in Admin, CreateFail(a)
  PROVE  BrokerInv'
<1>1. /\ Making(a) /\ mu' = None /\ Return(a)
      /\ UNCHANGED <<queues, opened, dirs, files, held, handle, up, deleted, raced, damaged, msgs>>
  BY DEF CreateFail, Making, disk, history, bounds
<1>2. /\ task' \in [Admin -> Task] /\ \A b \in Admin \ {a} : task'[b] = task[b]
      /\ task'[a].step = "idle"
  BY <1>1, TaskReturn DEF BrokerInv
<1>3. Sound' = Sound
  BY <1>1 DEF Sound
<1>4. BrokerTypeOK' /\ Mapped'
  BY <1>1, <1>2 DEF BrokerInv, BrokerTypeOK, Mapped
<1>5. TasksOK' /\ OpenKnown' /\ SoundTasks'
  <2>1. \A b \in Admin : ~Making(b)'
    BY <1>1, <1>2, OnlyMaker DEF Making
  <2>2. \A b \in Admin : Removing(b)' => task'[b] = task[b]
    BY <1>1, <1>2 DEF Removing
  <2>3. \A b \in Admin : task[b].step = "close" => task'[b] = task[b]
    BY <1>1, <1>2 DEF Making
  <2> QED
    BY <1>1, <1>3, <2>1, <2>2, <2>3, NoMaker
<1> QED
  BY <1>1, <1>3, <1>4, <1>5, DiskFrame DEF BrokerInv

\* The new queue object is what the directory holds.
LEMMA CreateOpenInv ==
  ASSUME BrokerInv, NEW a \in Admin, CreateOpen(a)
  PROVE  BrokerInv'
<1>0. PICK n, q, o :
        /\ n = task[a].name /\ q = Len(opened) + 1
        /\ o = [name |-> n, dir |-> dirs'[n], msgs |-> files'[dirs'[n]].msgs, closed |-> FALSE]
  OBVIOUS
<1>1. /\ task[a].step = "open" /\ Mkdir(n) /\ mu' = None /\ Return(a)
      /\ opened' = Append(opened, o) /\ queues' = [queues EXCEPT ![n] = q]
      /\ UNCHANGED <<held, handle, up, deleted, raced, damaged, msgs>>
  BY <1>0 DEF CreateOpen, At, history, bounds
<1>2. /\ task' \in [Admin -> Task] /\ \A b \in Admin \ {a} : task'[b] = task[b]
      /\ task'[a].step = "idle"
  BY <1>1, TaskReturn DEF BrokerInv
<1>3. Making(a) /\ n \in Name /\ queues[n] = 0
  BY <1>0, <1>1 DEF BrokerInv, TasksOK, Making
<1>4. /\ o \in Object /\ o.name = n /\ o.dir = dirs'[n] /\ o.msgs = files'[dirs'[n]].msgs
      /\ ~o.closed
  <2>1. files'[dirs'[n]] \in File /\ dirs'[n] \in Nat
    BY <1>1, <1>3, MkdirEffect, SMT
  <2>2. files'[dirs'[n]].msgs \in SUBSET Nat
    BY <2>1 DEF File
  <2> QED
    BY <1>0, <1>3, <2>1, <2>2 DEF Object
<1>5. /\ opened' \in Seq(Object) /\ DOMAIN opened' = DOMAIN opened \cup {q}
      /\ q \notin DOMAIN opened /\ q \in Nat /\ q # 0
      /\ opened'[q] = o /\ \A k \in DOMAIN opened : opened'[k] = opened[k]
  <2>1. BrokerTypeOK
    BY DEF BrokerInv
  <2>2. o \in Object /\ q = Len(opened) + 1 /\ opened' = Append(opened, o)
    BY <1>0, <1>1, <1>4
  <2> QED
    BY <2>1, <2>2, ObjectAdded
<1>6. queues' \in [Name -> Nat] /\ queues'[n] = q /\ \A m \in Name \ {n} : queues'[m] = queues[m]
  BY <1>1, <1>3, <1>5 DEF BrokerInv, BrokerTypeOK
<1>7. Sound' = Sound
  BY <1>1 DEF Sound
<1>8. BrokerTypeOK'
  BY <1>1, <1>2, <1>3, <1>5, <1>6, MkdirEffect DEF BrokerInv, BrokerTypeOK
<1>9. Mapped'
  BY <1>1, <1>4, <1>5, <1>6 DEF BrokerInv, Mapped
<1>10. \A b \in Admin : ~Making(b)' /\ (Removing(b)' => b # a)
  BY <1>2, <1>3, OnlyMaker DEF Making, Removing
<1>11. TasksOK'
  <2> SUFFICES ASSUME NEW b \in Admin, Removing(b)'
               PROVE  /\ task'[b].name \in Name /\ task'[b].queue \in DOMAIN opened'
                      /\ opened'[task'[b].queue].name = task'[b].name
                      /\ queues'[task'[b].name] # task'[b].queue
                      /\ task'[b].step = "remove" => opened'[task'[b].queue].closed
    BY <1>10 DEF TasksOK
  <2>1. task'[b] = task[b] /\ Removing(b)
    BY <1>2, <1>10 DEF Removing
  <2>2. /\ task[b].name \in Name /\ task[b].queue \in DOMAIN opened
        /\ opened[task[b].queue].name = task[b].name
        /\ queues[task[b].name] # task[b].queue
        /\ task[b].step = "remove" => opened[task[b].queue].closed
    BY <2>1 DEF BrokerInv, TasksOK
  <2>3. queues'[task[b].name] # task[b].queue
    BY <1>5, <1>6, <2>2
  <2> QED
    BY <1>5, <2>1, <2>2, <2>3
<1>12. OpenKnown'
  <2> SUFFICES ASSUME NEW k \in DOMAIN opened', ~opened'[k].closed
               PROVE  Known(k)'
    BY DEF OpenKnown
  <2>1. CASE k = q
    BY <1>4, <1>5, <1>6, <2>1 DEF Known
  <2>2. CASE k \in DOMAIN opened
    <3>1. opened'[k] = opened[k] /\ ~opened[k].closed /\ k # 0
      BY <1>5, <2>2, Positions DEF BrokerInv
    <3>2. opened[k].name \in Name
      BY <2>2, Positions DEF BrokerInv, Object
    <3>3. CASE queues[opened[k].name] = k
      <4>1. queues'[opened[k].name] = k
        BY <1>3, <1>6, <3>1, <3>2, <3>3
      <4> QED
        BY <3>1, <4>1 DEF Known
    <3>4. CASE queues[opened[k].name] # k
      <4>1. PICK b \in Admin : /\ task[b].step = "close" /\ task[b].name = opened[k].name
                               /\ task[b].queue = k
        BY <2>2, <3>1, <3>4 DEF BrokerInv, OpenKnown, Known
      <4>2. task'[b] = task[b]
        BY <1>1, <1>2, <4>1
      <4> QED
        BY <3>1, <4>1, <4>2 DEF Known
    <3> QED
      BY <3>3, <3>4
  <2> QED
    BY <1>5, <2>1, <2>2
<1>13. Placed'
  <2>1. dirs'[n] \in DOMAIN files' /\ dirs'[n] # 0
    BY <1>1, <1>3, MkdirEffect
  <2>2. /\ \A m \in Name : dirs'[m] # 0 => dirs'[m] \in DOMAIN files'
        /\ \A k, m \in Name : dirs'[k] = dirs'[m] /\ dirs'[k] # 0 => k = m
    BY <1>1, <1>3, MkdirKeeps
  <2>3. \A k \in DOMAIN opened :
          /\ opened[k].dir \in DOMAIN files'
          /\ \A m \in Name : dirs'[m] = opened[k].dir => opened[k].name = m
    BY <1>1, <1>3, MkdirKeeps
  <2>4. /\ o.dir \in DOMAIN files' /\ \A m \in Name : dirs'[m] = o.dir => o.name = m
    BY <1>3, <1>4, <2>1, <2>2
  <2>5. \A k \in DOMAIN opened' :
          /\ opened'[k].dir \in DOMAIN files'
          /\ \A m \in Name : dirs'[m] = opened'[k].dir => opened'[k].name = m
    BY <1>5, <2>3, <2>4
  <2> QED
    BY <2>2, <2>5 DEF Placed
<1>14. MessagesNumbered'
  <2>1. o.msgs \subseteq 1..msgs
    BY <1>1, <1>3, <1>4, MkdirEffect, MkdirKeeps
  <2> QED
    BY <1>1, <1>3, <1>5, <2>1, MkdirKeeps DEF BrokerInv, MessagesNumbered
<1>15. MessagesApart'
  <2>1. \A k \in DOMAIN opened : opened[k].name # n => opened[k].msgs \cap o.msgs = {}
    BY <1>1, <1>3, <1>4, MkdirEffect, MkdirApart, SMT
  <2>2. \A m \in Name : dirs'[m] # 0 /\ n # m => o.msgs \cap files'[dirs'[m]].msgs = {}
    BY <1>1, <1>3, <1>4, MkdirEffect, MkdirApart
  <2>3. \A k, l \in DOMAIN opened' :
          opened'[k].name # opened'[l].name => opened'[k].msgs \cap opened'[l].msgs = {}
    <3>1. \A k, l \in DOMAIN opened :
            opened[k].name # opened[l].name => opened[k].msgs \cap opened[l].msgs = {}
      BY DEF BrokerInv, MessagesApart
    <3> QED
      BY <1>4, <1>5, <2>1, <3>1, SMT
  <2>4. \A k \in DOMAIN opened' : \A m \in Name :
          dirs'[m] # 0 /\ opened'[k].name # m => opened'[k].msgs \cap files'[dirs'[m]].msgs = {}
    <3>1. \A k \in DOMAIN opened : \A m \in Name :
            dirs'[m] # 0 /\ opened[k].name # m => opened[k].msgs \cap files'[dirs'[m]].msgs = {}
      BY <1>1, <1>3, MkdirApart
    <3> QED
      BY <1>4, <1>5, <2>2, <3>1
  <2> QED
    BY <1>1, <1>3, <2>3, <2>4, MkdirApart DEF MessagesApart
<1>16. SoundTasks'
  <2> SUFFICES ASSUME NEW m \in Sound, NEW b \in Admin, task'[b].name = m, Removing(b)'
               PROVE  /\ queues'[m] = 0
                      /\ \A k \in Admin : task'[k].name = m /\ Removing(k)' => k = b
    BY <1>7, <1>10 DEF SoundTasks, Making
  <2>1. \A k \in Admin : Removing(k)' => Removing(k) /\ task'[k] = task[k]
    BY <1>2, <1>10 DEF Removing
  <2>2. queues[m] = 0 /\ \A k \in Admin : task'[k].name = m /\ Removing(k)' => k = b
    BY <1>7, <2>1, StillRemoving
  <2>3. m # n
    BY <1>0, <1>3, <2>1 DEF BrokerInv, SoundTasks
  <2> QED
    BY <1>6, <2>2, <2>3 DEF Sound
<1>17. SoundOpen' /\ SoundFiles'
  <2>1. n \in Sound => files'[dirs'[n]].meta
    <3>1. n \in Sound => dirs[n] # 0 /\ files[dirs[n]].meta
      BY <1>0, <1>1, <1>3 DEF BrokerInv, SoundTasks
    <3> QED
      BY <1>1, <1>3, <3>1, MkdirKeeps
  <2>2. SoundFiles'
    BY <1>1, <1>3, <1>7, MkdirSound
  <2>3. \A k \in DOMAIN opened : opened[k].name \in Sound /\ ~opened[k].closed =>
          /\ opened[k].dir = dirs'[opened[k].name]
          /\ files'[opened[k].dir].meta /\ files'[opened[k].dir].msgs = opened[k].msgs
    BY <1>1, <1>3, <1>7, MkdirSound
  <2>4. ASSUME NEW k \in DOMAIN opened', opened'[k].name \in Sound, ~opened'[k].closed
        PROVE  /\ opened'[k].dir = dirs'[opened'[k].name]
               /\ files'[opened'[k].dir].meta /\ files'[opened'[k].dir].msgs = opened'[k].msgs
    <3>1. CASE k = q
      BY <1>4, <1>5, <2>1, <2>4, <3>1
    <3>2. CASE k \in DOMAIN opened
      BY <1>5, <2>3, <2>4, <3>2
    <3> QED
      BY <1>5, <3>1, <3>2
  <2> QED
    BY <1>7, <2>2, <2>4 DEF SoundOpen
<1>18. SlotsKnown'
  <2>1. CollectRefs(opened) \subseteq CollectRefs(opened')
    BY <1>5 DEF CollectRefs
  <2> QED
    BY <1>1, <2>1 DEF BrokerInv, SlotsKnown
<1> QED
  BY <1>8, <1>9, <1>11, <1>12, <1>13, <1>14, <1>15, <1>16, <1>17, <1>18 DEF BrokerInv

----------------------------------------------------------------------------
\* Delete.

LEMMA DeleteInv ==
  ASSUME BrokerInv, NEW a \in Admin, NEW n \in Name, Delete(a, n)
  PROVE  BrokerInv'
<1>1. /\ mu = None /\ task[a].step = "idle" /\ queues[n] # 0
      /\ queues' = [queues EXCEPT ![n] = 0]
      /\ task' = [task EXCEPT ![a] = [step |-> "close", name |-> n, queue |-> queues[n]]]
      /\ UNCHANGED <<opened, dirs, files, held, mu, handle, up, deleted, raced, damaged, msgs>>
  BY DEF Delete, At, disk, history, bounds
<1>2. /\ task' \in [Admin -> Task] /\ \A b \in Admin \ {a} : task'[b] = task[b]
      /\ task'[a].step = "close" /\ task'[a].name = n /\ task'[a].queue = queues[n]
  <2>1. queues[n] \in Nat
    BY DEF BrokerInv, BrokerTypeOK
  <2>2. [step |-> "close", name |-> n, queue |-> queues[n]] \in Task
    BY <2>1 DEF Task, Steps
  <2> QED
    BY <1>1, <2>2, TaskSet DEF BrokerInv
<1>3. queues' \in [Name -> Nat] /\ queues'[n] = 0 /\ \A m \in Name \ {n} : queues'[m] = queues[m]
  BY <1>1, SMT DEF BrokerInv, BrokerTypeOK
<1>4. /\ \A b \in Admin : ~Making(b)'
      /\ \A b \in Admin \ {a} : Removing(b)' <=> Removing(b)
  <2>1. \A b \in Admin : ~Making(b)
    BY <1>1, NoneApart DEF BrokerInv, TasksOK
  <2> QED
    BY <1>2, <2>1 DEF Making, Removing
<1>5. Sound' = Sound
  BY <1>1 DEF Sound
<1>6. BrokerTypeOK'
  BY <1>1, <1>2, <1>3 DEF BrokerInv, BrokerTypeOK
<1>7. Mapped'
  BY <1>1, <1>3 DEF BrokerInv, Mapped
<1>8. TasksOK'
  <2> SUFFICES ASSUME NEW b \in Admin, Removing(b)'
               PROVE  /\ task'[b].name \in Name /\ task'[b].queue \in DOMAIN opened
                      /\ opened[task'[b].queue].name = task'[b].name
                      /\ queues'[task'[b].name] # task'[b].queue
                      /\ task'[b].step = "remove" => opened[task'[b].queue].closed
    BY <1>1, <1>4 DEF TasksOK
  <2>1. CASE b = a
    BY <1>1, <1>2, <1>3, <2>1 DEF BrokerInv, Mapped
  <2>2. CASE b # a
    <3>1. /\ task'[b] = task[b] /\ task[b].name \in Name /\ task[b].queue \in DOMAIN opened
          /\ opened[task[b].queue].name = task[b].name
          /\ queues[task[b].name] # task[b].queue
          /\ task[b].step = "remove" => opened[task[b].queue].closed
      BY <1>2, <1>4, <2>2 DEF BrokerInv, TasksOK
    <3>2. queues'[task[b].name] # task[b].queue
      BY <1>3, <3>1, Positions DEF BrokerInv
    <3> QED
      BY <3>1, <3>2
  <2> QED
    BY <2>1, <2>2
<1>9. OpenKnown'
  <2> SUFFICES ASSUME NEW k \in DOMAIN opened, ~opened[k].closed
               PROVE  Known(k)'
    BY <1>1 DEF OpenKnown
  <2>1. opened[k].name \in Name
    BY Positions DEF BrokerInv, Object
  <2>2. CASE queues[opened[k].name] = k
    <3>1. CASE opened[k].name = n
      BY <1>1, <1>2, <2>2, <3>1 DEF Known
    <3>2. CASE opened[k].name # n
      BY <1>1, <1>3, <2>1, <2>2, <3>2 DEF Known
    <3> QED
      BY <3>1, <3>2
  <2>3. CASE queues[opened[k].name] # k
    <3>1. PICK b \in Admin : /\ task[b].step = "close" /\ task[b].name = opened[k].name
                             /\ task[b].queue = k
      BY <2>3 DEF BrokerInv, OpenKnown, Known
    <3>2. task'[b] = task[b]
      BY <1>1, <1>2, <3>1
    <3> QED
      BY <1>1, <3>1, <3>2 DEF Known
  <2> QED
    BY <2>2, <2>3
<1>10. SoundTasks'
  <2> SUFFICES ASSUME NEW m \in Sound, NEW b \in Admin, task'[b].name = m, Removing(b)'
               PROVE  /\ queues'[m] = 0
                      /\ \A k \in Admin : task'[k].name = m /\ Removing(k)' => k = b
    BY <1>4, <1>5 DEF SoundTasks, Making
  <2>1. \A k \in Admin \ {a} : Removing(k)' => Removing(k) /\ task'[k] = task[k]
    BY <1>2, <1>4
  <2>2. \A k \in Admin \ {a} : Removing(k) /\ task[k].name = m =>
          /\ queues[m] = 0 /\ \A l \in Admin : task[l].name = m /\ Removing(l) => l = k
    BY DEF BrokerInv, SoundTasks
  <2>3. CASE b = a
    <3>1. m = n
      BY <1>2, <2>3
    <3> QED
      BY <1>1, <1>3, <2>1, <2>2, <2>3, <3>1
  <2>4. CASE b # a
    <3>1. queues[m] = 0 /\ m # n
      BY <1>1, <2>1, <2>2, <2>4
    <3> QED
      BY <1>2, <1>3, <2>1, <2>2, <2>4, <3>1 DEF Sound
  <2> QED
    BY <2>3, <2>4
<1> QED
  BY <1>1, <1>5, <1>6, <1>7, <1>8, <1>9, <1>10, DiskFrame DEF BrokerInv

LEMMA DeleteCloseInv ==
  ASSUME BrokerInv, NEW a \in Admin, DeleteClose(a)
  PROVE  BrokerInv'
<1>0. PICK q : q = task[a].queue
  OBVIOUS
<1>1. /\ task[a].step = "close" /\ Goto(a, "remove")
      /\ opened' = [opened EXCEPT ![q].closed = TRUE]
      /\ UNCHANGED <<queues, dirs, files, held, mu, handle, up, deleted, raced, damaged, msgs>>
  BY <1>0 DEF DeleteClose, At, disk, history, bounds
<1>2. /\ task' \in [Admin -> Task] /\ \A b \in Admin \ {a} : task'[b] = task[b]
      /\ task'[a].step = "remove" /\ task'[a].name = task[a].name /\ task'[a].queue = q
  BY <1>0, <1>1, TaskGoto DEF BrokerInv, Steps
<1>3. \A b \in Admin : /\ Making(b)' <=> Making(b)
                       /\ Removing(b)' <=> Removing(b)
                       /\ task'[b].name = task[b].name /\ task'[b].queue = task[b].queue
                       /\ task'[b].step = "open" <=> task[b].step = "open"
  BY <1>0, <1>1, <1>2 DEF Making, Removing
<1>4. /\ q \in DOMAIN opened /\ opened[q].name = task[a].name /\ queues[task[a].name] # q
      /\ task[a].name \in Name
  BY <1>0, <1>1 DEF BrokerInv, TasksOK, Removing
<1>5. /\ opened' \in Seq(Object) /\ DOMAIN opened' = DOMAIN opened
      /\ \A k \in DOMAIN opened : /\ opened'[k].name = opened[k].name
                                  /\ opened'[k].dir = opened[k].dir
                                  /\ opened'[k].msgs = opened[k].msgs
      /\ opened'[q].closed /\ \A k \in DOMAIN opened \ {q} : opened'[k] = opened[k]
  <2>1. ASSUME NEW f \in Object
        PROVE  LET g == [f EXCEPT !.closed = TRUE]
               IN  /\ g \in Object /\ g.closed /\ g.name = f.name /\ g.dir = f.dir
                   /\ g.msgs = f.msgs
    BY DEF Object
  <2> DEFINE e == [opened[q] EXCEPT !.closed = TRUE]
  <2>2. /\ e \in Object /\ e.closed /\ e.name = opened[q].name /\ e.dir = opened[q].dir
        /\ e.msgs = opened[q].msgs
    BY <1>4, <2>1, Positions DEF BrokerInv
  <2>3. opened' = [opened EXCEPT ![q] = e]
    BY <1>1
  <2> HIDE DEF e
  <2> QED
    BY <1>4, <2>2, <2>3, ObjectSet DEF BrokerInv
<1>6. Sound' = Sound
  BY <1>1 DEF Sound
<1>7. BrokerTypeOK'
  BY <1>1, <1>2, <1>5 DEF BrokerInv, BrokerTypeOK
<1>8. Mapped'
  <2>1. \A n \in Name : queues[n] # 0 => queues[n] \in DOMAIN opened \ {q}
    BY <1>4 DEF BrokerInv, Mapped
  <2> QED
    BY <1>1, <1>5, <2>1 DEF BrokerInv, Mapped
<1>9. \A k \in DOMAIN opened : ~opened'[k].closed => k # q /\ ~opened[k].closed
  BY <1>5
<1>10. \A k \in DOMAIN opened : opened[k].closed => opened'[k].closed
  BY <1>5
<1>11. TasksOK'
  <2> SUFFICES ASSUME NEW b \in Admin
               PROVE  /\ Making(b)' => /\ mu' = b /\ task'[b].name \in Name
                                       /\ queues'[task'[b].name] = 0
                      /\ Removing(b)' =>
                           /\ task'[b].name \in Name /\ task'[b].queue \in DOMAIN opened'
                           /\ opened'[task'[b].queue].name = task'[b].name
                           /\ queues'[task'[b].name] # task'[b].queue
                           /\ task'[b].step = "remove" => opened'[task'[b].queue].closed
    BY DEF TasksOK
  <2>1. CASE b = a
    <3>1. ~Making(b)'
      BY <1>2, <2>1 DEF Making
    <3> QED
      BY <1>1, <1>2, <1>4, <1>5, <2>1, <3>1
  <2>2. CASE b # a
    <3>1. task'[b] = task[b]
      BY <1>2, <2>2
    <3>2. CASE Making(b)
      <4>1. mu = b /\ task[b].name \in Name /\ queues[task[b].name] = 0
        BY <3>2 DEF BrokerInv, TasksOK
      <4>2. ~Removing(b)'
        BY <1>3, <3>2 DEF Making, Removing
      <4> QED
        BY <1>1, <3>1, <4>1, <4>2
    <3>3. CASE Removing(b)
      <4>1. /\ task[b].name \in Name /\ task[b].queue \in DOMAIN opened
            /\ opened[task[b].queue].name = task[b].name
            /\ queues[task[b].name] # task[b].queue
            /\ task[b].step = "remove" => opened[task[b].queue].closed
        BY <3>3 DEF BrokerInv, TasksOK
      <4>2. ~Making(b)'
        BY <1>3, <3>3 DEF Making, Removing
      <4> QED
        BY <1>1, <1>5, <1>10, <3>1, <4>1, <4>2, SMT
    <3> QED
      BY <1>3, <3>2, <3>3
  <2> QED
    BY <2>1, <2>2
<1>12. OpenKnown'
  <2> SUFFICES ASSUME NEW k \in DOMAIN opened, ~opened'[k].closed
               PROVE  Known(k)'
    BY <1>5 DEF OpenKnown
  <2>1. k # q /\ ~opened[k].closed /\ opened'[k].name = opened[k].name
    BY <1>5, <1>9
  <2>2. CASE queues[opened[k].name] # k
    <3>1. PICK b \in Admin : /\ task[b].step = "close" /\ task[b].name = opened[k].name
                             /\ task[b].queue = k
      BY <2>1, <2>2 DEF BrokerInv, OpenKnown, Known
    <3>2. task'[b] = task[b]
      BY <1>0, <1>2, <2>1, <3>1
    <3> QED
      BY <2>1, <3>1, <3>2 DEF Known
  <2>3. CASE queues[opened[k].name] = k
    BY <1>1, <2>1, <2>3 DEF Known
  <2> QED
    BY <2>2, <2>3
<1>13. SoundTasks'
  <2> SUFFICES ASSUME NEW m \in Sound, NEW b \in Admin, task[b].name = m
               PROVE  /\ Making(b) => dirs[m] # 0 /\ \A k \in Admin : Removing(k) => task[k].name # m
                      /\ task[b].step = "open" => files[dirs[m]].meta
                      /\ Removing(b) => queues[m] = 0
                      /\ Removing(b) => \A k \in Admin : task[k].name = m /\ Removing(k) => k = b
    BY <1>1, <1>3, <1>6, SMT DEF SoundTasks
  <2> QED
    BY DEF BrokerInv, SoundTasks
<1>14. Placed' /\ MessagesNumbered' /\ MessagesApart' /\ SoundOpen' /\ SoundFiles'
  BY <1>1, <1>5, <1>6, <1>9, MoreClosed
<1>15. SlotsKnown'
  <2>1. CollectRefs(opened) \subseteq CollectRefs(opened')
    BY <1>5 DEF CollectRefs
  <2> QED
    BY <1>1, <2>1 DEF BrokerInv, SlotsKnown
<1> QED
  BY <1>7, <1>8, <1>11, <1>12, <1>13, <1>14, <1>15 DEF BrokerInv

\* While Delete removes the directory of a sound name, no queue of that name
\* is open and nobody creates one.
LEMMA RemovingAlone ==
  ASSUME BrokerInv, NEW a \in Admin, task[a].step = "remove", task[a].name \in Sound
  PROVE  /\ \A k \in DOMAIN opened : ~opened[k].closed => opened[k].name # task[a].name
         /\ \A b \in Admin : Making(b) => task[b].name # task[a].name
<1>0. PICK n : n = task[a].name
  OBVIOUS
<1>1. Removing(a)
  BY DEF Removing
<1>2. queues[n] = 0 /\ \A b \in Admin : task[b].name = n /\ Removing(b) => b = a
  BY <1>0, <1>1 DEF BrokerInv, SoundTasks
<1>3. ASSUME NEW k \in DOMAIN opened, ~opened[k].closed, opened[k].name = n
      PROVE  FALSE
  <2>1. k # 0
    BY Positions DEF BrokerInv
  <2>2. PICK b \in Admin : task[b].step = "close" /\ task[b].name = n
    BY <1>2, <1>3, <2>1 DEF BrokerInv, OpenKnown, Known
  <2>3. Removing(b)
    BY <2>2 DEF Removing
  <2>4. b = a
    BY <1>2, <2>2, <2>3
  <2> QED
    BY <2>2, <2>4
<1>4. ASSUME NEW b \in Admin, Making(b), task[b].name = n
      PROVE  FALSE
  <2>1. \A k \in Admin : Removing(k) => task[k].name # n
    BY <1>0, <1>4 DEF BrokerInv, SoundTasks
  <2> QED
    BY <1>0, <1>1, <2>1
<1> QED
  BY <1>0, <1>3, <1>4

\* A Delete that returns leaves the other calls where they are.
LEMMA RemoverReturns ==
  ASSUME BrokerInv, NEW a \in Admin, task[a].step = "remove", Return(a),
         UNCHANGED <<queues, opened, mu>>
  PROVE  /\ TasksOK' /\ OpenKnown'
         /\ \A b \in Admin : Making(b)' \/ Removing(b)' => b # a /\ task'[b] = task[b]
         /\ \A b \in Admin : /\ Making(b)' => Making(b)
                             /\ Removing(b)' => Removing(b) /\ task'[b].name = task[b].name
<1>1. /\ task' \in [Admin -> Task] /\ task'[a].step = "idle"
      /\ \A b \in Admin \ {a} : task'[b] = task[b]
  BY TaskReturn DEF BrokerInv
<1>2. \A b \in Admin : Making(b)' \/ Removing(b)' => b # a /\ task'[b] = task[b]
  BY <1>1 DEF Making, Removing
<1>3. \A b \in Admin : /\ Making(b)' => Making(b)
                       /\ Removing(b)' => Removing(b) /\ task'[b].name = task[b].name
  BY <1>2 DEF Making, Removing
<1>4. TasksOK'
  <2>1. TasksOK
    BY DEF BrokerInv
  <2> QED
    BY <1>2, <1>3, <2>1, SMT DEF TasksOK
<1>5. OpenKnown'
  <2> SUFFICES ASSUME NEW k \in DOMAIN opened, ~opened[k].closed
               PROVE  Known(k)'
    BY DEF OpenKnown
  <2>1. CASE queues[opened[k].name] # k
    <3>1. PICK b \in Admin : /\ task[b].step = "close" /\ task[b].name = opened[k].name
                             /\ task[b].queue = k
      BY <2>1 DEF BrokerInv, OpenKnown, Known
    <3>2. task'[b] = task[b]
      BY <1>1, <3>1
    <3> QED
      BY <3>1, <3>2 DEF Known
  <2>2. CASE queues[opened[k].name] = k
    BY <2>2 DEF Known
  <2> QED
    BY <2>1, <2>2
<1> QED
  BY <1>2, <1>3, <1>4, <1>5

LEMMA DeleteRemoveInv ==
  ASSUME BrokerInv, NEW a \in Admin, DeleteRemove(a)
  PROVE  BrokerInv'
<1>0. PICK n, q : n = task[a].name /\ q = task[a].queue
  OBVIOUS
<1>1. /\ task[a].step = "remove" /\ Return(a)
      /\ dirs' = [dirs EXCEPT ![n] = 0] /\ deleted' = deleted \cup opened[q].msgs
      /\ UNCHANGED <<queues, opened, files, held, mu, handle, up, raced, damaged, msgs>>
  BY <1>0 DEF DeleteRemove, At, bounds
<1>2. n \in Name /\ q \in DOMAIN opened /\ opened[q].name = n
  BY <1>0, <1>1 DEF BrokerInv, TasksOK, Removing
<1>3. dirs' \in [Name -> Nat] /\ dirs'[n] = 0 /\ \A m \in Name \ {n} : dirs'[m] = dirs[m]
  BY <1>1, <1>2, SMT DEF BrokerInv, BrokerTypeOK
<1>4. \A m \in Name : dirs'[m] # 0 => m # n /\ dirs'[m] = dirs[m]
  BY <1>3
<1>5. Sound' = Sound
  BY <1>1 DEF Sound
<1>6. opened[q].msgs \subseteq 1..msgs /\ opened[q].msgs \subseteq Nat
  BY <1>2, Positions DEF BrokerInv, MessagesNumbered, Object
<1>7. BrokerTypeOK'
  <2>1. task' \in [Admin -> Task]
    BY <1>1, TaskReturn DEF BrokerInv
  <2>2. deleted' \in SUBSET Nat
    BY <1>1, <1>6 DEF BrokerInv, BrokerTypeOK
  <2> QED
    BY <1>1, <1>3, <2>1, <2>2 DEF BrokerInv, BrokerTypeOK
<1>8. Mapped'
  BY <1>1 DEF BrokerInv, Mapped
<1>9. TasksOK' /\ OpenKnown'
  BY <1>1, RemoverReturns
<1>10. SoundTasks'
  <2> SUFFICES ASSUME NEW m \in Sound', NEW b \in Admin, task'[b].name = m
               PROVE  /\ Making(b)' => /\ dirs'[m] # 0
                                       /\ \A k \in Admin : Removing(k)' => task'[k].name # m
                      /\ task'[b].step = "open" => files[dirs'[m]].meta
                      /\ Removing(b)' => queues[m] = 0
                      /\ Removing(b)' => \A k \in Admin : task'[k].name = m /\ Removing(k)' => k = b
    BY <1>1 DEF SoundTasks
  <2>1. CASE Making(b)'
    <3>1. Making(b) /\ task'[b] = task[b]
      BY <1>1, <2>1, RemoverReturns
    <3>2. m # n /\ m \in Name
      BY <1>0, <1>1, <1>5, <3>1, RemovingAlone DEF Sound
    <3>3. /\ dirs[m] # 0 /\ \A k \in Admin : Removing(k) => task[k].name # m
          /\ task[b].step = "open" => files[dirs[m]].meta
      BY <1>5, <3>1 DEF BrokerInv, SoundTasks
    <3>4. dirs'[m] = dirs[m]
      BY <1>3, <3>2
    <3>5. \A k \in Admin : Removing(k)' => task'[k].name # m
      BY <1>1, <3>3, RemoverReturns
    <3>6. ~Removing(b)'
      BY <2>1 DEF Making, Removing
    <3> QED
      BY <3>1, <3>3, <3>4, <3>5, <3>6
  <2>2. CASE Removing(b)'
    <3>1. ~Making(b)' /\ task'[b].step # "open"
      BY <2>2 DEF Making, Removing
    <3>2. queues[m] = 0 /\ \A k \in Admin : task'[k].name = m /\ Removing(k)' => k = b
      BY <1>1, <1>5, <2>2, RemoverReturns, StillRemoving
    <3> QED
      BY <3>1, <3>2
  <2> QED
    BY <2>1, <2>2 DEF Making
<1>11. Placed'
  <2>1. Placed
    BY DEF BrokerInv
  <2>2. \A m \in Name : dirs'[m] # 0 => dirs'[m] \in DOMAIN files
    BY <1>4, <2>1 DEF Placed
  <2>3. \A k, m \in Name : dirs'[k] = dirs'[m] /\ dirs'[k] # 0 => k = m
    BY <1>4, <2>1 DEF Placed
  <2>4. ASSUME NEW k \in DOMAIN opened
        PROVE  /\ opened[k].dir \in DOMAIN files
               /\ \A m \in Name : dirs'[m] = opened[k].dir => opened[k].name = m
    <3>1. opened[k].dir \in DOMAIN files /\ opened[k].dir # 0
      BY <2>1, Positions DEF BrokerInv, Placed
    <3> QED
      BY <1>4, <2>1, <3>1 DEF Placed
  <2>5. UNCHANGED <<opened, files>>
    BY <1>1
  <2> QED
    BY <2>2, <2>3, <2>4, <2>5 DEF Placed
<1>12. MessagesNumbered'
  BY <1>1, <1>6 DEF BrokerInv, MessagesNumbered
<1>13. MessagesApart'
  <2>1. MessagesApart
    BY DEF BrokerInv
  <2> QED
    BY <1>1, <1>4, <2>1, SMT DEF MessagesApart
<1>14. SoundOpen'
  <2> SUFFICES ASSUME NEW k \in DOMAIN opened, opened[k].name \in Sound, ~opened[k].closed
               PROVE  /\ opened[k].dir = dirs'[opened[k].name]
                      /\ files[opened[k].dir].meta /\ files[opened[k].dir].msgs = opened[k].msgs
    BY <1>1, <1>5 DEF SoundOpen
  <2>1. opened[k].name # n /\ opened[k].name \in Name
    BY <1>0, <1>1, RemovingAlone DEF Sound
  <2>2. /\ opened[k].dir = dirs[opened[k].name]
        /\ files[opened[k].dir].meta /\ files[opened[k].dir].msgs = opened[k].msgs
    BY DEF BrokerInv, SoundOpen
  <2> QED
    BY <1>3, <2>1, <2>2
<1>15. SoundFiles'
  <2> SUFFICES ASSUME NEW m \in Sound, dirs'[m] # 0
               PROVE  /\ files[dirs'[m]].msgs \subseteq held
                      /\ files[dirs'[m]].msgs \cap deleted' = {}
                      /\ ~files[dirs'[m]].meta => files[dirs'[m]].msgs = {}
    BY <1>1, <1>5 DEF SoundFiles
  <2>1. m # n /\ dirs'[m] = dirs[m] /\ m \in Name
    BY <1>4 DEF Sound
  <2>2. opened[q].msgs \cap files[dirs[m]].msgs = {}
    BY <1>2, <2>1 DEF BrokerInv, MessagesApart
  <2>3. /\ files[dirs[m]].msgs \subseteq held /\ files[dirs[m]].msgs \cap deleted = {}
        /\ ~files[dirs[m]].meta => files[dirs[m]].msgs = {}
    BY <2>1 DEF BrokerInv, SoundFiles
  <2>4. files[dirs[m]].msgs \cap deleted' = {}
    BY <1>1, <2>2, <2>3
  <2> QED
    BY <2>1, <2>3, <2>4
<1>16. SlotsKnown'
  BY <1>1 DEF BrokerInv, SlotsKnown
<1> QED
  BY <1>7, <1>8, <1>9, <1>10, <1>11, <1>12, <1>13, <1>14, <1>15, <1>16 DEF BrokerInv

LEMMA DeleteRemoveFailInv ==
  ASSUME BrokerInv, NEW a \in Admin, DeleteRemoveFail(a)
  PROVE  BrokerInv'
<1>0. PICK n, d : n = task[a].name /\ d = dirs[n]
  OBVIOUS
<1>1. PICK meta \in {FALSE, files[d].meta}, kept \in SUBSET files[d].msgs :
        /\ files' = [files EXCEPT ![d] = [meta |-> meta, msgs |-> kept]]
        /\ damaged' = damaged \cup (IF meta THEN {} ELSE {n})
  BY <1>0 DEF DeleteRemoveFail
<1>2. /\ task[a].step = "remove" /\ Return(a) /\ d # 0
      /\ UNCHANGED <<queues, opened, dirs, held, mu, handle, up, deleted, raced, msgs>>
  BY <1>0 DEF DeleteRemoveFail, At, bounds
<1>3. n \in Name
  BY <1>0, <1>2 DEF BrokerInv, TasksOK, Removing
<1>4. d \in DOMAIN files /\ \A m \in Name \ {n} : dirs[m] # d
  BY <1>0, <1>2, <1>3 DEF BrokerInv, Placed
<1>5. files[d] \in File
  BY <1>4, Positions DEF BrokerInv
<1>6. /\ files' \in Seq(File) /\ DOMAIN files' = DOMAIN files
      /\ files'[d].meta = meta /\ files'[d].msgs = kept
      /\ \A k \in DOMAIN files \ {d} : files'[k] = files[k]
  <2>1. [meta |-> meta, msgs |-> kept] \in File
    BY <1>5 DEF File
  <2> QED
    BY <1>1, <1>4, <2>1, FileSet DEF BrokerInv
<1>7. /\ \A m \in Name \ {n} : dirs[m] # 0 => files'[dirs[m]] = files[dirs[m]]
      /\ \A k \in DOMAIN files : files'[k].msgs \subseteq files[k].msgs
  BY <1>4, <1>6 DEF BrokerInv, Placed
<1>8. Sound' \subseteq Sound /\ (n \in Sound' => meta)
  BY <1>1, <1>2 DEF Sound
<1>9. BrokerTypeOK'
  <2>1. task' \in [Admin -> Task]
    BY <1>2, TaskReturn DEF BrokerInv
  <2>2. damaged' \in SUBSET Name
    BY <1>1, <1>3 DEF BrokerInv, BrokerTypeOK
  <2> QED
    BY <1>2, <1>6, <2>1, <2>2 DEF BrokerInv, BrokerTypeOK
<1>10. Mapped'
  BY <1>2 DEF BrokerInv, Mapped
<1>11. TasksOK' /\ OpenKnown'
  BY <1>2, RemoverReturns
<1>12. SoundTasks'
  <2> SUFFICES ASSUME NEW m \in Sound', NEW b \in Admin, task'[b].name = m
               PROVE  /\ Making(b)' => /\ dirs[m] # 0
                                       /\ \A k \in Admin : Removing(k)' => task'[k].name # m
                      /\ task'[b].step = "open" => files'[dirs[m]].meta
                      /\ Removing(b)' => queues[m] = 0
                      /\ Removing(b)' => \A k \in Admin : task'[k].name = m /\ Removing(k)' => k = b
    BY <1>2 DEF SoundTasks
  <2>1. CASE Making(b)'
    <3>1. Making(b) /\ task'[b] = task[b]
      BY <1>2, <2>1, RemoverReturns
    <3>2. m # n /\ m \in Name
      BY <1>0, <1>2, <1>8, <3>1, RemovingAlone DEF Sound
    <3>3. /\ dirs[m] # 0 /\ \A k \in Admin : Removing(k) => task[k].name # m
          /\ task[b].step = "open" => files[dirs[m]].meta
      BY <1>8, <3>1 DEF BrokerInv, SoundTasks
    <3>4. files'[dirs[m]] = files[dirs[m]]
      BY <1>7, <3>2, <3>3
    <3>5. \A k \in Admin : Removing(k)' => task'[k].name # m
      BY <1>2, <3>3, RemoverReturns
    <3>6. ~Removing(b)'
      BY <2>1 DEF Making, Removing
    <3> QED
      BY <3>1, <3>3, <3>4, <3>5, <3>6
  <2>2. CASE Removing(b)'
    <3>1. ~Making(b)' /\ task'[b].step # "open"
      BY <2>2 DEF Making, Removing
    <3>2. queues[m] = 0 /\ \A k \in Admin : task'[k].name = m /\ Removing(k)' => k = b
      BY <1>2, <1>8, <2>2, RemoverReturns, StillRemoving
    <3> QED
      BY <3>1, <3>2
  <2> QED
    BY <2>1, <2>2 DEF Making
<1>13. Placed'
  BY <1>2, <1>6 DEF BrokerInv, Placed
<1>14. MessagesNumbered'
  BY <1>2, <1>6, <1>7 DEF BrokerInv, MessagesNumbered
<1>15. MessagesApart'
  <2>1. MessagesApart
    BY DEF BrokerInv
  <2>2. \A m \in Name : dirs[m] # 0 => files'[dirs[m]].msgs \subseteq files[dirs[m]].msgs
    BY <1>7 DEF BrokerInv, Placed
  <2>3. \A k \in DOMAIN opened : \A m \in Name : dirs[m] # 0 /\ opened[k].name # m =>
          opened[k].msgs \cap files'[dirs[m]].msgs = {}
    BY <2>1, <2>2 DEF MessagesApart
  <2>4. \A k, m \in Name : dirs[k] # 0 /\ dirs[m] # 0 /\ k # m =>
          files'[dirs[k]].msgs \cap files'[dirs[m]].msgs = {}
    BY <2>1, <2>2 DEF MessagesApart
  <2> QED
    BY <1>2, <2>1, <2>3, <2>4 DEF MessagesApart
<1>16. SoundOpen'
  <2> SUFFICES ASSUME NEW k \in DOMAIN opened, opened[k].name \in Sound', ~opened[k].closed
               PROVE  /\ opened[k].dir = dirs[opened[k].name]
                      /\ files'[opened[k].dir].meta /\ files'[opened[k].dir].msgs = opened[k].msgs
    BY <1>2 DEF SoundOpen
  <2>1. /\ opened[k].dir = dirs[opened[k].name]
        /\ files[opened[k].dir].meta /\ files[opened[k].dir].msgs = opened[k].msgs
    BY <1>8 DEF BrokerInv, SoundOpen
  <2>2. CASE opened[k].name = n
    BY <1>0, <1>2, <1>8, <2>2, RemovingAlone
  <2>3. CASE opened[k].name # n
    <3>1. opened[k].dir # 0 /\ opened[k].name \in Name
      BY <1>8, Positions DEF BrokerInv, Placed, Sound
    <3> QED
      BY <1>7, <2>1, <2>3, <3>1
  <2> QED
    BY <2>2, <2>3
<1>17. SoundFiles'
  <2> SUFFICES ASSUME NEW m \in Sound', dirs[m] # 0
               PROVE  /\ files'[dirs[m]].msgs \subseteq held
                      /\ files'[dirs[m]].msgs \cap deleted = {}
                      /\ ~files'[dirs[m]].meta => files'[dirs[m]].msgs = {}
    BY <1>2 DEF SoundFiles
  <2>1. /\ files[dirs[m]].msgs \subseteq held /\ files[dirs[m]].msgs \cap deleted = {}
        /\ ~files[dirs[m]].meta => files[dirs[m]].msgs = {}
    BY <1>8 DEF BrokerInv, SoundFiles
  <2>2. CASE m = n
    BY <1>0, <1>6, <1>8, <2>1, <2>2
  <2>3. CASE m # n
    BY <1>7, <2>1, <2>3 DEF Sound
  <2> QED
    BY <2>2, <2>3
<1>18. SlotsKnown'
  BY <1>2 DEF BrokerInv, SlotsKnown
<1> QED
  BY <1>9, <1>10, <1>11, <1>12, <1>13, <1>14, <1>15, <1>16, <1>17, <1>18 DEF BrokerInv

----------------------------------------------------------------------------
\* Clients.

\* What a client does concerns neither the map nor the directories' names.
LEMMA ClientFrame ==
  ASSUME BrokerInv, Sound' \subseteq Sound, UNCHANGED <<task, queues, mu, dirs>>,
         \A c \in Client : handle'[c] # 0 => handle'[c] \in DOMAIN opened,
         DOMAIN opened' = DOMAIN opened, DOMAIN files' = DOMAIN files,
         \A q \in DOMAIN opened : /\ opened'[q].name = opened[q].name
                                  /\ opened'[q].dir = opened[q].dir
                                  /\ opened'[q].closed = opened[q].closed,
         \A d \in DOMAIN files : files'[d].meta = files[d].meta
  PROVE  Mapped' /\ Placed' /\ TasksOK' /\ OpenKnown' /\ SoundTasks'
<1>1. Mapped'
  BY DEF BrokerInv, Mapped
<1>2. Placed'
  <2>1. Placed
    BY DEF BrokerInv
  <2> QED
    BY <2>1, SMT DEF Placed
<1>3. TasksOK'
  <2>1. TasksOK
    BY DEF BrokerInv
  <2> QED
    BY <2>1, SMT DEF TasksOK, Making, Removing
<1>4. OpenKnown'
  <2>1. OpenKnown
    BY DEF BrokerInv
  <2> QED
    BY <2>1, SMT DEF OpenKnown, Known
<1>5. SoundTasks'
  <2> SUFFICES ASSUME NEW m \in Sound', NEW b \in Admin, task[b].name = m
               PROVE  /\ Making(b) => dirs[m] # 0 /\ \A k \in Admin : Removing(k) => task[k].name # m
                      /\ task[b].step = "open" => files'[dirs[m]].meta
                      /\ Removing(b) => queues[m] = 0
                      /\ Removing(b) => \A k \in Admin : task[k].name = m /\ Removing(k) => k = b
    BY SMT DEF SoundTasks, Making, Removing
  <2>1. /\ Making(b) => dirs[m] # 0 /\ \A k \in Admin : Removing(k) => task[k].name # m
        /\ task[b].step = "open" => files[dirs[m]].meta
        /\ Removing(b) => queues[m] = 0
        /\ Removing(b) => \A k \in Admin : task[k].name = m /\ Removing(k) => k = b
    BY DEF BrokerInv, SoundTasks
  <2>2. task[b].step = "open" => Making(b)
    BY DEF Making
  <2>3. dirs[m] # 0 => dirs[m] \in DOMAIN files
    BY DEF BrokerInv, Placed, Sound
  <2> QED
    BY <2>1, <2>2, <2>3
<1> QED
  BY <1>1, <1>2, <1>3, <1>4, <1>5

LEMMA HandleSet ==
  ASSUME BrokerInv, NEW c \in Client, NEW q \in DOMAIN opened \cup {0},
         handle' = [handle EXCEPT ![c] = q]
  PROVE  /\ handle' \in [Client -> Nat]
         /\ \A d \in Client : handle'[d] # 0 => handle'[d] \in DOMAIN opened
<1>1. q \in Nat
  <2>1. DOMAIN opened = 1..Len(opened)
    BY Positions DEF BrokerInv
  <2> QED
    BY <2>1, SMT
<1> QED
  BY <1>1 DEF BrokerInv, BrokerTypeOK, Mapped

\* A client that gets a queue, or gives it up.
LEMMA HandleInv ==
  ASSUME BrokerInv, NEW c \in Client, NEW q \in DOMAIN opened \cup {0},
         handle' = [handle EXCEPT ![c] = q],
         UNCHANGED <<queues, opened, disk, held, mu, task, up, history, msgs>>
  PROVE  BrokerInv'
<1>1. UNCHANGED <<queues, opened, dirs, files, held, mu, task, up, deleted, raced, damaged, msgs>>
  BY DEF disk, history
<1>2. Sound' = Sound
  BY <1>1 DEF Sound
<1>3. BrokerTypeOK'
  BY <1>1, HandleSet DEF BrokerInv, BrokerTypeOK
<1>4. Mapped' /\ TasksOK' /\ OpenKnown' /\ SoundTasks'
  BY <1>1, <1>2, HandleSet, ClientFrame
<1>5. Sound' \subseteq Sound /\ (up' => up) /\ UNCHANGED <<opened, dirs, files, held, deleted, msgs>>
  BY <1>1, <1>2, SMT
<1>6. Placed' /\ MessagesNumbered' /\ MessagesApart' /\ SoundOpen' /\ SoundFiles' /\ SlotsKnown'
  BY <1>5, DiskFrame
<1> QED
  BY <1>3, <1>4, <1>6 DEF BrokerInv

LEMMA GetInv ==
  ASSUME BrokerInv, NEW c \in Client, NEW n \in Name, Get(c, n)
  PROVE  BrokerInv'
<1>1. queues[n] \in DOMAIN opened
  BY DEF BrokerInv, Mapped, Get
<1> QED
  BY <1>1, HandleInv DEF Get, bounds

LEMMA UseClosedInv ==
  ASSUME BrokerInv, NEW c \in Client, UseClosed(c)
  PROVE  BrokerInv'
BY HandleInv DEF UseClosed, bounds

\* A call on an open queue changes that queue's messages, in memory and in
\* the directory it was opened on; a sound name has no other open queue there.
Used(h, D, F, G) ==
  /\ h \in DOMAIN opened /\ ~opened[h].closed /\ D = opened[h].dir
  /\ F \in SUBSET Nat /\ G \in SUBSET Nat /\ (files[D].msgs = opened[h].msgs => G = F)
  /\ opened' = [opened EXCEPT ![h].msgs = F] /\ files' = [files EXCEPT ![D].msgs = G]
  /\ UNCHANGED <<dirs, raced, damaged>>

LEMMA QueueUsed ==
  ASSUME BrokerInv, NEW h, NEW D, NEW F, NEW G, Used(h, D, F, G)
  PROVE  /\ opened' \in Seq(Object) /\ DOMAIN opened' = DOMAIN opened
         /\ \A q \in DOMAIN opened : /\ opened'[q].name = opened[q].name
                                     /\ opened'[q].dir = opened[q].dir
                                     /\ opened'[q].closed = opened[q].closed
         /\ opened'[h].msgs = F /\ \A q \in DOMAIN opened \ {h} : opened'[q] = opened[q]
         /\ files' \in Seq(File) /\ DOMAIN files' = DOMAIN files
         /\ \A d \in DOMAIN files : files'[d].meta = files[d].meta
         /\ files'[D].msgs = G /\ \A d \in DOMAIN files \ {D} : files'[d] = files[d]
         /\ Sound' = Sound /\ SoundOpen'
<1> USE DEF Used
<1>1. D \in DOMAIN files /\ \A n \in Name : dirs[n] = D => opened[h].name = n
  BY DEF BrokerInv, Placed
<1>2. /\ opened' \in Seq(Object) /\ DOMAIN opened' = DOMAIN opened
      /\ opened'[h].msgs = F /\ opened'[h].name = opened[h].name
      /\ opened'[h].dir = opened[h].dir /\ opened'[h].closed = opened[h].closed
      /\ \A q \in DOMAIN opened \ {h} : opened'[q] = opened[q]
  <2>1. ASSUME NEW f \in Object
        PROVE  LET g == [f EXCEPT !.msgs = F]
               IN  /\ g \in Object /\ g.msgs = F /\ g.name = f.name /\ g.dir = f.dir
                   /\ g.closed = f.closed
    BY DEF Object
  <2> DEFINE e == [opened[h] EXCEPT !.msgs = F]
  <2>2. /\ e \in Object /\ e.msgs = F /\ e.name = opened[h].name /\ e.dir = opened[h].dir
        /\ e.closed = opened[h].closed
    BY <2>1, Positions DEF BrokerInv
  <2>3. opened' = [opened EXCEPT ![h] = e]
    OBVIOUS
  <2> HIDE DEF e
  <2> QED
    BY <2>2, <2>3, ObjectSet DEF BrokerInv
<1>3. /\ files' \in Seq(File) /\ DOMAIN files' = DOMAIN files
      /\ files'[D].msgs = G /\ files'[D].meta = files[D].meta
      /\ \A d \in DOMAIN files \ {D} : files'[d] = files[d]
  <2>1. ASSUME NEW f \in File
        PROVE  LET g == [f EXCEPT !.msgs = G]
               IN  g \in File /\ g.msgs = G /\ g.meta = f.meta
    BY DEF File
  <2> DEFINE e == [files[D] EXCEPT !.msgs = G]
  <2>2. e \in File /\ e.msgs = G /\ e.meta = files[D].meta
    BY <1>1, <2>1, Positions DEF BrokerInv
  <2>3. files' = [files EXCEPT ![D] = e]
    OBVIOUS
  <2> HIDE DEF e
  <2> QED
    BY <1>1, <2>2, <2>3, FileSet DEF BrokerInv
<1>4. Sound' = Sound
  BY DEF Sound
<1>5. SoundOpen'
  <2> SUFFICES ASSUME NEW k \in DOMAIN opened', opened'[k].name \in Sound', ~opened'[k].closed
               PROVE  /\ opened'[k].dir = dirs'[opened'[k].name] /\ files'[opened'[k].dir].meta
                      /\ files'[opened'[k].dir].msgs = opened'[k].msgs
    BY DEF SoundOpen
  <2>0. k \in DOMAIN opened /\ opened'[k].name \in Sound /\ dirs' = dirs
    BY <1>2, <1>4
  <2>1. /\ opened'[k].name = opened[k].name /\ opened'[k].dir = opened[k].dir
        /\ ~opened[k].closed
    BY <1>2, <2>0
  <2>2. /\ opened[k].dir = dirs[opened[k].name] /\ files[opened[k].dir].meta
        /\ files[opened[k].dir].msgs = opened[k].msgs
    BY <2>0, <2>1 DEF BrokerInv, SoundOpen
  <2>3. CASE k = h
    <3>1. files[D].msgs = opened[h].msgs /\ files[D].meta
      BY <2>2, <2>3
    <3>2. G = F
      BY <3>1
    <3>3. files'[D].msgs = opened'[h].msgs /\ files'[D].meta
      BY <1>2, <1>3, <3>1, <3>2
    <3> QED
      BY <2>0, <2>1, <2>2, <2>3, <3>3
  <2>4. CASE k # h
    <3>1. opened'[k] = opened[k]
      BY <1>2, <2>0, <2>4
    <3>2. opened[k].dir # D
      <4> SUFFICES ASSUME opened[k].dir = D
                   PROVE  FALSE
        OBVIOUS
      <4>1. opened[k].name \in Name
        BY <2>0, <2>1 DEF Sound
      <4>2. opened[h].name = opened[k].name
        BY <1>1, <2>2, <4>1
      <4> QED
        BY <2>0, <2>1, <2>4, <4>2, OneOpen
    <3>3. opened[k].dir \in DOMAIN files
      BY <2>0 DEF BrokerInv, Placed
    <3> QED
      BY <1>3, <2>0, <2>1, <2>2, <3>1, <3>2, <3>3
  <2> QED
    BY <2>3, <2>4
<1> HIDE DEF Used
<1> QED
  BY <1>1, <1>2, <1>3, <1>4, <1>5

LEMMA EnqueueInv ==
  ASSUME BrokerInv, NEW c \in Client, Enqueue(c)
  PROVE  BrokerInv'
<1>0. PICK h, x, D, F, G : /\ h = handle[c] /\ x = msgs + 1 /\ D = opened[h].dir
                           /\ F = opened[h].msgs \cup {x} /\ G = files[D].msgs \cup {x}
  OBVIOUS
<1>1. /\ h # 0 /\ ~opened[h].closed /\ up /\ msgs' = x /\ held' = held \cup {x}
      /\ opened' = [opened EXCEPT ![h].msgs = F] /\ files' = [files EXCEPT ![D].msgs = G]
      /\ handle' = [handle EXCEPT ![c] = 0]
      /\ UNCHANGED <<queues, dirs, mu, task, up, deleted, raced, damaged>>
  BY <1>0 DEF Enqueue, Open, history
<1>2. h \in DOMAIN opened
  BY <1>0, <1>1 DEF BrokerInv, Mapped
<1>3. x \in Nat /\ x \notin 1..msgs /\ 1..msgs \subseteq 1..x /\ x \in 1..x
  BY <1>0, SMT DEF BrokerInv, BrokerTypeOK
<1>4. /\ D \in DOMAIN files /\ F \in SUBSET Nat /\ G \in SUBSET Nat
      /\ \A n \in Name : dirs[n] = D => opened[h].name = n
  BY <1>0, <1>2, <1>3, Positions DEF BrokerInv, Placed, Object, File
<1>5. Used(h, D, F, G)
  BY <1>0, <1>1, <1>2, <1>4 DEF Used
<1>6. /\ opened' \in Seq(Object) /\ DOMAIN opened' = DOMAIN opened
      /\ \A q \in DOMAIN opened : /\ opened'[q].name = opened[q].name
                                  /\ opened'[q].dir = opened[q].dir
                                  /\ opened'[q].closed = opened[q].closed
      /\ opened'[h].msgs = F /\ \A q \in DOMAIN opened \ {h} : opened'[q] = opened[q]
      /\ files' \in Seq(File) /\ DOMAIN files' = DOMAIN files
      /\ \A d \in DOMAIN files : files'[d].meta = files[d].meta
      /\ files'[D].msgs = G /\ \A d \in DOMAIN files \ {D} : files'[d] = files[d]
      /\ Sound' = Sound /\ SoundOpen'
  BY <1>5, QueueUsed
<1>7. /\ \A q \in DOMAIN opened : \A m \in opened'[q].msgs : m \in opened[q].msgs \/ (m = x /\ q = h)
      /\ \A d \in DOMAIN files : \A m \in files'[d].msgs : m \in files[d].msgs \/ (m = x /\ d = D)
  <2>1. ASSUME NEW q \in DOMAIN opened, NEW m \in opened'[q].msgs, q # h
        PROVE  m \in opened[q].msgs
    BY <1>6, <2>1
  <2>2. ASSUME NEW d \in DOMAIN files, NEW m \in files'[d].msgs, d # D
        PROVE  m \in files[d].msgs
    BY <1>6, <2>2
  <2>3. /\ \A m \in opened'[h].msgs : m \in opened[h].msgs \/ m = x
        /\ \A m \in files'[D].msgs : m \in files[D].msgs \/ m = x
    BY <1>0, <1>6
  <2> QED
    BY <2>1, <2>2, <2>3
<1>8. /\ \A q \in DOMAIN opened : x \notin opened[q].msgs
      /\ \A d \in DOMAIN files : x \notin files[d].msgs
      /\ x \notin deleted
  BY <1>3 DEF BrokerInv, MessagesNumbered
<1>9. BrokerTypeOK'
  <2>1. handle' \in [Client -> Nat]
    BY <1>1, HandleSet
  <2> QED
    BY <1>1, <1>3, <1>6, <2>1 DEF BrokerInv, BrokerTypeOK
<1>10. Mapped' /\ Placed' /\ TasksOK' /\ OpenKnown' /\ SoundTasks'
  <2>1. \A d \in Client : handle'[d] # 0 => handle'[d] \in DOMAIN opened
    BY <1>1, HandleSet
  <2> QED
    BY <1>1, <1>6, <2>1, ClientFrame
<1>11. MessagesNumbered'
  <2>1. /\ \A q \in DOMAIN opened : opened[q].msgs \subseteq 1..x
        /\ \A d \in DOMAIN files : files[d].msgs \subseteq 1..x
        /\ deleted \subseteq 1..x
    BY <1>3 DEF BrokerInv, MessagesNumbered
  <2>2. \A q \in DOMAIN opened : opened'[q].msgs \subseteq 1..x
    BY <1>3, <1>7, <2>1
  <2>3. \A d \in DOMAIN files : files'[d].msgs \subseteq 1..x
    BY <1>3, <1>7, <2>1
  <2> QED
    BY <1>1, <1>6, <2>1, <2>2, <2>3 DEF MessagesNumbered
<1>12. MessagesApart'
  <2>0. MessagesApart /\ Placed
    BY DEF BrokerInv
  <2>1. ASSUME NEW p \in DOMAIN opened, NEW q \in DOMAIN opened, opened[p].name # opened[q].name
        PROVE  opened'[p].msgs \cap opened'[q].msgs = {}
    <3>1. opened[p].msgs \cap opened[q].msgs = {} /\ p # q
      BY <2>0, <2>1 DEF MessagesApart
    <3> QED
      BY <1>7, <1>8, <3>1
  <2>2. ASSUME NEW p \in DOMAIN opened, NEW n \in Name, dirs[n] # 0, opened[p].name # n
        PROVE  opened'[p].msgs \cap files'[dirs[n]].msgs = {}
    <3>1. opened[p].msgs \cap files[dirs[n]].msgs = {} /\ dirs[n] \in DOMAIN files
      BY <2>0, <2>2 DEF MessagesApart, Placed
    <3>2. ~(p = h /\ dirs[n] = D)
      BY <1>4, <2>2
    <3>3. ASSUME NEW e \in opened'[p].msgs, e \in files'[dirs[n]].msgs PROVE FALSE
      <4>1. e \in opened[p].msgs \/ (e = x /\ p = h)
        BY <1>7
      <4>2. e \in files[dirs[n]].msgs \/ (e = x /\ dirs[n] = D)
        BY <1>7, <3>1, <3>3
      <4> QED
        BY <1>8, <3>1, <3>2, <4>1, <4>2
    <3> QED
      BY <3>3
  <2>3. ASSUME NEW m \in Name, NEW n \in Name, dirs[m] # 0, dirs[n] # 0, m # n
        PROVE  files'[dirs[m]].msgs \cap files'[dirs[n]].msgs = {}
    <3>1. /\ files[dirs[m]].msgs \cap files[dirs[n]].msgs = {}
          /\ dirs[m] \in DOMAIN files /\ dirs[n] \in DOMAIN files /\ dirs[m] # dirs[n]
      BY <2>0, <2>3 DEF MessagesApart, Placed
    <3>2. /\ \A k \in files'[dirs[m]].msgs : k \in files[dirs[m]].msgs \/ (k = x /\ dirs[m] = D)
          /\ \A k \in files'[dirs[n]].msgs : k \in files[dirs[n]].msgs \/ (k = x /\ dirs[n] = D)
          /\ x \notin files[dirs[m]].msgs /\ x \notin files[dirs[n]].msgs
      BY <1>7, <1>8, <3>1
    <3> QED
      BY <3>1, <3>2
  <2> QED
    BY <1>1, <1>6, <2>1, <2>2, <2>3, SMT DEF MessagesApart
<1>13. SoundFiles'
  <2> SUFFICES ASSUME NEW n \in Sound, dirs[n] # 0
               PROVE  /\ files'[dirs[n]].msgs \subseteq held' /\ files'[dirs[n]].msgs \cap deleted = {}
                      /\ ~files'[dirs[n]].meta => files'[dirs[n]].msgs = {}
    BY <1>1, <1>6 DEF SoundFiles
  <2>1. /\ files[dirs[n]].msgs \subseteq held /\ files[dirs[n]].msgs \cap deleted = {}
        /\ ~files[dirs[n]].meta => files[dirs[n]].msgs = {}
    BY DEF BrokerInv, SoundFiles
  <2>2. dirs[n] \in DOMAIN files /\ n \in Name
    BY DEF BrokerInv, Placed, Sound
  <2>3. dirs[n] = D => files[D].meta
    BY <1>0, <1>1, <1>2, <1>4, <2>2 DEF BrokerInv, SoundOpen
  <2>4. files'[dirs[n]].msgs \subseteq held' /\ files'[dirs[n]].msgs \cap deleted = {}
    <3>1. \A k \in files'[dirs[n]].msgs : k \in files[dirs[n]].msgs \/ k = x
      BY <1>7, <2>2
    <3> QED
      BY <1>1, <1>8, <2>1, <3>1
  <2>5. ~files'[dirs[n]].meta => files'[dirs[n]].msgs = {}
    BY <1>6, <2>1, <2>2, <2>3
  <2> QED
    BY <2>4, <2>5
<1>14. SlotsKnown'
  <2>1. \A m \in held : \E q \in DOMAIN opened : m \in opened[q].msgs
    BY <1>1 DEF BrokerInv, SlotsKnown, CollectRefs
  <2>2. x \in opened'[h].msgs /\ \A q \in DOMAIN opened : opened[q].msgs \subseteq opened'[q].msgs
    BY <1>0, <1>6
  <2>3. ASSUME NEW m \in held'
        PROVE  \E q \in DOMAIN opened' : m \in opened'[q].msgs
    <3>1. CASE m = x
      BY <1>2, <1>6, <2>2, <3>1
    <3>2. CASE m \in held
      <4>1. PICK q \in DOMAIN opened : m \in opened[q].msgs
        BY <2>1, <3>2
      <4>2. q \in DOMAIN opened' /\ m \in opened'[q].msgs
        BY <1>6, <2>2, <4>1
      <4> QED
        BY <4>2
    <3> QED
      BY <1>1, <3>1, <3>2
  <2> QED
    BY <2>3 DEF SlotsKnown, CollectRefs
<1> QED
  BY <1>6, <1>9, <1>10, <1>11, <1>12, <1>13, <1>14 DEF BrokerInv

LEMMA AckInv ==
  ASSUME BrokerInv, NEW c \in Client, NEW x \in 1..msgs, Ack(c, x)
  PROVE  BrokerInv'
<1>0. PICK h, D, F, G : /\ h = handle[c] /\ D = opened[h].dir
                        /\ F = opened[h].msgs \ {x} /\ G = files[D].msgs \ {x}
  OBVIOUS
<1>1. /\ h # 0 /\ ~opened[h].closed /\ x \in opened[h].msgs
      /\ held' = IF up THEN held \ {x} ELSE held
      /\ opened' = [opened EXCEPT ![h].msgs = F] /\ files' = [files EXCEPT ![D].msgs = G]
      /\ handle' = [handle EXCEPT ![c] = 0]
      /\ UNCHANGED <<queues, dirs, mu, task, up, deleted, raced, damaged, msgs>>
  BY <1>0 DEF Ack, Open, history, bounds
<1>2. h \in DOMAIN opened
  BY <1>0, <1>1 DEF BrokerInv, Mapped
<1>3. D \in DOMAIN files /\ F \in SUBSET Nat /\ G \in SUBSET Nat
  BY <1>0, <1>2, Positions DEF BrokerInv, Placed, Object, File
<1>4. Used(h, D, F, G)
  BY <1>0, <1>1, <1>2, <1>3 DEF Used
<1>5. /\ opened' \in Seq(Object) /\ DOMAIN opened' = DOMAIN opened
      /\ \A q \in DOMAIN opened : /\ opened'[q].name = opened[q].name
                                  /\ opened'[q].dir = opened[q].dir
                                  /\ opened'[q].closed = opened[q].closed
      /\ opened'[h].msgs = F /\ \A q \in DOMAIN opened \ {h} : opened'[q] = opened[q]
      /\ files' \in Seq(File) /\ DOMAIN files' = DOMAIN files
      /\ \A d \in DOMAIN files : files'[d].meta = files[d].meta
      /\ files'[D].msgs = G /\ \A d \in DOMAIN files \ {D} : files'[d] = files[d]
      /\ Sound' = Sound /\ SoundOpen'
  BY <1>4, QueueUsed
<1>6. /\ \A q \in DOMAIN opened : opened'[q].msgs \subseteq opened[q].msgs
      /\ \A d \in DOMAIN files : files'[d].msgs \subseteq files[d].msgs
      /\ \A q \in DOMAIN opened : \A m \in opened[q].msgs : m # x => m \in opened'[q].msgs
      /\ x \notin files'[D].msgs
  BY <1>0, <1>5
<1>7. BrokerTypeOK'
  <2>1. handle' \in [Client -> Nat]
    BY <1>1, HandleSet
  <2>2. held' \in SUBSET Nat
    BY <1>1 DEF BrokerInv, BrokerTypeOK
  <2> QED
    BY <1>1, <1>5, <2>1, <2>2 DEF BrokerInv, BrokerTypeOK
<1>8. Mapped' /\ Placed' /\ TasksOK' /\ OpenKnown' /\ SoundTasks'
  <2>1. \A d \in Client : handle'[d] # 0 => handle'[d] \in DOMAIN opened
    BY <1>1, HandleSet
  <2> QED
    BY <1>1, <1>5, <2>1, ClientFrame
<1>9. MessagesNumbered'
  <2>1. \A q \in DOMAIN opened : opened'[q].msgs \subseteq 1..msgs
    BY <1>6 DEF BrokerInv, MessagesNumbered
  <2>2. \A d \in DOMAIN files : files'[d].msgs \subseteq 1..msgs
    BY <1>6 DEF BrokerInv, MessagesNumbered
  <2>3. deleted \subseteq 1..msgs
    BY DEF BrokerInv, MessagesNumbered
  <2> QED
    BY <1>1, <1>5, <2>1, <2>2, <2>3 DEF MessagesNumbered
<1>10. MessagesApart'
  <2>0. MessagesApart /\ Placed
    BY DEF BrokerInv
  <2>1. ASSUME NEW p \in DOMAIN opened, NEW q \in DOMAIN opened, opened[p].name # opened[q].name
        PROVE  opened'[p].msgs \cap opened'[q].msgs = {}
    BY <1>6, <2>0, <2>1 DEF MessagesApart
  <2>2. ASSUME NEW p \in DOMAIN opened, NEW n \in Name, dirs[n] # 0, opened[p].name # n
        PROVE  opened'[p].msgs \cap files'[dirs[n]].msgs = {}
    <3>1. opened[p].msgs \cap files[dirs[n]].msgs = {} /\ dirs[n] \in DOMAIN files
      BY <2>0, <2>2 DEF MessagesApart, Placed
    <3> QED
      BY <1>6, <3>1
  <2>3. ASSUME NEW m \in Name, NEW n \in Name, dirs[m] # 0, dirs[n] # 0, m # n
        PROVE  files'[dirs[m]].msgs \cap files'[dirs[n]].msgs = {}
    <3>1. /\ files[dirs[m]].msgs \cap files[dirs[n]].msgs = {}
          /\ dirs[m] \in DOMAIN files /\ dirs[n] \in DOMAIN files
      BY <2>0, <2>3 DEF MessagesApart, Placed
    <3> QED
      BY <1>6, <3>1
  <2> QED
    BY <1>1, <1>5, <2>1, <2>2, <2>3, SMT DEF MessagesApart
<1>11. SoundFiles'
  <2> SUFFICES ASSUME NEW n \in Sound, dirs[n] # 0
               PROVE  /\ files'[dirs[n]].msgs \subseteq held' /\ files'[dirs[n]].msgs \cap deleted = {}
                      /\ ~files'[dirs[n]].meta => files'[dirs[n]].msgs = {}
    BY <1>1, <1>5 DEF SoundFiles
  <2>1. /\ files[dirs[n]].msgs \subseteq held /\ files[dirs[n]].msgs \cap deleted = {}
        /\ ~files[dirs[n]].meta => files[dirs[n]].msgs = {}
    BY DEF BrokerInv, SoundFiles
  <2>2. dirs[n] \in DOMAIN files /\ n \in Name
    BY DEF BrokerInv, Placed, Sound
  <2>3. files'[dirs[n]].msgs \subseteq files[dirs[n]].msgs /\ files'[dirs[n]].meta = files[dirs[n]].meta
    BY <1>5, <1>6, <2>2
  <2>4. x \notin files'[dirs[n]].msgs
    <3>1. CASE dirs[n] = D
      BY <1>6, <3>1
    <3>2. CASE dirs[n] # D
      <4>1. opened[h].name # n
        BY <1>0, <1>1, <1>2, <3>2 DEF BrokerInv, SoundOpen
      <4>2. opened[h].msgs \cap files[dirs[n]].msgs = {}
        BY <1>2, <2>2, <4>1 DEF BrokerInv, MessagesApart
      <4> QED
        BY <1>1, <2>3, <4>2
    <3> QED
      BY <3>1, <3>2
  <2> QED
    BY <1>1, <2>1, <2>3, <2>4
<1>12. SlotsKnown'
  <2> SUFFICES ASSUME up, NEW m \in held'
               PROVE  \E q \in DOMAIN opened' : m \in opened'[q].msgs
    BY <1>1 DEF SlotsKnown, CollectRefs
  <2>1. m \in held /\ m # x
    BY <1>1
  <2>2. PICK q \in DOMAIN opened : m \in opened[q].msgs
    BY <2>1 DEF BrokerInv, SlotsKnown, CollectRefs
  <2>3. q \in DOMAIN opened' /\ m \in opened'[q].msgs
    BY <1>5, <1>6, <2>1, <2>2
  <2> QED
    BY <2>3
<1> QED
  BY <1>5, <1>7, <1>8, <1>9, <1>10, <1>11, <1>12 DEF BrokerInv

LEMMA CheckpointInv ==
  ASSUME BrokerInv, NEW c \in Client, Checkpoint(c)
  PROVE  BrokerInv'
<1>0. PICK h, n, d : h = handle[c] /\ n = opened[h].name /\ d = dirs[n]
  OBVIOUS
<1>1. /\ h # 0 /\ handle' = [handle EXCEPT ![c] = 0]
      /\ UNCHANGED <<queues, opened, dirs, held, mu, task, up, deleted, damaged, msgs>>
  BY <1>0 DEF Checkpoint, bounds
<1>2. h \in DOMAIN opened
  BY <1>0, <1>1 DEF BrokerInv, Mapped
<1>3. opened[h] \in Object /\ n \in Name
  BY <1>0, <1>2, Positions DEF BrokerInv, Object
<1>4. CASE d \in {0, opened[h].dir}
  <2>1. files' = files /\ raced' = raced
    BY <1>0, <1>4 DEF Checkpoint
  <2>2. UNCHANGED <<queues, opened, disk, held, mu, task, up, history, msgs>>
    BY <1>1, <2>1 DEF disk, history
  <2> QED
    BY <1>1, <2>2, HandleInv
<1>5. CASE d \notin {0, opened[h].dir}
  <2>1. PICK lost : files' = [files EXCEPT ![d].msgs = (@ \ lost) \cup opened[h].msgs]
    BY <1>0, <1>5 DEF Checkpoint
  <2>2. PICK G : G = (files[d].msgs \ lost) \cup opened[h].msgs
    OBVIOUS
  <2>3. /\ d \in DOMAIN files /\ files[d] \in File /\ G \in SUBSET Nat
        /\ \A m \in Name \ {n} : dirs[m] # d
    <3>1. d \in DOMAIN files /\ \A m \in Name \ {n} : dirs[m] # d
      BY <1>0, <1>3, <1>5 DEF BrokerInv, Placed
    <3>2. files[d] \in File
      BY <3>1, Positions DEF BrokerInv
    <3>3. files[d].msgs \in SUBSET Nat /\ opened[h].msgs \in SUBSET Nat
      BY <1>3, <3>2 DEF File, Object
    <3> QED
      BY <2>2, <3>1, <3>2, <3>3
  <2>4. /\ files' \in Seq(File) /\ DOMAIN files' = DOMAIN files
        /\ files'[d].msgs = G /\ files'[d].meta = files[d].meta
        /\ \A k \in DOMAIN files \ {d} : files'[k] = files[k]
    <3>1. ASSUME NEW f \in File
          PROVE  LET g == [f EXCEPT !.msgs = G]
                 IN  g \in File /\ g.msgs = G /\ g.meta = f.meta
      BY <2>3 DEF File
    <3> DEFINE e == [files[d] EXCEPT !.msgs = G]
    <3>2. e \in File /\ e.msgs = G /\ e.meta = files[d].meta
      BY <2>3, <3>1
    <3>3. files' = [files EXCEPT ![d] = e]
      BY <2>1, <2>2
    <3> HIDE DEF e
    <3> QED
      BY <2>3, <3>2, <3>3, FileSet DEF BrokerInv
  <2>5. raced' = raced \cup {n}
    BY <1>0, <1>5 DEF Checkpoint
  <2>6. Sound' \subseteq Sound /\ n \notin Sound'
    BY <1>1, <2>5 DEF Sound
  <2>7. \A m \in Name \ {n} : dirs[m] # 0 => files'[dirs[m]] = files[dirs[m]]
    BY <2>3, <2>4 DEF BrokerInv, Placed
  <2>8. BrokerTypeOK'
    <3>1. handle' \in [Client -> Nat]
      BY <1>1, HandleSet
    <3>2. raced' \in SUBSET Name
      BY <1>3, <2>5 DEF BrokerInv, BrokerTypeOK
    <3> QED
      BY <1>1, <2>4, <3>1, <3>2 DEF BrokerInv, BrokerTypeOK
  <2>9. Mapped' /\ Placed' /\ TasksOK' /\ OpenKnown' /\ SoundTasks'
    <3>1. \A k \in Client : handle'[k] # 0 => handle'[k] \in DOMAIN opened
      BY <1>1, HandleSet
    <3>2. \A k \in DOMAIN files : files'[k].meta = files[k].meta
      BY <2>4
    <3> QED
      BY <1>1, <2>4, <2>6, <3>1, <3>2, ClientFrame
  <2>10. MessagesNumbered'
    <3>1. G \subseteq 1..msgs
      BY <1>2, <2>2, <2>3 DEF BrokerInv, MessagesNumbered
    <3>2. \A k \in DOMAIN files : files'[k].msgs \subseteq 1..msgs
      BY <2>4, <3>1 DEF BrokerInv, MessagesNumbered
    <3> QED
      BY <1>1, <2>4, <3>2 DEF BrokerInv, MessagesNumbered
  <2>11. MessagesApart'
    <3>0. MessagesApart
      BY DEF BrokerInv
    <3>1. \A m \in files'[dirs[n]].msgs : m \in files[dirs[n]].msgs \/ m \in opened[h].msgs
      BY <1>0, <2>2, <2>4
    <3>2. ASSUME NEW p \in DOMAIN opened, NEW m \in Name, dirs[m] # 0, opened[p].name # m
          PROVE  opened[p].msgs \cap files'[dirs[m]].msgs = {}
      <4>1. opened[p].msgs \cap files[dirs[m]].msgs = {}
        BY <3>0, <3>2 DEF MessagesApart
      <4>2. CASE m = n
        <5>1. opened[p].msgs \cap opened[h].msgs = {}
          BY <1>0, <1>2, <3>0, <3>2, <4>2 DEF MessagesApart
        <5> QED
          BY <3>1, <4>1, <4>2, <5>1
      <4>3. CASE m # n
        BY <2>7, <3>2, <4>1, <4>3
      <4> QED
        BY <4>2, <4>3
    <3>3. ASSUME NEW m \in Name, m # n, dirs[m] # 0, dirs[n] # 0
          PROVE  files'[dirs[m]].msgs \cap files'[dirs[n]].msgs = {}
      <4>1. /\ files[dirs[m]].msgs \cap files[dirs[n]].msgs = {}
            /\ opened[h].msgs \cap files[dirs[m]].msgs = {}
        BY <1>0, <1>2, <1>3, <3>0, <3>3 DEF MessagesApart
      <4>2. files'[dirs[m]] = files[dirs[m]]
        BY <2>7, <3>3
      <4> QED
        BY <3>1, <4>1, <4>2
    <3>4. ASSUME NEW k \in Name, NEW m \in Name, dirs[k] # 0, dirs[m] # 0, k # m
          PROVE  files'[dirs[k]].msgs \cap files'[dirs[m]].msgs = {}
      <4>1. CASE k = n
        BY <3>3, <3>4, <4>1
      <4>2. CASE m = n
        BY <3>3, <3>4, <4>2
      <4>3. CASE k # n /\ m # n
        BY <2>7, <3>0, <3>4, <4>3 DEF MessagesApart
      <4> QED
        BY <4>1, <4>2, <4>3
    <3> QED
      BY <1>1, <3>0, <3>2, <3>4, SMT DEF MessagesApart
  <2>12. SoundOpen'
    <3> SUFFICES ASSUME NEW k \in DOMAIN opened, opened[k].name \in Sound', ~opened[k].closed
                 PROVE  /\ opened[k].dir = dirs[opened[k].name] /\ files'[opened[k].dir].meta
                        /\ files'[opened[k].dir].msgs = opened[k].msgs
      BY <1>1 DEF SoundOpen
    <3>1. /\ opened[k].dir = dirs[opened[k].name] /\ files[opened[k].dir].meta
          /\ files[opened[k].dir].msgs = opened[k].msgs
      BY <2>6 DEF BrokerInv, SoundOpen
    <3>2. opened[k].dir # 0 /\ opened[k].name \in Name \ {n}
      BY <2>6, Positions DEF BrokerInv, Placed, Sound
    <3> QED
      BY <2>7, <3>1, <3>2
  <2>13. SoundFiles'
    <3> SUFFICES ASSUME NEW m \in Sound', dirs[m] # 0
                 PROVE  /\ files'[dirs[m]].msgs \subseteq held
                        /\ files'[dirs[m]].msgs \cap deleted = {}
                        /\ ~files'[dirs[m]].meta => files'[dirs[m]].msgs = {}
      BY <1>1 DEF SoundFiles
    <3>1. m \in Sound /\ m \in Name \ {n}
      BY <2>6 DEF Sound
    <3> QED
      BY <2>7, <3>1 DEF BrokerInv, SoundFiles
  <2>14. SlotsKnown'
    BY <1>1 DEF BrokerInv, SlotsKnown
  <2> QED
    BY <2>8, <2>9, <2>10, <2>11, <2>12, <2>13, <2>14 DEF BrokerInv
<1> QED
  BY <1>4, <1>5

----------------------------------------------------------------------------
\* Close and OpenBroker.

LEMMA CloseInv ==
  ASSUME BrokerInv, Close
  PROVE  BrokerInv'
<1>1. /\ mu = None /\ ~up' /\ queues' = [n \in Name |-> 0]
      /\ opened' = [q \in 1..Len(opened) |->
                      [opened[q] EXCEPT !.closed = @ \/ \E n \in Name : queues[n] = q]]
      /\ UNCHANGED <<dirs, files, held, mu, task, handle, deleted, raced, damaged, msgs>>
  BY DEF Close, disk, history, bounds
<1>2. /\ DOMAIN opened = 1..Len(opened) /\ Len(opened) \in Nat
      /\ \A q \in DOMAIN opened : opened[q] \in Object
  BY Positions DEF BrokerInv
<1>3. /\ DOMAIN opened' = DOMAIN opened
      /\ \A q \in DOMAIN opened : /\ opened'[q] \in Object
                                  /\ opened'[q].name = opened[q].name
                                  /\ opened'[q].dir = opened[q].dir
                                  /\ opened'[q].msgs = opened[q].msgs
                                  /\ opened'[q].closed <=> opened[q].closed \/ \E n \in Name : queues[n] = q
  <2> SUFFICES ASSUME NEW q \in DOMAIN opened
               PROVE  /\ opened'[q] \in Object
                      /\ opened'[q].name = opened[q].name /\ opened'[q].dir = opened[q].dir
                      /\ opened'[q].msgs = opened[q].msgs
                      /\ opened'[q].closed <=> opened[q].closed \/ \E n \in Name : queues[n] = q
    BY <1>1, <1>2
  <2>1. PICK b \in BOOLEAN : b = (opened[q].closed \/ \E n \in Name : queues[n] = q)
    OBVIOUS
  <2>2. opened'[q] = [opened[q] EXCEPT !.closed = b]
    BY <1>1, <1>2, <2>1
  <2>3. opened[q] \in Object
    BY <1>2
  <2>4. /\ opened'[q] \in Object /\ opened'[q].name = opened[q].name
        /\ opened'[q].dir = opened[q].dir /\ opened'[q].msgs = opened[q].msgs
        /\ opened'[q].closed = b
    BY <2>2, <2>3, SMT DEF Object
  <2> QED
    BY <2>1, <2>4
<1>4. opened' \in Seq(Object)
  <2>1. DOMAIN opened' = 1..Len(opened) /\ opened' = [q \in 1..Len(opened) |-> opened'[q]]
    BY <1>1
  <2> QED
    BY <1>2, <1>3, <2>1, SMT
<1>5. /\ Sound' = Sound /\ \A n \in Name : queues'[n] = 0
      /\ \A b \in Admin : ~Making(b) /\ ~Making(b)' /\ (Removing(b)' <=> Removing(b))
  <2>1. \A b \in Admin : ~Making(b)
    BY <1>1, NoneApart DEF BrokerInv, TasksOK
  <2> QED
    BY <1>1, <2>1 DEF Sound, Making, Removing
<1>6. BrokerTypeOK'
  <2>1. queues' \in [Name -> Nat]
    BY <1>1, SMT
  <2> QED
    BY <1>1, <1>4, <2>1 DEF BrokerInv, BrokerTypeOK
<1>7. Mapped'
  BY <1>1, <1>3, <1>5 DEF BrokerInv, Mapped
<1>8. TasksOK'
  <2> SUFFICES ASSUME NEW b \in Admin, Removing(b)'
               PROVE  /\ task'[b].name \in Name /\ task'[b].queue \in DOMAIN opened'
                      /\ opened'[task'[b].queue].name = task'[b].name
                      /\ queues'[task'[b].name] # task'[b].queue
                      /\ task'[b].step = "remove" => opened'[task'[b].queue].closed
    BY <1>5 DEF TasksOK
  <2>0. task' = task /\ Removing(b)
    BY <1>1, <1>5
  <2>1. /\ task[b].name \in Name /\ task[b].queue \in DOMAIN opened
        /\ opened[task[b].queue].name = task[b].name
        /\ task[b].step = "remove" => opened[task[b].queue].closed
    BY <2>0 DEF BrokerInv, TasksOK
  <2>2. task[b].queue # 0
    BY <2>1, Positions DEF BrokerInv
  <2> QED
    BY <1>3, <1>5, <2>0, <2>1, <2>2
<1>9. \A q \in DOMAIN opened : ~opened'[q].closed =>
        ~opened[q].closed /\ \A n \in Name : queues[n] # q
  BY <1>3
<1>10. OpenKnown'
  <2> SUFFICES ASSUME NEW k \in DOMAIN opened, ~opened'[k].closed
               PROVE  Known(k)'
    BY <1>3 DEF OpenKnown
  <2>1. opened[k].name \in Name /\ opened'[k].name = opened[k].name
    BY <1>2, <1>3 DEF Object
  <2>2. PICK b \in Admin : /\ task[b].step = "close" /\ task[b].name = opened[k].name
                           /\ task[b].queue = k
    BY <1>9, <2>1 DEF BrokerInv, OpenKnown, Known
  <2> QED
    BY <1>1, <2>1, <2>2 DEF Known
<1>11. SoundTasks'
  <2> SUFFICES ASSUME NEW m \in Sound, NEW b \in Admin, task[b].name = m, Removing(b)
               PROVE  /\ queues'[m] = 0
                      /\ \A k \in Admin : task[k].name = m /\ Removing(k) => k = b
    BY <1>1, <1>5 DEF SoundTasks, Making
  <2> QED
    BY <1>5 DEF BrokerInv, SoundTasks, Sound
<1>12. Placed' /\ MessagesNumbered' /\ MessagesApart' /\ SoundOpen' /\ SoundFiles'
  <2>1. \A q \in DOMAIN opened : /\ opened'[q].name = opened[q].name
                                 /\ opened'[q].dir = opened[q].dir
                                 /\ opened'[q].msgs = opened[q].msgs
                                 /\ ~opened'[q].closed => ~opened[q].closed
    BY <1>3
  <2>2. UNCHANGED <<dirs, files, held, deleted, msgs>>
    BY <1>1
  <2> QED
    BY <1>3, <1>5, <2>1, <2>2, MoreClosed
<1>13. SlotsKnown'
  BY <1>1 DEF SlotsKnown
<1> QED
  BY <1>6, <1>7, <1>8, <1>10, <1>11, <1>12, <1>13 DEF BrokerInv

\* Finitely many names have a directory.
LEMMA NamesFinite ==
  ASSUME BrokerInv, NEW S \in SUBSET Name, \A n \in S : dirs[n] # 0
  PROVE  IsFiniteSet(S)
<1> DEFINE f == [n \in S |-> dirs[n]]
<1>1. \A n \in S : n \in Name /\ dirs[n] \in 1..Len(files)
  BY Positions DEF BrokerInv, Placed
<1>2. \A m, n \in S : dirs[m] = dirs[n] => m = n
  BY DEF BrokerInv, Placed
<1>3. f \in Injection(S, 1..Len(files))
  BY <1>1, <1>2 DEF Injection, IsInjective
<1>4. IsFiniteSet(1..Len(files))
  <2>1. 1 \in Int /\ Len(files) \in Int
    BY Positions, SMT DEF BrokerInv
  <2> QED
    BY <2>1, FS_Interval
<1> QED
  BY <1>3, <1>4, FS_Injection

\* OpenBroker opens one queue for each name in S, on the name's directory.
Reopened(S) ==
  /\ \A n \in S : n \in Name /\ dirs[n] # 0
  /\ opened' \in Seq(Object) /\ queues' \in [Name -> Nat]
  /\ \A i \in DOMAIN opened' :
       /\ opened'[i].name \in S /\ opened'[i].dir = dirs[opened'[i].name]
       /\ opened'[i].msgs = files[opened'[i].dir].msgs /\ ~opened'[i].closed
       /\ queues'[opened'[i].name] = i
  /\ \A n \in S : queues'[n] \in DOMAIN opened' /\ opened'[queues'[n]].name = n
  /\ \A n \in Name \ S : queues'[n] = 0

LEMMA ReopensAll ==
  ASSUME BrokerInv, NEW S \in SUBSET Name, \A n \in S : dirs[n] # 0,
         NEW order \in Bijection(1..Cardinality(S), S),
         opened' = [i \in DOMAIN order |->
                      [name |-> order[i], dir |-> dirs[order[i]],
                       msgs |-> files[dirs[order[i]]].msgs, closed |-> FALSE]],
         queues' = [n \in Name |-> IF n \in S THEN CHOOSE i \in DOMAIN order : order[i] = n ELSE 0]
  PROVE  Reopened(S)
<1>1. Cardinality(S) \in Nat
  BY NamesFinite, FS_CardinalityType
<1>2. /\ DOMAIN order = 1..Cardinality(S)
      /\ \A i \in DOMAIN order : order[i] \in S
      /\ \A i, j \in DOMAIN order : order[i] = order[j] => i = j
      /\ \A n \in S : \E i \in DOMAIN order : order[i] = n
  <2>1. /\ order \in [1..Cardinality(S) -> S]
        /\ IsInjective(order) /\ \A n \in S : \E i \in 1..Cardinality(S) : order[i] = n
    BY DEF Bijection, Injection, Surjection
  <2> QED
    BY <2>1 DEF IsInjective
<1>3. \A n \in S : n \in Name /\ dirs[n] \in Nat /\ files[dirs[n]].msgs \in SUBSET Nat
  <2>1. \A n \in S : n \in Name /\ dirs[n] \in DOMAIN files
    BY DEF BrokerInv, Placed
  <2>2. \A n \in S : files[dirs[n]] \in File
    BY <2>1, Positions DEF BrokerInv
  <2> QED
    BY <2>1, <2>2 DEF BrokerInv, BrokerTypeOK, File
<1>4. ASSUME NEW i \in DOMAIN order
      PROVE  /\ opened'[i] \in Object /\ opened'[i].name = order[i]
             /\ opened'[i].dir = dirs[order[i]] /\ opened'[i].msgs = files[dirs[order[i]]].msgs
             /\ ~opened'[i].closed
  <2>1. opened'[i] = [name |-> order[i], dir |-> dirs[order[i]],
                      msgs |-> files[dirs[order[i]]].msgs, closed |-> FALSE]
    OBVIOUS
  <2>2. order[i] \in Name /\ dirs[order[i]] \in Nat /\ files[dirs[order[i]]].msgs \in SUBSET Nat
    BY <1>2, <1>3
  <2> QED
    BY <2>1, <2>2 DEF Object
<1>5. DOMAIN opened' = DOMAIN order /\ opened' \in Seq(Object)
  <2>1. DOMAIN opened' = 1..Cardinality(S) /\ opened' = [i \in 1..Cardinality(S) |-> opened'[i]]
    BY <1>2
  <2>2. \A i \in 1..Cardinality(S) : opened'[i] \in Object
    BY <1>2, <1>4
  <2>3. opened' \in Seq(Object)
    <3>1. PICK g : g = opened'
      OBVIOUS
    <3>2. g \in [1..Cardinality(S) -> Object]
      BY <2>1, <2>2, <3>1
    <3>3. g \in Seq(Object)
      BY <1>1, <3>2, SMT
    <3> QED
      BY <3>1, <3>3
  <2> QED
    BY <1>2, <2>1, <2>3
<1>6. \A n \in S : queues'[n] \in DOMAIN order /\ order[queues'[n]] = n
  <2> SUFFICES ASSUME NEW n \in S
               PROVE  queues'[n] \in DOMAIN order /\ order[queues'[n]] = n
    OBVIOUS
  <2>1. queues'[n] = CHOOSE i \in DOMAIN order : order[i] = n
    OBVIOUS
  <2>2. \E i \in DOMAIN order : order[i] = n
    BY <1>2
  <2> QED
    BY <2>1, <2>2
<1>7. \A n \in Name \ S : queues'[n] = 0
  OBVIOUS
<1>8. queues' \in [Name -> Nat]
  <2>1. DOMAIN order \subseteq Nat /\ 0 \in Nat
    BY <1>1, <1>2, SMT
  <2>2. \A n \in Name : queues'[n] \in Nat
    BY <1>6, <1>7, <2>1
  <2> QED
    BY <2>2, SMT
<1>9. \A i \in DOMAIN order : queues'[order[i]] = i
  BY <1>2, <1>6
<1>10. \A i \in DOMAIN opened' :
         /\ opened'[i].name \in S /\ opened'[i].dir = dirs[opened'[i].name]
         /\ opened'[i].msgs = files[opened'[i].dir].msgs /\ ~opened'[i].closed
         /\ queues'[opened'[i].name] = i
  <2> SUFFICES ASSUME NEW i \in DOMAIN opened', NEW n, n = order[i]
               PROVE  /\ opened'[i].name \in S /\ opened'[i].dir = dirs[opened'[i].name]
                      /\ opened'[i].msgs = files[opened'[i].dir].msgs /\ ~opened'[i].closed
                      /\ queues'[opened'[i].name] = i
    OBVIOUS
  <2>1. i \in DOMAIN order /\ n \in S /\ queues'[n] = i
    BY <1>2, <1>5, <1>9, SMT
  <2>2. /\ opened'[i].name = n /\ opened'[i].dir = dirs[n] /\ opened'[i].msgs = files[dirs[n]].msgs
        /\ ~opened'[i].closed
    BY <1>4, <2>1
  <2> QED
    BY <2>1, <2>2
<1>11. \A n \in S : queues'[n] \in DOMAIN opened' /\ opened'[queues'[n]].name = n
  BY <1>4, <1>5, <1>6
<1> QED
  BY <1>3, <1>5, <1>7, <1>8, <1>10, <1>11 DEF Reopened

LEMMA RestartInv ==
  ASSUME BrokerInv, NEW lost \in SUBSET {n \in Name : dirs[n] # 0}, Restart(lost)
  PROVE  BrokerInv'
<1> DEFINE S == {n \in Name : dirs[n] # 0 /\ files'[dirs[n]].meta}
<1>1. /\ files' = [d \in 1..Len(files) |->
                     [files[d] EXCEPT !.meta = @ /\ ~\E n \in lost : dirs[n] = d]]
      /\ held' = CollectRefs(opened') /\ damaged' = damaged \cup lost
      /\ mu' = None /\ task' = [a \in Admin |-> Idle] /\ handle' = [c \in Client |-> 0]
      /\ UNCHANGED <<dirs, deleted, raced, msgs>>
  BY DEF Restart
<1>2. Reopened(S)
  <2>1. S \in SUBSET Name /\ \A n \in S : dirs[n] # 0
    OBVIOUS
  <2>2. PICK order \in Bijection(1..Cardinality(S), S) :
          /\ opened' = [i \in DOMAIN order |->
                          [name |-> order[i], dir |-> dirs[order[i]],
                           msgs |-> files[dirs[order[i]]].msgs, closed |-> FALSE]]
          /\ queues' = [n \in Name |-> IF n \in S THEN CHOOSE i \in DOMAIN order : order[i] = n
                                       ELSE 0]
    BY DEF Restart
  <2> HIDE DEF S
  <2> QED
    BY <2>1, <2>2, ReopensAll
<1>3. S = {n \in Name : dirs[n] # 0 /\ files'[dirs[n]].meta}
  OBVIOUS
<1> HIDE DEF S
<1>4. /\ DOMAIN files = 1..Len(files) /\ Len(files) \in Nat /\ 0 \notin DOMAIN files
      /\ \A d \in DOMAIN files : files[d] \in File
  BY Positions DEF BrokerInv
<1>5. /\ DOMAIN files' = DOMAIN files
      /\ \A d \in DOMAIN files : /\ files'[d] \in File /\ files'[d].msgs = files[d].msgs
                                 /\ files'[d].meta <=> files[d].meta /\ ~\E n \in lost : dirs[n] = d
  <2> SUFFICES ASSUME NEW d \in DOMAIN files
               PROVE  /\ files'[d] \in File /\ files'[d].msgs = files[d].msgs
                      /\ files'[d].meta <=> files[d].meta /\ ~\E n \in lost : dirs[n] = d
    BY <1>1, <1>4
  <2>1. PICK b \in BOOLEAN : b = (files[d].meta /\ ~\E n \in lost : dirs[n] = d)
    OBVIOUS
  <2>2. files'[d] = [files[d] EXCEPT !.meta = b]
    BY <1>1, <1>4, <2>1
  <2>3. files[d] \in File
    BY <1>4
  <2>4. files'[d] \in File /\ files'[d].msgs = files[d].msgs /\ files'[d].meta = b
    BY <2>2, <2>3, SMT DEF File
  <2> QED
    BY <2>1, <2>4
<1>6. files' \in Seq(File)
  <2>1. PICK g : g = files'
    OBVIOUS
  <2>2. files' = [d \in 1..Len(files) |-> files'[d]]
    BY <1>1
  <2>3. g \in [1..Len(files) -> File]
    BY <1>4, <1>5, <2>1, <2>2
  <2>4. g \in Seq(File)
    BY <1>4, <2>3, SMT
  <2> QED
    BY <2>1, <2>4
<1>7. /\ UNCHANGED <<dirs, deleted, raced, msgs>> /\ held' = CollectRefs(opened') /\ mu' = None
      /\ \A a \in Admin : task'[a].step = "idle"
      /\ \A c \in Client : handle'[c] = 0
      /\ Sound' \subseteq Sound /\ \A n \in Sound' : n \notin lost
  <2>1. Idle.step = "idle"
    BY SMT DEF Idle
  <2> QED
    BY <1>1, <2>1 DEF Sound
<1>8. /\ \A n \in Name : dirs[n] # 0 => dirs[n] \in DOMAIN files
      /\ \A m, n \in Name : dirs[m] = dirs[n] /\ dirs[m] # 0 => m = n
      /\ \A m, n \in Name : dirs[m] # 0 /\ dirs[n] # 0 /\ m # n =>
           files[dirs[m]].msgs \cap files[dirs[n]].msgs = {}
  BY DEF BrokerInv, Placed, MessagesApart
<1>9. /\ \A n \in S : n \in Name /\ dirs[n] # 0
      /\ opened' \in Seq(Object) /\ queues' \in [Name -> Nat]
      /\ \A i \in DOMAIN opened' :
           /\ opened'[i].name \in S /\ opened'[i].dir = dirs[opened'[i].name]
           /\ opened'[i].msgs = files[opened'[i].dir].msgs /\ ~opened'[i].closed
           /\ queues'[opened'[i].name] = i
      /\ \A n \in S : queues'[n] \in DOMAIN opened' /\ opened'[queues'[n]].name = n
      /\ \A n \in Name \ S : queues'[n] = 0
  BY <1>2 DEF Reopened
<1>10. \A i \in DOMAIN opened' : /\ opened'[i].name \in Name /\ dirs[opened'[i].name] # 0
                                 /\ opened'[i].dir = dirs[opened'[i].name]
                                 /\ opened'[i].msgs = files[dirs[opened'[i].name]].msgs
  <2> SUFFICES ASSUME NEW i \in DOMAIN opened', NEW n, n = opened'[i].name
               PROVE  /\ n \in Name /\ dirs[n] # 0 /\ opened'[i].dir = dirs[n]
                      /\ opened'[i].msgs = files[dirs[n]].msgs
    OBVIOUS
  <2>1. n \in S /\ opened'[i].dir = dirs[n] /\ opened'[i].msgs = files[opened'[i].dir].msgs
    BY <1>9
  <2>2. n \in Name /\ dirs[n] # 0
    BY <1>9, <2>1
  <2> QED
    BY <2>1, <2>2
<1>11. BrokerTypeOK'
  <2>1. task' \in [Admin -> Task] /\ handle' \in [Client -> Nat]
    <3>1. Idle \in Task /\ 0 \in Nat
      BY SMT DEF Idle, Task, Steps
    <3> QED
      BY <1>1, <3>1
  <2>2. held' \in SUBSET Nat
    <3>1. \A i \in DOMAIN opened' : opened'[i] \in Object
      BY <1>9, SMT
    <3>2. \A i \in DOMAIN opened' : opened'[i].msgs \subseteq Nat
      BY <3>1 DEF Object
    <3> QED
      BY <1>7, <3>2 DEF CollectRefs
  <2>3. damaged' \in SUBSET Name
    BY <1>1 DEF BrokerInv, BrokerTypeOK
  <2> QED
    BY <1>6, <1>7, <1>9, <2>1, <2>2, <2>3 DEF BrokerInv, BrokerTypeOK
<1>12. Mapped'
  BY <1>7, <1>9 DEF Mapped
<1>13. TasksOK' /\ SoundTasks'
  <2>1. \A a \in Admin : ~Making(a)' /\ ~Removing(a)' /\ task'[a].step # "open"
    BY <1>7 DEF Making, Removing
  <2> QED
    BY <2>1 DEF TasksOK, SoundTasks
<1>14. OpenKnown'
  BY <1>9 DEF OpenKnown, Known
<1>15. Placed'
  <2>1. \A i \in DOMAIN opened' :
          /\ opened'[i].dir \in DOMAIN files
          /\ \A n \in Name : dirs[n] = opened'[i].dir => opened'[i].name = n
    <3> SUFFICES ASSUME NEW i \in DOMAIN opened', NEW m, m = opened'[i].name
                 PROVE  /\ opened'[i].dir \in DOMAIN files
                        /\ \A n \in Name : dirs[n] = opened'[i].dir => m = n
      OBVIOUS
    <3>1. m \in Name /\ dirs[m] # 0 /\ opened'[i].dir = dirs[m]
      BY <1>10
    <3> QED
      BY <1>8, <3>1
  <2> QED
    BY <1>5, <1>7, <1>8, <2>1 DEF Placed
<1>16. MessagesNumbered'
  <2>1. /\ \A d \in DOMAIN files : files[d].msgs \subseteq 1..msgs
        /\ deleted \subseteq 1..msgs
    BY DEF BrokerInv, MessagesNumbered
  <2>2. \A i \in DOMAIN opened' : opened'[i].msgs \subseteq 1..msgs
    BY <1>8, <1>10, <2>1
  <2>3. \A d \in DOMAIN files' : files'[d].msgs \subseteq 1..msgs
    BY <1>5, <2>1
  <2> QED
    BY <1>7, <2>1, <2>2, <2>3 DEF MessagesNumbered
<1>17. MessagesApart'
  <2>1. \A i \in DOMAIN opened' : /\ opened'[i].name \in Name /\ dirs[opened'[i].name] # 0
                                  /\ opened'[i].msgs = files[dirs[opened'[i].name]].msgs
    BY <1>10
  <2>2. \A n \in Name : dirs[n] # 0 => files'[dirs[n]].msgs = files[dirs[n]].msgs
    BY <1>5, <1>8
  <2>3. \A p, q \in DOMAIN opened' :
          opened'[p].name # opened'[q].name => opened'[p].msgs \cap opened'[q].msgs = {}
    BY <1>8, <2>1, SMT
  <2>4. \A p \in DOMAIN opened' : \A n \in Name :
          dirs[n] # 0 /\ opened'[p].name # n => opened'[p].msgs \cap files'[dirs[n]].msgs = {}
    BY <1>8, <2>1, <2>2
  <2>5. \A m, n \in Name : dirs[m] # 0 /\ dirs[n] # 0 /\ m # n =>
          files'[dirs[m]].msgs \cap files'[dirs[n]].msgs = {}
    BY <1>8, <2>2
  <2> QED
    BY <1>7, <2>3, <2>4, <2>5 DEF MessagesApart
<1>18. SoundOpen'
  <2> SUFFICES ASSUME NEW i \in DOMAIN opened'
               PROVE  /\ opened'[i].dir = dirs[opened'[i].name] /\ files'[opened'[i].dir].meta
                      /\ files'[opened'[i].dir].msgs = opened'[i].msgs
    BY <1>7 DEF SoundOpen
  <2>1. /\ opened'[i].name \in S /\ opened'[i].dir = dirs[opened'[i].name]
        /\ opened'[i].msgs = files[opened'[i].dir].msgs
    BY <1>9
  <2>2. files'[opened'[i].dir].meta /\ opened'[i].dir \in DOMAIN files
    BY <1>3, <1>8, <2>1
  <2> QED
    BY <1>5, <2>1, <2>2
<1>19. SoundFiles'
  <2> SUFFICES ASSUME NEW n \in Sound', dirs[n] # 0
               PROVE  /\ files'[dirs[n]].msgs \subseteq held' /\ files'[dirs[n]].msgs \cap deleted = {}
                      /\ ~files'[dirs[n]].meta => files'[dirs[n]].msgs = {}
    BY <1>7 DEF SoundFiles
  <2>1. n \in Name /\ n \in Sound /\ n \notin lost /\ dirs[n] \in DOMAIN files
    BY <1>7, <1>8 DEF Sound
  <2>2. /\ files[dirs[n]].msgs \cap deleted = {}
        /\ ~files[dirs[n]].meta => files[dirs[n]].msgs = {}
    BY <2>1 DEF BrokerInv, SoundFiles
  <2>3. files'[dirs[n]].msgs = files[dirs[n]].msgs
    BY <1>5, <2>1
  <2>4. files'[dirs[n]].meta <=> files[dirs[n]].meta
    <3>1. \A m \in lost : dirs[m] # dirs[n]
      BY <1>8, <2>1
    <3> QED
      BY <1>5, <2>1, <3>1
  <2>5. CASE n \in S
    <3>1. /\ queues'[n] \in DOMAIN opened'
          /\ opened'[queues'[n]].msgs = files[dirs[n]].msgs
      <4>1. queues'[n] \in DOMAIN opened' /\ opened'[queues'[n]].name = n
        BY <1>9, <2>5
      <4> QED
        BY <1>10, <4>1
    <3>2. files[dirs[n]].msgs \subseteq held'
      BY <1>7, <3>1 DEF CollectRefs
    <3> QED
      BY <2>2, <2>3, <2>4, <3>2
  <2>6. CASE n \notin S
    <3>1. ~files'[dirs[n]].meta
      BY <1>3, <2>1, <2>6
    <3> QED
      BY <2>2, <2>3, <2>4, <3>1
  <2> QED
    BY <2>5, <2>6
<1>20. SlotsKnown'
  BY <1>7 DEF SlotsKnown
<1> QED
  BY <1>11, <1>12, <1>13, <1>14, <1>15, <1>16, <1>17, <1>18, <1>19, <1>20 DEF BrokerInv

----------------------------------------------------------------------------
\* The inductive invariant and what follows from it.

LEMMA InitInv == Init => BrokerInv
<1> SUFFICES ASSUME Init
             PROVE  BrokerInv
  OBVIOUS
<1>1. /\ \A n \in Name : queues[n] = 0 /\ dirs[n] = 0
      /\ \A c \in Client : handle[c] = 0
      /\ \A a \in Admin : task[a].step = "idle"
      /\ DOMAIN opened = {} /\ DOMAIN files = {} /\ held = {} /\ deleted = {}
  <2>1. Idle.step = "idle"
    BY SMT DEF Idle
  <2>2. DOMAIN opened = {} /\ DOMAIN files = {}
    BY SMT DEF Init
  <2> QED
    BY <2>1, <2>2 DEF Init
<1>2. BrokerTypeOK
  <2>1. Idle \in Task /\ 0 \in Nat
    BY SMT DEF Idle, Task, Steps
  <2>2. opened \in Seq(Object) /\ files \in Seq(File)
    BY SMT DEF Init
  <2>3. /\ queues \in [Name -> Nat] /\ dirs \in [Name -> Nat] /\ handle \in [Client -> Nat]
        /\ task \in [Admin -> Task]
    BY <2>1 DEF Init
  <2> QED
    BY <2>1, <2>2, <2>3 DEF Init, BrokerTypeOK
<1>3. Mapped /\ Placed /\ OpenKnown /\ SoundOpen
  BY <1>1 DEF Mapped, Placed, OpenKnown, SoundOpen
<1>4. TasksOK /\ SoundTasks
  <2>1. \A a \in Admin : ~Making(a) /\ ~Removing(a) /\ task[a].step # "open"
    BY <1>1 DEF Making, Removing
  <2> QED
    BY <2>1 DEF TasksOK, SoundTasks
<1>5. MessagesNumbered /\ MessagesApart
  BY <1>1 DEF MessagesNumbered, MessagesApart
<1>6. SoundFiles /\ SlotsKnown
  BY <1>1 DEF SoundFiles, SlotsKnown, Sound
<1> QED
  BY <1>2, <1>3, <1>4, <1>5, <1>6 DEF BrokerInv

LEMMA StutterInv == BrokerInv /\ UNCHANGED vars => BrokerInv'
<1> SUFFICES ASSUME BrokerInv, UNCHANGED vars
             PROVE  BrokerInv'
  OBVIOUS
<1>1. UNCHANGED <<queues, opened, dirs, files, held, mu, task, handle, up, deleted, raced,
                  damaged, msgs>>
  BY DEF vars
<1>2. BrokerTypeOK'
  BY <1>1 DEF BrokerInv, BrokerTypeOK
<1>3. Sound' = Sound
  BY <1>1 DEF Sound
<1>4. Mapped' /\ TasksOK' /\ OpenKnown' /\ SoundTasks'
  <2>1. \A c \in Client : handle'[c] # 0 => handle'[c] \in DOMAIN opened
    BY <1>1 DEF BrokerInv, Mapped
  <2> QED
    BY <1>1, <1>3, <2>1, ClientFrame
<1>5. Sound' \subseteq Sound /\ (up' => up) /\ UNCHANGED <<opened, dirs, files, held, deleted, msgs>>
  BY <1>1, <1>3, SMT
<1>6. Placed' /\ MessagesNumbered' /\ MessagesApart' /\ SoundOpen' /\ SoundFiles' /\ SlotsKnown'
  BY <1>5, DiskFrame
<1> QED
  BY <1>2, <1>4, <1>6 DEF BrokerInv

LEMMA NextInv == BrokerInv /\ [Next]_vars => BrokerInv'
<1> SUFFICES ASSUME BrokerInv, [Next]_vars
             PROVE  BrokerInv'
  OBVIOUS
<1>1. ASSUME NEW a \in Admin, NEW n \in Name, Create(a, n) PROVE BrokerInv'
  BY <1>1, CreateInv
<1>2. ASSUME NEW a \in Admin, NEW n \in Name, Delete(a, n) PROVE BrokerInv'
  BY <1>2, DeleteInv
<1>3. ASSUME NEW a \in Admin, CreateMeta(a) PROVE BrokerInv'
  BY <1>3, CreateMetaInv
<1>4. ASSUME NEW a \in Admin, CreateFail(a) PROVE BrokerInv'
  BY <1>4, CreateFailInv
<1>5. ASSUME NEW a \in Admin, CreateOpen(a) PROVE BrokerInv'
  BY <1>5, CreateOpenInv
<1>6. ASSUME NEW a \in Admin, DeleteClose(a) PROVE BrokerInv'
  BY <1>6, DeleteCloseInv
<1>7. ASSUME NEW a \in Admin, DeleteRemove(a) PROVE BrokerInv'
  BY <1>7, DeleteRemoveInv
<1>8. ASSUME NEW a \in Admin, DeleteRemoveFail(a) PROVE BrokerInv'
  BY <1>8, DeleteRemoveFailInv
<1>9. ASSUME NEW c \in Client, NEW n \in Name, Get(c, n) PROVE BrokerInv'
  BY <1>9, GetInv
<1>10. ASSUME NEW c \in Client, Enqueue(c) PROVE BrokerInv'
  BY <1>10, EnqueueInv
<1>11. ASSUME NEW c \in Client, UseClosed(c) PROVE BrokerInv'
  BY <1>11, UseClosedInv
<1>12. ASSUME NEW c \in Client, Checkpoint(c) PROVE BrokerInv'
  BY <1>12, CheckpointInv
<1>13. ASSUME NEW c \in Client, NEW m \in 1..msgs, Ack(c, m) PROVE BrokerInv'
  BY <1>13, AckInv
<1>14. ASSUME Close PROVE BrokerInv'
  BY <1>14, CloseInv
<1>15. ASSUME NEW lost \in SUBSET {n \in Name : dirs[n] # 0}, Restart(lost) PROVE BrokerInv'
  BY <1>15, RestartInv
<1>16. ASSUME UNCHANGED vars PROVE BrokerInv'
  BY <1>16, StutterInv
<1> QED
  BY <1>1, <1>2, <1>3, <1>4, <1>5, <1>6, <1>7, <1>8, <1>9, <1>10, <1>11, <1>12, <1>13, <1>14,
     <1>15, <1>16 DEF Next

LEMMA Restores == BrokerInv => RestartRestores
<1> SUFFICES ASSUME BrokerInv
             PROVE  RestartRestores
  OBVIOUS
<1>1. ASSUME NEW n \in Sound, queues[n] # 0
      PROVE  /\ dirs[n] # 0 /\ files[dirs[n]].meta
             /\ files[dirs[n]].msgs = opened[queues[n]].msgs
             /\ opened[queues[n]].msgs \subseteq held
  <2>0. PICK q : q = queues[n]
    OBVIOUS
  <2>1. q \in DOMAIN opened /\ opened[q].name = n /\ ~opened[q].closed /\ n \in Name
    BY <1>1, <2>0 DEF BrokerInv, Mapped, Sound
  <2>2. opened[q].dir = dirs[n] /\ files[dirs[n]].meta /\ files[dirs[n]].msgs = opened[q].msgs
    BY <2>1 DEF BrokerInv, SoundOpen
  <2>3. dirs[n] # 0
    BY <2>1, <2>2, Positions DEF BrokerInv, Placed
  <2>4. files[dirs[n]].msgs \subseteq held
    BY <2>3 DEF BrokerInv, SoundFiles
  <2> QED
    BY <2>0, <2>2, <2>3, <2>4
<1>2. up => held \subseteq CollectRefs(opened)
  BY DEF BrokerInv, SlotsKnown
<1> QED
  BY <1>1, <1>2 DEF RestartRestores

LEMMA StaysDeleted == BrokerInv => DeletedStays
<1> SUFFICES ASSUME BrokerInv, NEW n \in Sound, queues[n] # 0
             PROVE  opened[queues[n]].msgs \cap deleted = {}
  BY DEF DeletedStays
<1>1. dirs[n] # 0 /\ files[dirs[n]].msgs = opened[queues[n]].msgs
  BY Restores DEF RestartRestores
<1> QED
  BY <1>1 DEF BrokerInv, SoundFiles

\* For any number of names, admins and clients: what OpenBroker would recover
\* for a name that no Delete raced with and whose queue.meta is intact is, at
\* every instant, what the open queue of that name has confirmed and not seen
\* acknowledged, and the page store counts the slots of those messages.
THEOREM RestartFaithful == Spec => []RestartRestores
<1>1. Spec => []BrokerInv
  BY InitInv, NextInv, PTL DEF Spec
<1> QED
  BY <1>1, Restores, PTL

\* For any number of names, admins and clients: no queue of such a name
\* serves the messages of a queue whose Delete has returned.
THEOREM NoResurrection == Spec => []DeletedStays
<1>1. Spec => []BrokerInv
  BY InitInv, NextInv, PTL DEF Spec
<1> QED
  BY <1>1, StaysDeleted, PTL

----------------------------------------------------------------------------
\* The listing.

\* While the handler works through the names, a name that was in the map all
\* along is listed or yet to be asked for, and what is listed was there.
ListInv ==
  /\ list \in [step : {"idle", "get"}, todo : SUBSET Name, out : SUBSET Name,
               always : SUBSET Name, ever : SUBSET Name]
  /\ list.step = "get" => /\ list.always \subseteq Names /\ Names \subseteq list.ever
                          /\ list.always \subseteq list.out \cup list.todo
                          /\ list.out \subseteq list.ever

LEMMA ListStep ==
  ASSUME ListInv, [ANext]_<<vars, list>>
  PROVE  ListInv'
<1> DEFINE Listing == [step : {"idle", "get"}, todo : SUBSET Name, out : SUBSET Name,
                       always : SUBSET Name, ever : SUBSET Name]
<1>1. NoList \in Listing /\ NoList.step = "idle"
  BY DEF NoList
<1>2. list \in Listing
  BY DEF ListInv
<1>3. Names \in SUBSET Name /\ Names' \in SUBSET Name
  BY DEF Names
<1>4. CASE list' = NoList
  BY <1>1, <1>4 DEF ListInv
<1>5. ASSUME list.step = "get",
             list' = [list EXCEPT !.always = @ \cap Names', !.ever = @ \cup Names']
      PROVE  ListInv'
  <2>1. /\ list' \in Listing /\ list'.todo = list.todo /\ list'.out = list.out
        /\ list'.always = list.always \cap Names' /\ list'.ever = list.ever \cup Names'
    BY <1>2, <1>3, <1>5
  <2> QED
    BY <1>5, <2>1 DEF ListInv
<1>6. ASSUME UNCHANGED vars PROVE Names' = Names
  BY <1>6 DEF vars, Names
<1>7. CASE ListNames
  <2>1. /\ list' \in Listing /\ list'.todo = Names /\ list'.out = {}
        /\ list'.always = Names /\ list'.ever = Names /\ Names' = Names
    BY <1>3, <1>6, <1>7 DEF ListNames
  <2> QED
    BY <2>1 DEF ListInv
<1>8. ASSUME NEW n \in Name, ListGet(n) PROVE ListInv'
  <2>1. list.step = "get" /\ Names' = Names
    BY <1>6, <1>8 DEF ListGet
  <2>2. list' = [list EXCEPT !.todo = @ \ {n}, !.out = @ \cup ({n} \cap Names)]
    BY <1>8 DEF ListGet
  <2>3. /\ list' \in Listing
        /\ list'.todo = list.todo \ {n} /\ list'.out = list.out \cup ({n} \cap Names)
        /\ list'.always = list.always /\ list'.ever = list.ever
    BY <1>2, <1>3, <2>2
  <2>4. /\ list.always \subseteq Names /\ Names \subseteq list.ever
        /\ list.always \subseteq list.out \cup list.todo /\ list.out \subseteq list.ever
    BY <2>1 DEF ListInv
  <2>5. list'.always \subseteq list'.out \cup list'.todo /\ list'.out \subseteq list'.ever
    BY <2>3, <2>4
  <2> QED
    BY <2>1, <2>3, <2>4, <2>5 DEF ListInv
<1>9. CASE UNCHANGED <<vars, list>>
  BY <1>6, <1>9 DEF ListInv
<1>10. list.step \in {"idle", "get"}
  BY <1>2
<1> QED
  BY <1>4, <1>5, <1>7, <1>8, <1>9, <1>10 DEF ANext, Others, ListAnswer

\* For any set of names: GET /v1/queues answers with every queue that was in
\* the map for as long as the request ran and with none that was never there,
\* whatever is created, deleted and restarted between Names and each Get.
THEOREM ListingFaithful == ASpec => []ListingExact
<1>1. AInit => ListInv
  <2>1. /\ NoList \in [step : {"idle", "get"}, todo : SUBSET Name, out : SUBSET Name,
                      always : SUBSET Name, ever : SUBSET Name]
        /\ NoList.step # "get"
    BY SMT DEF NoList
  <2> QED
    BY <2>1 DEF AInit, ListInv
<1>2. ListInv /\ [ANext]_<<vars, list>> => ListInv'
  BY ListStep
<1>3. ListInv => ListingExact
  BY DEF ListInv, ListingExact
<1> QED
  BY <1>1, <1>2, <1>3, PTL DEF ASpec
=============================================================================
