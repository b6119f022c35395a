------------------------------ MODULE MCBroker ------------------------------
(* The broker on small instances, and what its documentation says of it. *)
EXTENDS HttpApi, TLC

Symmetry == Permutations(Admin) \cup Permutations(Client)

\* README.md:158 says of DELETE /v1/queues/{name}: "Delete queue and reclaim
\* all pages".  When Delete has returned, the page store should count none
\* of the queue's slots as used.
DeletedReclaimed == deleted \cap held = {}

\* README.md:250 says of Enqueue: "Payload fsynced -> WAL fsynced -> client
\* told 201", and README.md:283 that messages survive a restart: OpenBroker
\* recovers every message that an open queue has confirmed.
ConfirmedSurvive ==
  \A n \in Name : queues[n] # 0 /\ opened[queues[n]].msgs # {} =>
    /\ dirs[n] # 0 /\ files[dirs[n]].meta
    /\ opened[queues[n]].msgs \subseteq files[dirs[n]].msgs

\* design-doc.md:529 says of queue.meta: "fail closed on CRC/format error".
\* The page store counts as used the slots of every message that a queue
\* directory holds, also when OpenBroker skips the queue.
PagesKept ==
  \A n \in Name \ raced : dirs[n] # 0 => files[dirs[n]].msgs \subseteq held
=============================================================================
