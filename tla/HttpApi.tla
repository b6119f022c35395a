------------------------------ MODULE HttpApi ------------------------------
(***************************************************************************)
(* The handlers of internal/api/api.go over the broker.  A request is one  *)
(* or more calls of the broker: POST /v1/queues is Create, DELETE is       *)
(* Delete, the operations of a queue are Get and one action of Client.     *)
(* GET /v1/queues holds no lock between Names and the Get of each name, so *)
(* that the map may change in between; it is the handler modelled here.    *)
(***************************************************************************)
EXTENDS Broker

VARIABLE
  list             \* the listing: [step, todo, out], and of the names in the map
                   \* since it began, those always and those ever there

NoList == [step |-> "idle", todo |-> {}, out |-> {}, always |-> {}, ever |-> {}]

Names == {n \in Name : queues[n] # 0}

AInit == Init /\ list = NoList

\* Names, under the read lock.
ListNames ==
  /\ mu = None /\ list.step = "idle"
  /\ list' = [step |-> "get", todo |-> Names, out |-> {}, always |-> Names, ever |-> Names]
  /\ UNCHANGED vars

\* Mutant: the handler gives up at the first name that is gone.
ListGetStops(n) ==
  /\ mu = None /\ list.step = "get" /\ n \in list.todo
  /\ list' = IF queues[n] = 0 THEN [list EXCEPT !.todo = {}]
             ELSE [list EXCEPT !.todo = @ \ {n}, !.out = @ \cup {n}]
  /\ UNCHANGED vars

\* Get of the next name; a name that is gone is left out.
ListGet(n) ==
  /\ mu = None /\ list.step = "get" /\ n \in list.todo
  /\ list' = [list EXCEPT !.todo = @ \ {n}, !.out = @ \cup ({n} \cap Names)]
  /\ UNCHANGED vars

ListAnswer ==
  /\ list.step = "get" /\ list.todo = {}
  /\ list' = NoList
  /\ UNCHANGED vars

\* A step of another request, while the listing waits or not; a restart ends
\* the listing.
Others ==
  /\ Next
  /\ list' = IF restarts' # restarts \/ list.step = "idle" THEN NoList
             ELSE [list EXCEPT !.always = @ \cap Names', !.ever = @ \cup Names']

ANext == Others \/ ListNames \/ (\E n \in Name : ListGet(n)) \/ ListAnswer

ASpec == AInit /\ [][ANext]_<<vars, list>>

\* GET /v1/queues answers with every queue that was there for as long as the
\* request ran, and with none that was not there at some moment of it,
\* whatever is created and deleted meanwhile.
ListingExact ==
  list.step = "get" /\ list.todo = {} => list.always \subseteq list.out /\ list.out \subseteq list.ever
=============================================================================
