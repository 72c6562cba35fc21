--------------------------- MODULE EventStreaming ---------------------------
(***************************************************************************)
(* Live events from the episodes to WebSocket clients.  A live worker makes  *)
(* each event durable and then publishes it (backend/episode_runtime.py) on  *)
(* the API's event loop, where the hub (api/streaming.py) puts it in the     *)
(* bounded queue of each subscriber of the episode; a client's handler       *)
(* (api/app.py) sends them one at a time.  Shutdown joins the workers while  *)
(* the loop still runs, closes the hub and stops the backend.               *)
(*                                                                         *)
(* Abstracted: events are numbered per episode, and the last is the status   *)
(* of its end; a client reads at any pace.                                  *)
(***************************************************************************)
EXTENDS Naturals, Sequences, FiniteSets

CONSTANTS Episodes, Clients,
          QueueSize, MaxSubscribers, MaxPerEpisode,
          MaxEvents          \* bound on the events of an episode

VARIABLES server,            \* "starting", "up", "joining", "joined", "closed", "down"
          durable,           \* episode -> events made durable
          published,         \* episode -> events put to its subscribers
          worker,            \* episode -> where its worker is
          client,            \* client -> its connection
          hubClosed

streamVars == <<server, durable, published, worker, client, hubClosed>>

Away == [at |-> "away", episode |-> 0, queue |-> <<>>,
         from |-> 0, seen |-> 0, lost |-> 0, last |-> 0]
Closed == [n |-> 0, dropped |-> 0]

Init ==
  /\ server = "starting"
  /\ durable = [e \in Episodes |-> 0]
  /\ published = [e \in Episodes |-> 0]
  /\ worker = [e \in Episodes |-> "absent"]
  /\ client = [c \in Clients |-> Away]
  /\ hubClosed = FALSE

Subscribed == {c \in Clients : client[c].at = "subscribed"}
SubscribersOf(e) == {c \in Subscribed : client[c].episode = e}

-----------------------------------------------------------------------------
\* lifespan: the loop is bound, the backend starts, and requests are served.
Serve ==
  /\ server = "starting"
  /\ server' = "up"
  /\ UNCHANGED <<durable, published, worker, client, hubClosed>>

\* The backend's startup raises: the hub is closed and the backend shut down.
StartupFails ==
  /\ server = "starting"
  /\ server' = "down"
  /\ hubClosed' = TRUE
  /\ UNCHANGED <<durable, published, worker, client>>

\* open_episode
OpenEpisode(e) ==
  /\ server = "up" /\ worker[e] = "absent"
  /\ durable' = [durable EXCEPT ![e] = 1]
  /\ worker' = [worker EXCEPT ![e] = "publishing"]
  /\ UNCHANGED <<server, published, client, hubClosed>>

\* append_telemetry, and close_episode or abort_episode: durable first.
AppendEvent(e, ends) ==
  /\ worker[e] = "running" /\ (durable[e] + 1 = MaxEvents => ends)
  /\ durable' = [durable EXCEPT ![e] = @ + 1]
  /\ worker' = [worker EXCEPT ![e] = IF ends THEN "ending" ELSE "publishing"]
  /\ UNCHANGED <<server, published, client, hubClosed>>

\* Mutant: what the displaced item had to report is lost with it.
CarriedNone(item) == 1
\* _enqueue_latest: the oldest item makes room and its losses are carried over.
Carried(item) == 1 + item.dropped

EnqueueLatest(c, n) ==
  LET queue == client[c].queue
      full == Len(queue) = QueueSize
      dropped == IF full THEN Carried(Head(queue)) ELSE 0
  IN  [client[c] EXCEPT !.queue =
         Append(IF full THEN Tail(queue) ELSE queue, [n |-> n, dropped |-> dropped])]

\* Each publication runs on the loop that owns the hub, and the worker waits.
Publish(e) ==
  /\ worker[e] \in {"publishing", "ending"}
  /\ published' = [published EXCEPT ![e] = @ + 1]
  /\ worker' = [worker EXCEPT ![e] = IF @ = "ending" THEN "ended" ELSE "running"]
  /\ client' = [c \in Clients |->
                  IF ~hubClosed /\ c \in SubscribersOf(e)
                  THEN EnqueueLatest(c, published[e] + 1) ELSE client[c]]
  /\ UNCHANGED <<server, durable, hubClosed>>

-----------------------------------------------------------------------------
\* The handler looks the episode up, subscribes within the limits and accepts.
Subscribe(c, e) ==
  /\ server \in {"up", "joining", "joined"}
  /\ client[c].at = "away" /\ worker[e] # "absent"
  /\ ~hubClosed
  /\ Cardinality(Subscribed) < MaxSubscribers
  /\ Cardinality(SubscribersOf(e)) < MaxPerEpisode
  /\ client' = [client EXCEPT ![c] =
                  [Away EXCEPT !.at = "subscribed", !.episode = e, !.from = published[e]]]
  /\ UNCHANGED <<server, durable, published, worker, hubClosed>>

Receive(c) ==
  LET was == client[c]
      item == Head(was.queue)
  IN  /\ was.at \in {"subscribed", "closing"}
      /\ was.queue # <<>>
      /\ client' = [client EXCEPT ![c] =
           IF item = Closed THEN [was EXCEPT !.at = "ended", !.queue = <<>>]
           ELSE [was EXCEPT !.queue = Tail(@), !.seen = @ + 1, !.lost = @ + item.dropped,
                            !.last = item.n]]
      /\ UNCHANGED <<server, durable, published, worker, hubClosed>>

Disconnect(c) ==
  /\ client[c].at \in {"subscribed", "closing"}
  /\ client' = [client EXCEPT ![c] = [Away EXCEPT !.at = "ended"]]
  /\ UNCHANGED <<server, durable, published, worker, hubClosed>>

-----------------------------------------------------------------------------
Stop ==
  /\ server = "up"
  /\ server' = "joining"
  /\ UNCHANGED <<durable, published, worker, client, hubClosed>>

\* Mutant: the hub is closed without waiting.
AnyWorkers == TRUE
\* control.shutdown runs in a thread of its own and returns when every worker has
\* ended.
WorkersEnded == \A e \in Episodes : worker[e] \in {"absent", "ended"}

Join ==
  /\ server = "joining"
  /\ WorkersEnded
  /\ server' = "joined"
  /\ UNCHANGED <<durable, published, worker, client, hubClosed>>

\* close: a full queue loses its oldest item to the end marker.
CloseHub ==
  /\ server = "joined"
  /\ server' = "closed"
  /\ hubClosed' = TRUE
  /\ client' = [c \in Clients |->
       IF client[c].at # "subscribed" THEN client[c]
       ELSE [client[c] EXCEPT !.at = "closing",
               !.queue = Append(IF Len(@) = QueueSize THEN Tail(@) ELSE @, Closed)]]
  /\ UNCHANGED <<durable, published, worker>>

StopBackend ==
  /\ server = "closed"
  /\ server' = "down"
  /\ UNCHANGED <<durable, published, worker, client, hubClosed>>
Next ==
  \/ Serve \/ StartupFails \/ Stop \/ Join \/ CloseHub \/ StopBackend
  \/ \E e \in Episodes :
       \/ OpenEpisode(e) \/ Publish(e)
       \/ \E ends \in BOOLEAN : AppendEvent(e, ends)
  \/ \E c \in Clients :
       \/ Receive(c) \/ Disconnect(c)
       \/ \E e \in Episodes : Subscribe(c, e)

Spec == Init /\ [][Next]_streamVars

-----------------------------------------------------------------------------
\* A live stream tells the truth about its gaps.  Events reach a client in order,
\* only once durable, and until the hub closes every event published since it
\* subscribed has been received, is queued for it, or is counted in the
\* dropped_before of an event it has received or will receive; and the hub closes
\* only when everything durable has been published.
Numbers(c) == {client[c].queue[i] : i \in DOMAIN client[c].queue} \ {Closed}
Queued(c) ==
  LET queue == client[c].queue
      held[i \in 0 .. Len(queue)] == IF i = 0 THEN 0 ELSE held[i - 1] + 1 + queue[i].dropped
  IN  held[Len(queue)]
StreamsAccountForLoss ==
  /\ \A e \in Episodes : published[e] <= durable[e]
  /\ \A c \in Clients : client[c].at \in {"subscribed", "closing"} =>
       LET queue == client[c].queue
           e == client[c].episode
       IN  /\ \A item \in Numbers(c) : item.n > client[c].last /\ item.n <= published[e]
           /\ \A i, j \in DOMAIN queue : i < j /\ queue[j] # Closed => queue[i].n < queue[j].n
           /\ client[c].at = "subscribed" =>
                client[c].from + client[c].seen + client[c].lost + Queued(c) = published[e]
  /\ hubClosed => \A e \in Episodes : published[e] = durable[e]
=============================================================================
