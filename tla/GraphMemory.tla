----------------------------- MODULE GraphMemory -----------------------------
(***************************************************************************)
(* Graph memory: ResilientGraphMemory (graph_memory/service.py) over the    *)
(* append-only JSONL cache (graph_memory/cache.py) and the FalkorDB adapter *)
(* (graph_memory/falkordb.py).                                              *)
(*                                                                         *)
(* Calls come from several threads: the event loop, live episodes and the   *)
(* pipeline's callbacks.  The cache's lock makes an append one step; the    *)
(* reconciliation lock is held while the cache is replayed to FalkorDB, one *)
(* request per fact, and appends go on meanwhile.  The process may crash    *)
(* anywhere and an append may fail halfway.                                 *)
(*                                                                         *)
(* Abstracted: a fact is a value with an identity (record kind and id) and  *)
(* the identities it refers to.  FalkorDB is external: the set of facts it  *)
(* holds, and any request may fail, applied or not.  A file that holds a    *)
(* fact twice is replayed with the repetition, which MERGE makes harmless.  *)
(***************************************************************************)
EXTENDS Naturals, Sequences, Functions

CONSTANTS Facts,
          Identity,      \* Identity[f]: kind and id of a fact
          Needs,         \* Needs[f]: the identities it refers to
          Threads,
          AppendFaults,  \* AppendFaults[f]: how appending it to the file may fail
          MaxLines,      \* bound: lines of the file
          Torn, Corrupt, \* a line without its end, and what follows one
          NoFact

ASSUME GraphAssumption ==
  /\ MaxLines \in Nat
  /\ DOMAIN Identity = Facts /\ DOMAIN Needs = Facts
  /\ {Torn, Corrupt, NoFact} \cap Facts = {} /\ Torn # Corrupt
  /\ AppendFaults \in [Facts -> SUBSET {"lost", "kept", "torn"}]

VARIABLES file,        \* the lines of the cache file
          remote,      \* the facts in FalkorDB (external)
          running,     \* the process is up
          provider,    \* ResilientGraphMemory._remote is not None
          events,      \* AppendOnlyGraphCache._events
          reconciled,  \* _reconciled_event_count
          call,        \* the call each thread is in
          receipts     \* history: the receipts returned, by storage

vars == <<file, remote, running, provider, events, reconciled, call, receipts>>

-----------------------------------------------------------------------------
Kinds == {"write", "query", "health", "synchronize"}
\* todo and cursor are the snapshot being replayed; seen is what had been
\* acknowledged when the call began, found what a query answered.
Calls == [step : {"idle", "reconcile", "replay", "reconciled", "fallback"},
          kind : Kinds, fact : Facts \cup {NoFact}, todo : Seq(Facts),
          cursor : 0 .. MaxLines, seen : SUBSET Facts]
Idle == [step |-> "idle", kind |-> "health", fact |-> NoFact, todo |-> <<>>,
         cursor |-> 0, seen |-> {}]

Known == Range(events)
Holds(facts, id) == \E g \in facts : Identity[g] = id

\* Mutants: references are not validated; an identity may change its content.
AdmissibleAnyOrder(f) == ~Holds(Known, Identity[f])
AdmissibleOverwrites(f) == f \notin Known /\ \A id \in Needs[f] : Holds(Known, id)
\* _validate_references and the identity check of _record
Admissible(f) ==
  /\ ~Holds(Known, Identity[f])
  /\ \A id \in Needs[f] : Holds(Known, id)

\* _append opens the file for appending, whatever its last line looks like.
WithLine(line) ==
  IF file # <<>> /\ file[Len(file)] = Torn
  THEN [file EXCEPT ![Len(file)] = IF line = Torn THEN Torn ELSE Corrupt]
  ELSE Append(file, line)

\* _load refuses a file with a line it cannot parse, with two contents for one
\* identity or with a reference it has not seen.
Loadable ==
  \A n \in DOMAIN file :
    /\ file[n] \in Facts
    /\ \A m \in 1 .. n - 1 : file[m] \in Facts /\ Identity[file[m]] = Identity[file[n]]
                               => file[m] = file[n]
    /\ \A id \in Needs[file[n]] : \E m \in 1 .. n - 1 :
         file[m] \in Facts /\ Identity[file[m]] = id

Acknowledged == receipts["falkordb"] \cup receipts["local_cache"]
LockFree == \A t \in Threads : call[t].step # "replay"

Init ==
  /\ file = <<>>
  /\ remote = {}
  /\ running = FALSE
  /\ provider = FALSE
  /\ events = <<>>
  /\ reconciled = 0
  /\ call = [t \in Threads |-> Idle]
  /\ receipts = [falkordb |-> {}, local_cache |-> {}]

-----------------------------------------------------------------------------
\* build_graph_memory: the cache is loaded; the client may be missing.
Start ==
  /\ ~running
  /\ Loadable
  /\ running' = TRUE
  /\ provider' \in BOOLEAN
  /\ events' = file
  /\ UNCHANGED <<file, remote, reconciled, call, receipts>>

\* The process dies, perhaps with an append already durable.
Crash ==
  /\ running
  /\ \/ UNCHANGED file
     \/ \E f \in Facts : /\ Admissible(f)
                         /\ Len(file) < MaxLines
                         /\ file' = WithLine(f)
  /\ running' = FALSE
  /\ provider' = FALSE
  /\ events' = <<>>
  /\ reconciled' = 0
  /\ call' = [t \in Threads |-> Idle]
  /\ UNCHANGED <<remote, receipts>>

\* Leave the cache with a local receipt.
Continue(t, f) ==
  call' = [call EXCEPT ![t] =
            [Idle EXCEPT !.step = IF provider THEN "reconcile" ELSE "fallback",
                         !.kind = "write", !.fact = f]]

\* The fact is durable before it is visible to the process.
Store(f) ==
  /\ file' = WithLine(f)
  /\ events' = Append(events, f)

\* _record: the identity keeps its content, a repetition is answered from memory.
Write(t, f) ==
  /\ running
  /\ call[t].step = "idle"
  /\ \/ f \in Known /\ Continue(t, f) /\ UNCHANGED <<file, events>>
     \/ Admissible(f) /\ Len(file) < MaxLines /\ Store(f) /\ Continue(t, f)
  /\ UNCHANGED <<remote, running, provider, reconciled, receipts>>

\* The append raises: nothing, the whole line or part of it is in the file, and
\* the fact is not in memory.
AppendFails(f) ==
  /\ running
  /\ Admissible(f)
  /\ Len(file) < MaxLines
  /\ \E fault \in AppendFaults[f] :
       file' = CASE fault = "lost" -> file
                 [] fault = "kept" -> WithLine(f)
                 [] fault = "torn" -> WithLine(Torn)
  /\ UNCHANGED <<remote, running, provider, events, reconciled, call, receipts>>

\* query_curriculum, health and synchronize_local_cache
Ask(t, kind) ==
  /\ running
  /\ call[t].step = "idle"
  /\ kind # "query" => provider
  /\ call' = [call EXCEPT ![t] =
               [Idle EXCEPT !.step = IF provider THEN "reconcile" ELSE "fallback",
                            !.kind = kind, !.seen = Acknowledged]]
  /\ UNCHANGED <<file, remote, running, provider, events, reconciled, receipts>>

UpToDate == Len(events) = reconciled

\* _reconcile_if_needed takes the lock; synchronize always replays.
Reconcile(t) ==
  /\ call[t].step = "reconcile"
  /\ LockFree
  /\ call' = [call EXCEPT ![t] =
               IF UpToDate /\ call[t].kind # "synchronize"
               THEN [@ EXCEPT !.step = "reconciled"]
               ELSE [@ EXCEPT !.step = "replay", !.todo = events, !.cursor = Len(events)]]
  /\ UNCHANGED <<file, remote, running, provider, events, reconciled, receipts>>

\* Mutant: the newest fact first.
NextFactNewest(t) == call[t].todo[Len(call[t].todo)]
NextFact(t) == call[t].todo[1]

\* replay_to_with_cursor: one request per fact; the provider may fail with the
\* fact stored or not.
ReplayFact(t) ==
  /\ call[t].step = "replay"
  /\ call[t].todo # <<>>
  /\ \/ /\ remote' = remote \cup {NextFact(t)}
        /\ call' = [call EXCEPT ![t].todo = Tail(@)]
     \/ /\ remote' \in {remote, remote \cup {NextFact(t)}}
        /\ call' = [call EXCEPT ![t].step = "fallback", ![t].todo = <<>>, ![t].cursor = 0]
  /\ UNCHANGED <<file, running, provider, events, reconciled, receipts>>

\* Mutants: facts appended during the replay are taken for replayed; off by one.
CursorNow(t) == Len(events)
CursorPast(t) == call[t].cursor + 1
Cursor(t) == call[t].cursor

Replayed(t) ==
  /\ call[t].step = "replay"
  /\ call[t].todo = <<>>
  /\ reconciled' = Cursor(t)
  /\ call' = [call EXCEPT ![t].step = "reconciled", ![t].cursor = 0]
  /\ UNCHANGED <<file, remote, running, provider, events, receipts>>

Return(t) == call' = [call EXCEPT ![t] = Idle]

\* Mutant: the storage is taken from the configuration.
StorageConfigured(t) == IF provider THEN "falkordb" ELSE "local_cache"
Storage(t) == IF call[t].step = "reconciled" THEN "falkordb" ELSE "local_cache"

\* _write returns its receipt.
Receipt(t) ==
  /\ call[t].kind = "write"
  /\ call[t].step \in {"reconciled", "fallback"}
  /\ receipts' = [receipts EXCEPT ![Storage(t)] = @ \cup {call[t].fact}]
  /\ Return(t)
  /\ UNCHANGED <<file, remote, running, provider, events, reconciled>>

\* A query of a reconciled provider goes to FalkorDB, which may fail.
QueryFails(t) ==
  /\ call[t].kind = "query"
  /\ call[t].step = "reconciled"
  /\ call' = [call EXCEPT ![t].step = "fallback"]
  /\ UNCHANGED <<file, remote, running, provider, events, reconciled, receipts>>

Answer(t) == IF call[t].step = "reconciled" THEN remote ELSE Known

Answered(t) ==
  /\ call[t].kind # "write"
  /\ call[t].step \in {"reconciled", "fallback"}
  /\ Return(t)
  /\ UNCHANGED <<file, remote, running, provider, events, reconciled, receipts>>

Next ==
  \/ Start \/ Crash
  \/ \E f \in Facts : AppendFails(f)
  \/ \E t \in Threads :
       \/ \E f \in Facts : Write(t, f)
       \/ \E kind \in Kinds \ {"write"} : Ask(t, kind)
       \/ Reconcile(t) \/ ReplayFact(t) \/ Replayed(t)
       \/ Receipt(t) \/ QueryFails(t) \/ Answered(t)

Spec == Init /\ [][Next]_vars

-----------------------------------------------------------------------------
\* Every variable has its type.
TypeOK ==
  /\ file \in Seq(Facts \cup {Torn, Corrupt}) /\ Len(file) \in 0 .. MaxLines
  /\ remote \subseteq Facts
  /\ running \in BOOLEAN /\ provider \in BOOLEAN
  /\ events \in Seq(Facts)
  /\ reconciled \in 0 .. MaxLines
  /\ call \in [Threads -> Calls]
  /\ receipts \in [{"falkordb", "local_cache"} -> SUBSET Facts]

\* What an append that raised does to the file: a line without its end, and what was
\* appended to it; or a whole line that the process does not know, whose identity it
\* gave another content since.
Damaged ==
  \/ Range(file) \cap {Torn, Corrupt} # {}
  \/ \E f, g \in Range(file) \cap Facts :
       f # g /\ Identity[f] = Identity[g] /\ ~({f, g} \subseteq Known)

\* The cache file can be loaded again, so that the process can start, unless an
\* append that raised damaged it.
CacheLoadable == Loadable \/ Damaged

\* What a caller holds a receipt for can be read back from the cache file.
MirroredIsDurable == Acknowledged \subseteq Range(file)

\* No acknowledged fact, and none FalkorDB was sent, is ever forgotten: a process that
\* is up knows them all, and a file that loads holds them all, so that the next
\* startup either remembers everything or is refused.
NothingForgotten ==
  /\ running => Acknowledged \cup remote \subseteq Known
  /\ Loadable => Acknowledged \cup remote \subseteq Range(file)

\* FalkorDB never refuses a replayed fact: it holds one content per identity, each
\* after the facts it refers to; and a receipt that names it is true.
RemoteWellFormed ==
  /\ receipts["falkordb"] \subseteq remote
  /\ \A f, g \in remote : Identity[f] = Identity[g] => f = g
  /\ \A f \in remote : \A id \in Needs[f] : Holds(remote, id)

\* A curriculum query, whichever store answers it, sees every fact that was
\* acknowledged before the query was made.
QueriesComplete ==
  \A t \in Threads :
    call[t].kind = "query" /\ call[t].step \in {"reconciled", "fallback"}
      => call[t].seen \subseteq Answer(t)

\* FalkorDB implements the ledger of facts whatever becomes of the cache file, and so
\* does the file until an append that raised damages it (graph_memory/cache.py:379).
RemoteLedger == INSTANCE GraphLedger WITH facts <- remote
FileLedger == INSTANCE GraphLedger WITH facts <- Range(file) \cap Facts
FactLedger ==
  /\ RemoteLedger!Spec
  /\ FileLedger!Init /\ [][Damaged' \/ FileLedger!Next]_(Range(file) \cap Facts)

\* Graph memory tells the truth whatever overlaps, fails, tears a line or crashes:
\* nothing acknowledged is forgotten, the file loads again unless it was damaged,
\* FalkorDB is sent no fact it would refuse, and queries miss nothing acknowledged
\* (graph_memory/service.py:279).
MemoryTruthful == TypeOK /\ CacheLoadable /\ NothingForgotten /\ RemoteWellFormed /\ QueriesComplete
=============================================================================
