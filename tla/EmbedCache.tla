----------------------------- MODULE EmbedCache -----------------------------
(***************************************************************************)
(* embed/__init__.py, cache.py and ollama.py: the embedder of a process,   *)
(* its content-hash cache shared with every other process of the machine,  *)
(* and the retried calls to Ollama.                                        *)
(*                                                                         *)
(* A vector is the text and the weights it was made from.  A cache row has *)
(* the key <<text, digest>>; weights are their own digest.  Threads of one *)
(* process (the MCP server runs each tool in a worker thread) share the    *)
(* memoised digest and the counters.                                       *)
(***************************************************************************)
EXTENDS Integers, Sequences, SequencesExt, FiniteSets

CONSTANTS
  Thread, Process, Text,
  Batch,        \* the batches callers embed: sequences of texts
  None,         \* no digest resolved, no cache row
  MaxRetries,   \* with_retry's max_retries
  EmbedScenes   \* environments, see Scene

Digest == 0 .. 1   \* bound: the model is pulled again at most once

Scene == [home : [Thread -> Process],      \* the process of a thread
          livePull : BOOLEAN,              \* may a pull hit live processes?
          calls : Nat, faults : Nat]       \* bounds

EmbedCacheAssumption ==
  /\ IsFiniteSet(Thread)
  /\ Batch \subseteq Seq(Text) /\ <<>> \notin Batch
  /\ None \notin Digest
  /\ MaxRetries \in Nat
  /\ EmbedScenes \subseteq Scene

VARIABLES
  scene,
  served,    \* the weights Ollama serves under the configured name
  memo,      \* memo[p]: CachedEmbedder._model_id, OllamaEmbedder._digest
  cache,     \* embed_cache.sqlite: [Text \X Digest -> vector or None]
  call,      \* call[t]: the embed, or flush of the counters, of a thread
  tally,     \* tally[p]: EmbedCache.hits and misses
  posted,    \* posted[p]: the cache_stats rows p recorded, summed
  looked,    \* history: the lookups of p that its counters must account for
  calls, faults

vars == <<scene, served, memo, cache, call, tally, posted, looked,
          calls, faults>>

Vector == [text : Text, weights : Digest]
Count == [hits : Nat, misses : Nat]
NoCount == [hits |-> 0, misses |-> 0]
Plus(a, b) == [hits |-> a.hits + b.hits, misses |-> a.misses + b.misses]

Resting(b, o) ==
  [pc |-> "idle", batch |-> b, key |-> None, found |-> <<>>, new |-> <<>>,
   tries |-> 0, out |-> o, read |-> NoCount]

P(t) == scene.home[t]
At(t, pc) == call[t].pc = pc
Set(t, c) == call' = [call EXCEPT ![t] = c]
Fault == faults < scene.faults /\ faults' = faults + 1
Raise(t) == Set(t, Resting(<<>>, <<>>))

TypeOK ==
  /\ scene \in EmbedScenes
  /\ served \in Digest
  /\ memo \in [Process -> Digest \cup {None}]
  /\ cache \in [Text \X Digest -> Vector \cup {None}]
  /\ \A t \in Thread : call[t].new \in Seq(Vector)
  /\ tally \in [Process -> Count] /\ posted \in [Process -> Count]

Init ==
  /\ scene \in EmbedScenes
  /\ served = 0
  /\ memo = [p \in Process |-> None]
  /\ cache = [k \in Text \X Digest |-> None]
  /\ call = [t \in Thread |-> Resting(<<>>, <<>>)]
  /\ tally = [p \in Process |-> NoCount]
  /\ posted = [p \in Process |-> NoCount]
  /\ looked = [p \in Process |-> NoCount]
  /\ calls = 0 /\ faults = 0

-----------------------------------------------------------------------------
(* CachedEmbedder.embed: the digest is resolved before the lookup, without *)
(* a retry; nothing of a failure is kept.                                  *)
Embed(t, b) ==
  /\ At(t, "idle") /\ calls < scene.calls /\ b \in Batch
  /\ calls' = calls + 1
  /\ Set(t, [Resting(b, <<>>) EXCEPT
               !.pc = IF memo[P(t)] = None THEN "tags" ELSE "look"])
  /\ UNCHANGED <<scene, served, memo, cache, tally, posted, looked, faults>>

(* OllamaEmbedder.model_digest *)
model_digest(t) ==
  /\ At(t, "tags")
  /\ \/ Set(t, [call[t] EXCEPT !.pc = "pin", !.key = served])
        /\ UNCHANGED faults
     \/ Raise(t) /\ Fault
  /\ UNCHANGED <<scene, served, memo, cache, tally, posted, looked, calls>>

model_id(t) ==
  /\ At(t, "pin")
  /\ memo' = [memo EXCEPT ![P(t)] = call[t].key]
  /\ Set(t, [call[t] EXCEPT !.pc = "look"])
  /\ UNCHANGED <<scene, served, cache, tally, posted, looked, calls, faults>>

(* miss_positions: where the cache has no vector for a text of the batch.  *)
(* The texts to compute are in that order, and the new vectors are spliced *)
(* into the gaps in that order.                                            *)
Gaps(c) == {i \in DOMAIN c.batch : c.batch[i] \notin DOMAIN c.found}
Rank(S, i) == Cardinality({j \in S : j <= i})
InOrder(b, S) ==
  [n \in 1 .. Cardinality(S) |-> b[CHOOSE i \in S : Rank(S, i) = n]]
Missed(c) == InOrder(c.batch, Gaps(c))

Answer_InOrder(c) ==
  SetToSeq({c.found[x] : x \in DOMAIN c.found}) \o c.new
  \* Mutant: the new vectors after the cached ones

Answer(c) ==
  [i \in DOMAIN c.batch |->
     IF i \in Gaps(c) THEN c.new[Rank(Gaps(c), i)] ELSE c.found[c.batch[i]]]

(* EmbedCache.get_many: one SELECT and the counters.  The rows come back   *)
(* as a dictionary, the request is a list: a text found that occurs twice  *)
(* counts as a hit and a miss.                                             *)
get_many(t) ==
  /\ At(t, "look")
  /\ LET key == memo[P(t)]
         hit == {x \in Range(call[t].batch) : cache[<<x, key>>] # None}
         n == [hits |-> Cardinality(hit),
               misses |-> Len(call[t].batch) - Cardinality(hit)]
         c == [call[t] EXCEPT !.found = [x \in hit |-> cache[<<x, key>>]]]
     IN  /\ Set(t, IF Gaps(c) = {} THEN Resting(c.batch, Answer(c))
                   ELSE [c EXCEPT !.pc = "post"])
         /\ tally' = [tally EXCEPT ![P(t)] = Plus(@, n)]
         /\ looked' = [looked EXCEPT ![P(t)] = Plus(@, n)]
  /\ UNCHANGED <<scene, served, memo, cache, posted, calls, faults>>

(* Mutant: a transient failure is tried again for ever. *)
post_Forever(t) ==
  /\ At(t, "post")
  /\ \/ /\ Set(t, [call[t] EXCEPT !.pc = "put", !.new =
              [i \in DOMAIN Missed(call[t]) |->
                 [text |-> Missed(call[t])[i], weights |-> served]]])
     \/ Set(t, [call[t] EXCEPT !.tries = (@ + 1) % (MaxRetries + 1)])
  /\ UNCHANGED <<scene, served, memo, cache, tally, posted, looked, calls,
                 faults>>

(* OllamaEmbedder.embed inside with_retry: a refused connection, a timeout *)
(* or a 5xx is tried again until max_retries, and Ollama may stay down for *)
(* ever; a 4xx or a malformed answer is raised at once.                    *)
post(t) ==
  /\ At(t, "post")
  /\ LET todo == Missed(call[t])
     IN  \/ /\ Set(t, [call[t] EXCEPT !.pc = "put",
                         !.new = [i \in DOMAIN todo |->
                                    [text |-> todo[i], weights |-> served]]])
            /\ UNCHANGED faults
         \/ /\ call[t].tries < MaxRetries
            /\ Set(t, [call[t] EXCEPT !.tries = @ + 1])
            /\ UNCHANGED faults
         \/ /\ call[t].tries = MaxRetries
            /\ Raise(t) /\ UNCHANGED faults
         \/ Raise(t) /\ Fault
  /\ UNCHANGED <<scene, served, memo, cache, tally, posted, looked, calls>>

(* EmbedCache.put_many, under the digest as it is memoised now, in one     *)
(* transaction; SQLite may give up on the lock after busy_timeout.         *)
put_many(t) ==
  /\ At(t, "put")
  /\ LET todo == Missed(call[t])
         key == memo[P(t)]
     IN  \/ /\ cache' = [k \in DOMAIN cache |->
                           IF k[2] = key /\ k[1] \in Range(todo)
                           THEN call[t].new[CHOOSE i \in DOMAIN todo :
                                              todo[i] = k[1]]
                           ELSE cache[k]]
            /\ Set(t, Resting(call[t].batch, Answer(call[t])))
            /\ UNCHANGED faults
         \/ Raise(t) /\ Fault /\ UNCHANGED cache
  /\ UNCHANGED <<scene, served, memo, tally, posted, looked, calls>>

-----------------------------------------------------------------------------
(* flush_cache_stats, after every retrieve and ingest: read the counters,  *)
(* record them (a failure is swallowed by the callers), zero them.         *)
Flush(t) ==
  /\ At(t, "idle") /\ calls < scene.calls /\ tally[P(t)] # NoCount
  /\ calls' = calls + 1
  /\ Set(t, [Resting(<<>>, <<>>) EXCEPT !.pc = "record", !.read = tally[P(t)]])
  /\ UNCHANGED <<scene, served, memo, cache, tally, posted, looked, faults>>

record_cache_stats(t) ==
  /\ At(t, "record")
  /\ \/ /\ posted' = [posted EXCEPT ![P(t)] = Plus(@, call[t].read)]
        /\ Set(t, [call[t] EXCEPT !.pc = "zero"])
        /\ UNCHANGED faults
     \/ Raise(t) /\ Fault /\ UNCHANGED posted
  /\ UNCHANGED <<scene, served, memo, cache, tally, looked, calls>>

Zero(t) ==
  /\ At(t, "zero") /\ Set(t, Resting(<<>>, <<>>))
  /\ tally' = [tally EXCEPT ![P(t)] = NoCount]
  /\ UNCHANGED <<scene, served, memo, cache, posted, looked, calls, faults>>

-----------------------------------------------------------------------------
(* A process dies; the next one starts without a digest and at zero.       *)
Restart(p) ==
  /\ Fault
  /\ call' = [t \in Thread |-> IF P(t) = p THEN Resting(<<>>, <<>>)
                               ELSE call[t]]
  /\ memo' = [memo EXCEPT ![p] = None]
  /\ tally' = [tally EXCEPT ![p] = NoCount]
  /\ looked' = [looked EXCEPT ![p] = posted[p]]
  /\ UNCHANGED <<scene, served, cache, posted, calls>>

(* `ollama pull` brings other weights for the same name.                   *)
Pull ==
  /\ served = 0 /\ served' = 1
  /\ \/ scene.livePull
     \/ /\ \A p \in Process : memo[p] = None
        /\ \A t \in Thread : At(t, "idle")
  /\ UNCHANGED <<scene, memo, cache, call, tally, posted, looked, calls,
                 faults>>

Work(t) ==
  \/ model_digest(t) \/ model_id(t) \/ get_many(t) \/ post(t) \/ put_many(t)
  \/ record_cache_stats(t) \/ Zero(t)

Next ==
  \/ \E t \in Thread : Work(t) \/ Flush(t) \/ \E b \in Batch : Embed(t, b)
  \/ \E p \in Process : Restart(p)
  \/ Pull

(* A thread runs until its call returns: the interpreter and the system    *)
(* schedule it, and httpx's timeouts end every request.                    *)
Fairness == \A t \in Thread : WF_vars(Work(t))

Spec == Init /\ [][Next]_vars /\ Fairness

-----------------------------------------------------------------------------
(* An answer has, for each text of the batch in its place, the vector of   *)
(* that text, whichever came from the cache, from Ollama, from another     *)
(* process or twice; if the model is only ever pulled between processes,   *)
(* all of it is from the weights now served.                               *)
AnswersFaithful ==
  \A t \in Thread :
    LET c == call[t]
    IN  At(t, "idle") /\ c.out # <<>> =>
          /\ Len(c.out) = Len(c.batch)
          /\ \A i \in DOMAIN c.out :
               /\ c.out[i].text = c.batch[i]
               /\ scene.livePull \/ c.out[i].weights = served

(* What the docstring of model_digest promises: old and new vectors are    *)
(* never mixed under one key.  A digest once memoised is the one served    *)
(* and every row of the cache was made by the weights in its key.          *)
KeysTrue ==
  /\ \A p \in Process : memo[p] \in {None, served}
  /\ \A k \in DOMAIN cache : cache[k] # None => cache[k].weights = k[2]

(* The same where no pull hits a live process.                             *)
KeysTrueWhenQuiet == scene.livePull \/ KeysTrue

(* In a process with one thread every lookup is counted exactly once, in a *)
(* row of cache_stats or in the counters still to be flushed, whether or   *)
(* not a flush failed or the process died.                                 *)
Alone(p) == Cardinality({t \in Thread : P(t) = p}) = 1
StatsCountedOnce ==
  \A p \in Process : Alone(p) =>
    IF \E t \in Thread : P(t) = p /\ At(t, "zero")
    THEN posted[p] = looked[p]
    ELSE Plus(posted[p], tally[p]) = looked[p]

(* Every embed returns or raises, even if Ollama stays down.               *)
CallsReturn == \A t \in Thread : []<>At(t, "idle")
=============================================================================
