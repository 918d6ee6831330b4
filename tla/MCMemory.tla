------------------------------ MODULE MCMemory ------------------------------
(* The memory layer: claims, the embedding cache, episodic memory, the     *)
(* stores of a project and the resolver of its graph.  They share servers, *)
(* no state; one of them is at work in a behaviour.                        *)
EXTENDS Claims

CONSTANTS Thread, Process, Text, Batch, MaxRetries, EmbedScenes,
          Proc, Prompt, KeyOf, EpisodeId, NoRow, Limit, EpisodeScenes,
          Command, LastHead, Size, IndexScenes,
          File, Name, Space, Assembly, Pass, ResolverScenes

VARIABLES
  part,
  cached, served, memo, cache, call, tally, posted, looked, calls, errors,
  world, table, vectors, doing, acked, latest, clock, ops, failures,
  env, head, coll, vecs, graph, state, cmd, spoilt, used,
  setting, holds, defs, imports, raw, bound, placeholders, pass, settled,
  spent

EC == INSTANCE EmbedCache WITH scene <- cached, faults <- errors
EP == INSTANCE Episodes WITH Id <- EpisodeId, rows <- table,
                             points <- vectors, op <- doing
IX == INSTANCE ProjectIndex
RV == INSTANCE Resolver
SP == INSTANCE SamplePrograms

ASSUME MemoryAssumption ==
  /\ EC!EmbedCacheAssumption /\ EP!EpisodesAssumption
  /\ IX!ProjectIndexAssumption /\ RV!ResolverAssumption

embedVars == <<cached, served, memo, cache, call, tally, posted, looked,
               calls, errors>>
episodeVars == <<world, table, vectors, doing, acked, latest, clock, ops,
                 failures>>
indexVars == <<env, head, coll, vecs, graph, state, cmd, spoilt, used>>
resolverVars == <<setting, holds, defs, imports, raw, bound, placeholders,
                  pass, settled, spent>>

MCInit ==
  /\ part \in {"claims", "embed", "episodes", "index", "resolver"}
  /\ Init /\ EC!Init /\ EP!Init /\ IX!Init /\ RV!Init
  /\ part = "claims" \/ scene = CHOOSE s \in Scenarios : TRUE
  /\ part = "embed" \/ cached = CHOOSE s \in EmbedScenes : TRUE
  /\ part = "episodes" \/ world = CHOOSE w \in EpisodeScenes : TRUE
  /\ part = "index" \/ env = CHOOSE e \in IndexScenes : TRUE
  /\ part = "resolver" \/ setting = CHOOSE s \in ResolverScenes : TRUE

(* All but claims, which are read again and again, rest when the           *)
(* environment has used up its budget.                                     *)
Rest == part # "claims" /\ UNCHANGED <<vars, embedVars, episodeVars,
                                       indexVars, resolverVars>>

MCNext ==
  /\ UNCHANGED part
  /\ \/ /\ part = "claims" /\ Next
        /\ UNCHANGED embedVars /\ UNCHANGED episodeVars
        /\ UNCHANGED indexVars /\ UNCHANGED resolverVars
     \/ /\ part = "embed" /\ EC!Next
        /\ UNCHANGED vars /\ UNCHANGED episodeVars
        /\ UNCHANGED indexVars /\ UNCHANGED resolverVars
     \/ /\ part = "episodes" /\ EP!Next
        /\ UNCHANGED vars /\ UNCHANGED embedVars
        /\ UNCHANGED indexVars /\ UNCHANGED resolverVars
     \/ /\ part = "index" /\ IX!Next
        /\ UNCHANGED vars /\ UNCHANGED embedVars
        /\ UNCHANGED episodeVars /\ UNCHANGED resolverVars
     \/ /\ part = "resolver" /\ RV!Next
        /\ UNCHANGED vars /\ UNCHANGED embedVars
        /\ UNCHANGED episodeVars /\ UNCHANGED indexVars
     \/ Rest

allvars == <<part, vars, embedVars, episodeVars, indexVars, resolverVars>>

MCSpec ==
  /\ MCInit /\ [][MCNext]_allvars
  /\ \A t \in Thread : WF_embedVars(part = "embed" /\ EC!Work(t))
  /\ \A c \in Command :
       /\ WF_indexVars(part = "index" /\ IX!Step(c))
       /\ SF_indexVars(part = "index" /\ IX!Open(c, "ingest"))

-----------------------------------------------------------------------------
(* EmbedCache: an answer is the vectors of its texts, in their places; rows*)
(* and digests are those of the weights that made them while no pull hits a*)
(* live process; and every lookup of a process with one thread is counted  *)
(* once.                                                                   *)
MCCacheSound ==
  EC!AnswersFaithful /\ EC!KeysTrueWhenQuiet /\ EC!StatsCountedOnce

(* EmbedCache: every embed returns or raises, even if Ollama stays down.   *)
MCCallsReturn == EC!CallsReturn

(* Episodes: a recorded prompt can be recalled, one dedupe at a time       *)
(* forgets none, and rows have the time of their last observation and a    *)
(* point each, through races, failures and crashes as each part says.      *)
MCEpisodesKept ==
  EP!RecallableOnceAcked /\ EP!OneDedupeForgetsNothing /\ EP!StoresInStep

(* Episodes: retrieve fills its answer with different prompts, none of     *)
(* them the query or idle, or shows all there are, unless the points it    *)
(* has no use for are more than twice the limit.                           *)
MCRecallComplete == EP!RecallComplete

(* ProjectIndex: what is recorded is in the collection and in the graph.   *)
MCRecordedMeansIndexed == IX!RecordedMeansIndexed

(* ProjectIndex: while ingests keep coming, the index gets complete.       *)
MCIndexCatchesUp == part = "index" => IX!IndexCatchesUp

(* Resolver: no reference is lost to passes that overlap or die, and a     *)
(* reference is bound as if the other bounded contexts did not exist.      *)
MCReferencesKept == RV!ReferencesKept /\ RV!ContextsApart

(* Resolver: after one undisturbed pass a second has nothing to bind.      *)
MCPassSettles == RV!PassSettles

-----------------------------------------------------------------------------
Scene(e, c, f) == [env |-> e, claims |-> c, faults |-> f]
MCScenarios ==
  {Scene({"index"}, 4, 0), Scene({"index"}, 3, 1),
   Scene({"backdate", "index", "overlap"}, 2, 0),
   Scene({"backdate", "overlap"}, 2, 1)}

MCPrograms == SP!Programs

Embedding(h, l, c, f) ==
  [home |-> h, livePull |-> l, calls |-> c, faults |-> f]
MCEmbedScenes ==
  LET shared == [t \in Thread |-> "server"]
      own == [t \in Thread |-> IF t = "t1" THEN "server" ELSE "cli"]
  IN  {Embedding(shared, FALSE, 2, 1), Embedding(own, FALSE, 3, 1),
       Embedding(own, FALSE, 2, 2), Embedding(own, TRUE, 2, 1)}
MCBatch == {<<"a", "b">>, <<"b", "a", "b">>, <<"a">>}

MCKeyOf == [x \in Prompt |-> IF x = "P" THEN "p" ELSE x]
Remembering(l, s, d, r, x, v, c, f) ==
  [legacy |-> l, serial |-> s, dedupes |-> d, retrieves |-> r,
   prompts |-> x, verdicts |-> v, calls |-> c, faults |-> f]
MCEpisodeScenes ==
  LET old == {[id |-> "e1", prompt |-> "p", ts |-> 1, verdict |-> "none"],
              [id |-> "e2", prompt |-> "p", ts |-> 2, verdict |-> "none"]}
      idle == {[id |-> i, prompt |-> "p", ts |-> 1, verdict |-> "idle"] :
                 i \in {"e1", "e2", "e3"}}
      two == {"p", "q"}
      one == {"none"}
  IN  {Remembering(old, TRUE, {1}, FALSE, two, one, 4, 2),
       Remembering({}, FALSE, {1}, FALSE, two, one, 3, 0),
       Remembering({}, FALSE, {}, FALSE, {"p"}, one, 3, 1),
       Remembering(old, FALSE, {1}, FALSE, two, one, 3, 0),
       Remembering({}, TRUE, {1}, TRUE, {"p", "P"}, {"idle", "none"}, 3, 0),
       Remembering(old, TRUE, {1}, TRUE, two, {"pass"}, 3, 1),
       Remembering(idle, TRUE, {1}, TRUE, two, {"pass"}, 3, 0)}

Indexing(c, o, r, t, l, f) ==
  [collection |-> c, overlap |-> o, resets |-> r, tools |-> t,
   losses |-> l, faults |-> f]
MCSize == [h \in 0 .. 2 |-> IF h = 0 THEN 2 ELSE h + 2]
MCIndexScenes ==
  {Indexing("missing", FALSE, 1, 1, 0, 2),
   Indexing("legacy", FALSE, 1, 1, 0, 1),
   Indexing("missing", TRUE, 1, 1, 0, 0),
   Indexing("missing", FALSE, 0, 0, 1, 1)}
=============================================================================
