--------------------------- MODULE ContextCompiler ---------------------------
(***************************************************************************)
(* What of the agent's knowledge is put into a prompt: the pipeline of     *)
(* DefaultContextCompiler (deduplication, ranking, the stages of the       *)
(* compressor, validation), the projection that collapses episodes into    *)
(* milestones, the reconstruction of what they stand for, and the prefix   *)
(* the provider has cached.  Costs are thousands of tokens, importance is  *)
(* in percent, a tick is 25 hours.                                         *)
(***************************************************************************)
EXTENDS Integers, Sequences, FiniteSets, SequencesExt

CONSTANTS Additions,     \* what may be added: [type, source, episodic, importance,
                         \* tags, text, cost], a text being <<signature, stamp, rest>>
          Budgets, ModelMax, SmallWindow,
          Evidences,     \* what the last verification said: "none", "pass", "fail"
          MaxToolResult, \* maxToolResultTokens
          SummaryCost,   \* of a milestone and of a micro-compacted output
          Reported,      \* tokens a provider may say it read from its cache
          MaxObjects, MaxCollapses, MaxTicks \* bounds

VARIABLES known,  \* every object ever added
          view,     \* the objects as the caller holds them: some are milestones
          store,    \* the CollapseStore: sets of originals under their ids
          clashed,  \* a record replaced one of other objects
          compiled, \* the last result of compile
          cached,   \* cachedPrefixIds
          collapses, now

compilerVars == <<known, view, store, clashed, compiled, cached, collapses, now>>

NoId == <<>>
Object(offer, id) ==
  [id |-> id, is |-> offer, cost |-> offer.cost, at |-> now, stands |-> NoId]
Ids(objects) == {objects[i].id : i \in DOMAIN objects}
Sum(objects) == FoldLeft(LAMBDA sum, o : sum + o.cost, 0, objects)
Age(o) == 25 * (now - o.at) \* in hours
-----------------------------------------------------------------------------
\* ContextRanker.

IsMustPreserve(o) ==
  \/ o.is.type \in {"USER_INSTRUCTION", "REQUIREMENT", "SECURITY_RULE",
                    "ARCHITECTURE_FACT", "CONSTRAINT"}
  \/ /\ o.is.type = "DECISION"
     /\ o.is.source \in {"human", "user"} \/ o.is.importance >= 80
  \/ o.is.tags \cap {"regression", "must_preserve", "critical_decision", "security"} # {}

\* The weights and the terms in percent; the client gives no dependencies and
\* nothing is verified.
Score(o) ==
  30 * o.is.importance
  + 15 * (IF o.is.type \in {"FAILURE", "EVIDENCE"} THEN 90 ELSE 20)
  + 10 * (1200 \div (12 + Age(o)))
  - 5 * (IF o.cost >= 4 THEN 100 ELSE 25 * o.cost)

\* Mandatory objects first, then by score; equal ones stay in their order.
Sorted(objects) ==
  LET must == [i \in DOMAIN objects |-> IsMustPreserve(objects[i])]
      score == [i \in DOMAIN objects |-> Score(objects[i])]
      before(i, j) ==
        CASE must[i] # must[j] -> must[i]
          [] ~must[i] /\ ~must[j] /\ score[i] # score[j] -> score[i] > score[j]
          [] OTHER -> i < j
      order == SortSeq([i \in DOMAIN objects |-> i], before)
  IN  [n \in DOMAIN objects |-> objects[order[n]]]

\* ContextDeduplicator: the same type and text; of outputs and evidence from
\* one source also the same first hundred characters.
SameObject(a, b) ==
  \/ a.is.type = b.is.type /\ a.is.text = b.is.text
  \/ /\ {a.is.type, b.is.type} \subseteq {"OBSERVATION", "EVIDENCE"}
     /\ a.is.source = b.is.source
     /\ a.is.text[1] = b.is.text[1] /\ a.is.text[2] = b.is.text[2]
Deduplicated(objects) ==
  FoldLeft(LAMBDA unique, o :
             IF \E i \in DOMAIN unique : SameObject(unique[i], o) THEN unique
             ELSE Append(unique, o),
           <<>>, objects)
-----------------------------------------------------------------------------
\* ContextCompressor.

Triggers == {"pressure", "overflow", "aggressive"}
Thresholds(trigger) ==
  CASE trigger # "pressure" -> [snip |-> 20, micro |-> 30, collapse |-> 40]
    [] trigger = "pressure" /\ SmallWindow -> [snip |-> 40, micro |-> 50, collapse |-> 60]
    [] OTHER -> [snip |-> 75, micro |-> 80, collapse |-> 85]

IsToolOutput(o) == o.is.type = "OBSERVATION" \/ o.is.tags \cap {"tool_output", "stdout"} # {}
IsNoise(o) ==
  /\ o.is.type = "OBSERVATION" /\ o.is.importance < 45
  /\ "ephemeral" \in o.is.tags \/ Age(o) > 12
IsEpisodic(o) ==
  o.is.episodic \/ o.is.type = "ATTEMPT" \/ o.is.tags \cap {"attempt", "episodic"} # {}

\* Stages 0 and 0.5: an output of more than half the cap, whose characters are
\* then more than twice its tokens, keeps a quarter of it at either end.
Pruned(o) ==
  IF IsToolOutput(o) /\ 2 * o.cost > MaxToolResult
  THEN [o EXCEPT !.cost = MaxToolResult \div 4] ELSE o

Keep(acc, o) ==
  [acc EXCEPT !.retained = Append(@, o), !.tokens = @ + o.cost]
Skip(acc, o) == [acc EXCEPT !.omitted = Append(@, o)]

\* Stages 2 to 4, of an object that was not snipped.
Compacted(acc, o, max, trigger) ==
  LET repeated == IsToolOutput(o) /\ o.is.text[1] \in acc.seen
      above(percent) == acc.tokens * 100 > max * percent
      micro == IF IsToolOutput(o) /\ (repeated \/ above(Thresholds(trigger).micro))
               THEN [o EXCEPT !.cost = SummaryCost] ELSE o
      collapse == /\ IsEpisodic(o) /\ o.is.importance < 75
                  /\ (above(Thresholds(trigger).collapse) \/ trigger = "aggressive")
      id == <<o.at, now>>
      final == IF collapse THEN [micro EXCEPT !.cost = SummaryCost, !.stands = id] ELSE micro
      noted == [acc EXCEPT
                  !.seen  = IF IsToolOutput(o) THEN @ \cup {o.is.text[1]} ELSE @,
                  !.saved = IF collapse THEN Append(@, [id |-> id, originals |-> <<micro>>])
                            ELSE @]
  IN  IF acc.tokens + final.cost <= max THEN Keep(noted, final) ELSE Skip(noted, final)

KeepIfRoom(acc, o, max, trigger) == \* mutant of Step: what must be kept is kept while it fits
  IF acc.tokens + o.cost <= max THEN Keep(acc, o) ELSE Skip(acc, o)
Step(acc, o, max, trigger) ==
  LET small == Pruned(o)
      snipped == /\ IsNoise(small)
                 /\ \/ (acc.tokens + small.cost) * 100 > max * Thresholds(trigger).snip
                    \/ Age(small) > 24 \/ "log" \in small.is.tags
  IN  CASE IsMustPreserve(o) -> Keep(acc, o)
        [] /\ ~IsMustPreserve(o)
           /\ o.id \in cached /\ trigger = "pressure" /\ acc.tokens + o.cost <= max -> Keep(acc, o)
        [] OTHER -> IF snipped THEN Skip(acc, small) ELSE Compacted(acc, small, max, trigger)

Compress(objects, max, trigger) ==
  FoldLeft(LAMBDA acc, o : Step(acc, o, max, trigger),
           [retained |-> <<>>, omitted |-> <<>>, tokens |-> 0, seen |-> {}, saved |-> <<>>],
           Sorted(objects))

Saved(records) == \* CollapseStore.saveCollapse, one after the other
  FoldLeft(LAMBDA s, r : [s EXCEPT
             !.store = [id \in DOMAIN @ \cup {r.id} |-> IF id = r.id THEN r.originals ELSE @[id]],
             !.clashed = @ \/ (r.id \in DOMAIN s.store /\ s.store[r.id] # r.originals)],
           [store |-> store, clashed |-> clashed], records)
-----------------------------------------------------------------------------
CompilerInit ==
  /\ known = <<>> /\ view = <<>> /\ store = <<>> /\ clashed = FALSE
  /\ compiled = [outcome |-> "none"] /\ cached = {}
  /\ collapses = 0 /\ now = 0

Gather(offer) ==
  /\ Len(known) < MaxObjects
  /\ LET o == Object(offer, <<Len(known) + 1>>)
     IN  known' = Append(known, o) /\ view' = Append(view, o)
  /\ compiled' = [outcome |-> "none"]
  /\ UNCHANGED <<store, clashed, cached, collapses, now>>

\* assembleCandidateObjects: what the caller gives, the goal, the task, and
\* the evidence there is.
Own(type, importance, tags, text) ==
  [type |-> type, source |-> "harness", episodic |-> FALSE, importance |-> importance,
   tags |-> tags, text |-> <<text, 0, 0>>, cost |-> 1]
Candidates(evidence) ==
  view \o <<Object(Own("USER_INSTRUCTION", 100, {"must_preserve"}, "goal"), <<-1>>),
            Object(Own("REQUIREMENT", 95, {"must_preserve"}, "task"), <<-2>>)>>
       \o (CASE evidence = "fail" ->
                  <<Object(Own("FAILURE", 95, {"must_preserve"}, "red"), <<-3>>)>>
             [] evidence = "pass" ->
                  <<Object(Own("EVIDENCE", 80, {}, "green"), <<-3>>)>>
             [] OTHER -> <<>>)

\* ContextValidator: the soft limit only warns.
Valid(retained, candidates, total) ==
  /\ total <= ModelMax
  /\ \A i \in DOMAIN candidates :
       IsMustPreserve(candidates[i]) => candidates[i].id \in Ids(retained)

Smaller(a, b) == IF a < b THEN a ELSE b
Compile(budget, trigger, evidence) ==
  LET candidates == Candidates(evidence)
      unique == Deduplicated(candidates)
      max == Smaller(budget, ModelMax)
      result == Compress(unique, max, trigger)
      after == Saved(result.saved)
  IN  /\ compiled' = [outcome |-> IF Valid(result.retained, candidates, result.tokens)
                                  THEN "ok" ELSE "refused",
                      candidates |-> candidates, unique |-> unique, max |-> max,
                      retained |-> result.retained, omitted |-> result.omitted,
                      total |-> result.tokens]
      /\ store' = after.store /\ clashed' = after.clashed
      /\ UNCHANGED <<known, view, cached, collapses, now>>

\* CachePrefixTracker.recordResponse: the messages the provider read from its
\* cache, as many as the tokens it reports.
RecordResponse(tokens) ==
  /\ compiled.outcome = "ok"
  /\ cached' = UNION {Ids(SubSeq(compiled.retained, 1, n)) :
                 n \in {n \in 0..Len(compiled.retained) :
                          Sum(SubSeq(compiled.retained, 1, n)) <= tokens}}
  /\ UNCHANGED <<known, view, store, clashed, compiled, collapses, now>>
-----------------------------------------------------------------------------
\* ContextCollapser.

IsCollapsible(o) ==
  /\ ~(\/ "must_preserve" \in o.is.tags
       \/ o.is.type \in {"USER_INSTRUCTION", "DECISION"}
       \/ o.is.type = "FAILURE" /\ o.is.importance >= 90)
  /\ \/ o.is.episodic \/ o.is.type \in {"ATTEMPT", "OBSERVATION"}
     \/ o.is.tags \cap {"episodic", "tool_output"} # {}
     \/ o.is.importance < 75

\* The first eight characters of an id tell when it was made, to a minute.
Prefix(o) == IF o.stands = NoId THEN o.at ELSE -1
Milestone(batch) ==
  LET id == <<Prefix(batch[1]), Prefix(Last(batch)), collapses>>
  IN  [id |-> id, cost |-> SummaryCost, at |-> now, stands |-> id,
       is |-> [type |-> "SUMMARY", source |-> "context_collapser", episodic |-> TRUE,
               importance |-> 65, tags |-> {"collapsed_milestone", "virtual_projection"},
               text |-> <<"milestone", batch[1].id[1], collapses>>, cost |-> SummaryCost]]

LoneDropped(acc) == \* mutant of Flush: a batch of one is lost
  CASE Len(acc.batch) <= 1 -> [acc EXCEPT !.batch = <<>>]
    [] OTHER -> [projected |-> Append(acc.projected, Milestone(acc.batch)), batch |-> <<>>,
                 saved |-> Append(acc.saved, [id |-> Milestone(acc.batch).id,
                                              originals |-> acc.batch])]
Flush(acc) ==
  CASE Len(acc.batch) <= 1 ->
         [acc EXCEPT !.projected = @ \o acc.batch, !.batch = <<>>]
    [] OTHER -> [projected |-> Append(acc.projected, Milestone(acc.batch)), batch |-> <<>>,
                 saved |-> Append(acc.saved, [id |-> Milestone(acc.batch).id,
                                              originals |-> acc.batch])]
Collapsed(objects) ==
  Flush(FoldLeft(LAMBDA acc, o :
                   IF IsCollapsible(o) THEN [acc EXCEPT !.batch = Append(@, o)]
                   ELSE LET done == Flush(acc)
                        IN  [done EXCEPT !.projected = Append(@, o)],
                 [projected |-> <<>>, batch |-> <<>>, saved |-> <<>>], objects))

\* applyCollapses, to what may have been collapsed before: above 70 percent
\* of what the model takes.
ApplyCollapses ==
  /\ collapses < MaxCollapses
  /\ Sum(view) * 100 > ModelMax * 70
  /\ LET result == Collapsed(view)
         after == Saved(result.saved)
     IN  view' = result.projected /\ store' = after.store /\ clashed' = after.clashed
  /\ collapses' = collapses + 1
  /\ compiled' = [outcome |-> "none"]
  /\ UNCHANGED <<known, cached, now>>

\* reconstructFullHistory: one level of milestones.
Reconstructed(objects) ==
  FlattenSeq([i \in DOMAIN objects |->
    IF objects[i].stands \in DOMAIN store /\ store[objects[i].stands] # <<>>
    THEN store[objects[i].stands] ELSE <<objects[i]>>])

TimePasses ==
  /\ now < MaxTicks /\ now' = now + 1
  /\ compiled' = [outcome |-> "none"]
  /\ UNCHANGED <<known, view, store, clashed, cached, collapses>>

CompilerNext ==
  \/ \E offer \in Additions : Gather(offer)
  \/ \E budget \in Budgets, trigger \in Triggers, evidence \in Evidences :
       Compile(budget, trigger, evidence)
  \/ \E tokens \in Reported : RecordResponse(tokens)
  \/ ApplyCollapses \/ TimePasses
-----------------------------------------------------------------------------
Mandatory(objects) == SelectSeq(objects, IsMustPreserve)

\* What a compilation returns has every mandatory object as it was, is no
\* larger than the model takes, and goes over the budget for mandatory objects
\* alone; it is refused only because those are too large or one of them
\* repeats another, which the validator takes for an omission.
MandatoryKept ==
  compiled.outcome \in {"ok", "refused"} =>
    /\ compiled.total = Sum(compiled.retained)
    /\ compiled.total > compiled.max => compiled.retained = Mandatory(compiled.retained)
    /\ compiled.outcome = "ok" =>
         /\ ToSet(Mandatory(compiled.candidates)) \subseteq ToSet(compiled.retained)
         /\ compiled.total <= ModelMax
    /\ compiled.outcome = "refused" <=>
         \/ Sum(Mandatory(compiled.unique)) > ModelMax
         \/ ToSet(Mandatory(compiled.candidates)) # ToSet(Mandatory(compiled.unique))

\* Of what is no duplicate each object is retained or omitted, once, and an
\* object that is no noise is omitted only if it would not fit at the end either.
NothingOmittedInVain ==
  compiled.outcome \in {"ok", "refused"} =>
    LET retained == Ids(compiled.retained)
        omitted == Ids(compiled.omitted)
    IN  /\ retained \cap omitted = {} /\ retained \cup omitted = Ids(compiled.unique)
        /\ Len(compiled.retained) + Len(compiled.omitted) = Len(compiled.unique)
        /\ \A i \in DOMAIN compiled.omitted :
             LET o == compiled.omitted[i]
             IN  IsNoise(o) \/ compiled.total + o.cost > compiled.max

\* Collapsing, also what was collapsed before, loses nothing: reconstructing
\* as often as there were collapses gives back every object in its order.
\* Unless the ids of two milestones clash: they hold the minutes in which the
\* first and the last object were made and the time of the call, which two
\* milestones of one call may share.
HistoryComesBack ==
  LET all[n \in 0..MaxCollapses] ==
        IF n = 0 THEN view ELSE Reconstructed(all[n - 1])
  IN  ~clashed => all[MaxCollapses] = known

CompilerHolds == MandatoryKept /\ NothingOmittedInVain /\ HistoryComesBack
=============================================================================
