------------------------------- MODULE Search -------------------------------
(***************************************************************************)
(* One search over an index generation (query.ts), with the fusion and the *)
(* abstention rules (ranking.ts), the noise floor                          *)
(* (abstention-calibration.ts), the selection of diverse passages          *)
(* (retrieval-diversity.ts), the boosts (source-weights.ts), and the       *)
(* expansion of a citation that the search gave out.                       *)
(*                                                                         *)
(* The four reads of a search (word frequencies, noise floor, keyword      *)
(* candidates, vector candidates) end in any order.  A generation is a     *)
(* sequence of rows, fixed once it is active; words, distances and texts   *)
(* are abstract, and an inverse document frequency is any positive weight  *)
(* that falls with the frequency.                                          *)
(***************************************************************************)
EXTENDS Helpers

CONSTANTS
    Generations,     \* 1..n, in the order of their activation
    Corpus,          \* [Generations -> Seq(rows)]
    IndexOf,         \* [Generations -> what the manifest and the index say, and the policy]
    Requests,        \* what callers ask: a sequence of queries with their options
    Paths,
    PathRank,        \* [Paths -> Nat]: canonical paths first, by depth and length
    LocaleKey,       \* [Paths -> keys]: localeDocumentKey
    LowInformation,  \* words without meaning of their own
    RrfK,            \* RRF_K, 60 in the code
    Unit,            \* a multiple of RrfK + r for every rank r
    Multiplier,      \* DIVERSITY_CANDIDATE_MULTIPLIER, 4 in the code
    CrowdingMin,     \* CROWDING_MIN_CHUNKS, 4 in the code
    WeakDepth,       \* WEAK_ANSWER_DEPTH, 5 in the code
    MaxCandidates,   \* MAX_VECTOR_CANDIDATES and MAX_LEXICAL_CANDIDATES
    MaxCached        \* MAX_CACHED_TERM_GENERATIONS, 4 in the code

VARIABLES
    generation,  \* the active one
    termCache,   \* termFrequencyCache: cached generations, the oldest first
    floorCache,  \* measuredFloors: the generations whose floor was measured
    find,        \* the search in progress
    cited,       \* a result that its caller keeps until the next search, or None
    expanded     \* what the last expansion said, or None

searchVars == <<generation, termCache, floorCache, find, cited, expanded>>

Ids(g) == DOMAIN Corpus[g]
Row(g, i) == Corpus[g][i]
Policy(g) == IndexOf[g].policy  \* rankingPolicyFor
Asked(s) == Requests[s.ask]
Citation(row) == <<row.path, row.lines, row.chunk>>

\* evidenceVersionForRow: the id covers the path, the checksum of the source,
\* the id of the chunk, which covers its text, and the citation.
EvidenceOf_NoChunkId(row) == <<row.path, row.checksum, Citation(row)>>
EvidenceOf(row) ==
    <<row.path, row.checksum, <<row.path, row.chunk, row.text>>, Citation(row)>>

-----------------------------------------------------------------------------
(* Limits and scope.                                                        *)

\* diversityCandidateDemand
Demand(req) == req.topK * Most(1, CeilDiv(Multiplier, req.cap))

\* Variant for the checks: each list only as deep as the demand.
FusionCandidateDepth_Demand(demand) == demand

\* Rows below this depth in both lists cannot reach the demanded ones.
FusionCandidateDepth(demand) == RrfK + 2 * demand

Margin == [fast |-> 100, balanced |-> 125, quality |-> 150, custom |-> 125]

CandidateLimit(req) ==
    Least(MaxCandidates,
          CeilDiv(FusionCandidateDepth(Demand(req)) * Margin[req.profile], 100))

\* searchPredicate: groups of includes narrow each other, an empty one does not.
InScope(req, row) ==
    /\ \A group \in req.includes : group # {} => row.path \in group
    /\ row.path \notin req.excludes

Scoped(g, req) == {i \in Ids(g) : InScope(req, Row(g, i))}

\* queryEvidence: the words that carry meaning, beside the identifiers req.ids.
Tokens(req) == req.words \ LowInformation

-----------------------------------------------------------------------------
(* Word statistics.                                                         *)

Frequency(g, word) == Cardinality({i \in Ids(g) : word \in Row(g, i).words})

\* idfWeightOf, with a falling weight in place of the logarithm.
IdfWeight(count, frequency) == count + 1 - Least(frequency, count)

FrequencyIn(terms, word) == IF word \in DOMAIN terms.freq THEN terms.freq[word] ELSE 0

\* absentShareOf reaches a share, in percent.
AbsentShareReaches(tokens, terms, share) ==
    LET weight(w) == IdfWeight(terms.count, Most(1, FrequencyIn(terms, w)))
        absent == {w \in tokens : FrequencyIn(terms, w) = 0 /\ w \notin terms.fuzzy}
    IN  /\ tokens # {}
        /\ SumOver(absent, weight) * 100 >= share * SumOver(tokens, weight)

\* Words with no exact occurrence that a candidate still matches, such as typos;
\* only looked for when the focus of the question would else be absent.
WithFuzzyMatches(terms, req, g, candidates) ==
    IF terms = None \/ ~AbsentShareReaches(Tokens(req), terms, Policy(g).absent) THEN terms
    ELSE [terms EXCEPT !.fuzzy =
            {w \in Tokens(req) : /\ FrequencyIn(terms, w) = 0
                               /\ \E i \in candidates : req.like[w] \cap Row(g, i).words # {}}]

\* Words of half of the passages at most.
DistinctiveTokens(terms, words) ==
    IF terms = None THEN words
    ELSE {w \in words : FrequencyIn(terms, w) * 2 <= terms.count}

-----------------------------------------------------------------------------
(* Candidates.                                                              *)

NearerThan(g, i, j) ==
    Row(g, i).distance < Row(g, j).distance \/ (Row(g, i).distance = Row(g, j).distance /\ i < j)

Nearest(g, rows, limit) == Take(SortSeq(Ascending(rows), LAMBDA i, j : NearerThan(g, i, j)), limit)

\* crowdingDocuments: those that hold a quarter or more of a pool that reaches
\* too few documents.
CrowdingDocuments(g, pool, topK) ==
    LET pathOf(i) == Row(g, i).path
        paths == {pathOf(i) : i \in ToSet(pool)}
        chunks(p) == Cardinality({i \in ToSet(pool) : pathOf(i) = p})
    IN  IF Len(pool) < CrowdingMin * 2 \/ Cardinality(paths) >= Least(Len(pool), topK * 3) THEN {}
        ELSE {p \in paths : chunks(p) >= Most(CrowdingMin, CeilDiv(Len(pool), 4))}

\* Rows that a path in the query names: source path rows come before any other.
SourcePathRows(g, req) == {i \in Scoped(g, req) : Row(g, i).path \in req.named}
ExactPathRows(g, req) ==
    {i \in SourcePathRows(g, req) : req.exact # None => Row(g, i).path = req.exact}

\* lexicalQuery: each query has the words that a row must hold one of, and those
\* that score.  Exact identifiers must match; words misspelt come later.
LexicalQuery(req) ==
    LET like(words) == UNION {req.like[w] : w \in words}
        query(must, should) == [must |-> must, score |-> must \cup should]
        fuzzy(words) == query(words \cup like(words), {})
    IN  IF req.ids # {}
        THEN [primary |-> query(req.ids, req.words),
              supplemental |-> <<fuzzy(req.ids), query(req.words, {})>>]
        ELSE [primary |-> query(req.words, {}),
              supplemental |-> [k \in DOMAIN req.rare |-> fuzzy({req.rare[k]})]]

\* BM25, of the full-text index or of the fallback scan.
LexicalScore(g, words, i) ==
    SumOver(words \cap Row(g, i).words, LAMBDA w : IdfWeight(Len(Corpus[g]), Frequency(g, w)))

BestFirst(found, limit) ==
    Take(SortSeq(found, LAMBDA a, b : a.score > b.score \/ (a.score = b.score /\ a.id < b.id)),
         limit)

WithScores(rows, score(_)) ==
    LET ids == Ascending(rows) IN [k \in DOMAIN ids |-> [id |-> ids[k], score |-> score(ids[k])]]

Matching(g, rows, query) ==
    WithScores({i \in rows : Row(g, i).words \cap query.must # {}},
               LAMBDA i : LexicalScore(g, query.score, i))

FullText(g, req, query, limit) == BestFirst(Matching(g, Scoped(g, req), query), limit)

\* executeSourcePathQuery
PathRowsOf(g, req, limit) ==
    Take(WithScores(SourcePathRows(g, req),
                    LAMBDA i : IF Row(g, i).path = req.exact THEN Infinity + 1 ELSE Infinity),
         limit)

FoundIds(found) == {found[k].id : k \in DOMAIN found}

\* found, and then the rows of more that are not there yet, up to a limit.
AppendFound(found, more, limit) ==
    Take(found \o SelectSeq(more, LAMBDA row : row.id \notin FoundIds(found)),
         Most(limit, Len(found)))

\* The full-text branch: source path rows and the primary query, then, while
\* there are too few, the supplemental ones; one that fails gives nothing.
FullTextCandidates(g, req, limit, failing) ==
    LET query == LexicalQuery(req)
        first == AppendFound(PathRowsOf(g, req, limit), FullText(g, req, query.primary, limit),
                             Infinity)
        supplement(found, k) ==
            IF Len(found) >= Demand(req) \/ Len(found) >= limit \/ k \in failing THEN found
            ELSE AppendFound(found, FullText(g, req, query.supplemental[k], limit), limit)
    IN  FoldLeft(supplement, first, [k \in DOMAIN query.supplemental |-> k])

\* The fallback scans all rows in scope and adds the source path rows.
FallbackCandidates(g, req, limit) ==
    LET paths == PathRowsOf(g, req, limit)
        scanned == Matching(g, Scoped(g, req), [must |-> req.words, score |-> req.words])
    IN  BestFirst(AppendFound(paths, scanned, Infinity), limit)

\* lexicalCandidateRows
KeywordRows(s, limit) ==
    IF s.scan THEN FallbackCandidates(s.gen, Asked(s), limit)
    ELSE FullTextCandidates(s.gen, Asked(s), limit, s.failing)

-----------------------------------------------------------------------------
(* Fusion.                                                                  *)

RankIn(list, i) == (CHOOSE k \in DOMAIN list : list[k] = i) - 1

Share(weight, list, i) ==
    IF i \in ToSet(list) THEN (weight * Unit) \div (RrfK + RankIn(list, i)) ELSE 0

WordMatchBoost(tokens, names) == 10 + Least(2, Cardinality(tokens \cap names))

\* Path priors and configured weights, file names, headings and definitions.
ScoreMultiplier(g, i, tokens) ==
    Row(g, i).prior * WordMatchBoost(tokens, Row(g, i).names)

\* Both lists in order.  Without keyword rows, BM25 ranks the vector rows.
Lists(s) ==
    LET words == [must |-> Asked(s).words, score |-> Asked(s).words]
        keyword == BestFirst(IF s.lexical = <<>> THEN Matching(s.gen, ToSet(s.vector), words)
                             ELSE s.lexical, Infinity)
    IN  [vector |-> Nearest(s.gen, ToSet(s.vector), Infinity),
         lexical |-> [k \in DOMAIN keyword |-> keyword[k].id]]

Fused(policy, lists, i) ==
    Share(policy.vectorWeight, lists.vector, i) + Share(policy.lexicalWeight, lists.lexical, i)

\* A row that only the keyword channel returned has no distance.
RowDistance(s, i) == IF i \in ToSet(s.vector) THEN Row(s.gen, i).distance ELSE Infinity

Candidates(s) == ToSet(s.vector) \cup FoundIds(s.lexical)

\* rankHybridRows, and the exact path matches in front of the others.
Ranking(s) ==
    LET tokens == DistinctiveTokens(s.terms, Tokens(Asked(s)))
        lists == Lists(s)
        anchors == [i \in Candidates(s) |-> Cardinality(Asked(s).ids \cap Row(s.gen, i).words)]
        score == [i \in Candidates(s) |->
                    Fused(Policy(s.gen), lists, i) * ScoreMultiplier(s.gen, i, tokens)]
        exact == [i \in Candidates(s) |-> IF i \in s.exact THEN 1 ELSE 0]
        key == [i \in Candidates(s) |->
                  <<-exact[i], -anchors[i], -score[i], RowDistance(s, i), i>>]
        before(i, j) ==
            \E k \in 1 .. 5 : key[i][k] < key[j][k] /\ \A l \in 1 .. k - 1 : key[i][l] = key[j][l]
    IN  SortSeq(Ascending({i \in Candidates(s) : score[i] > 0}), before)

-----------------------------------------------------------------------------
(* Abstention and weak evidence.                                            *)

HasLexicalEvidence(s, i) ==
    LET row == Row(s.gen, i)
    IN  IF Asked(s).ids # {} THEN Asked(s).ids \cap row.words # {}
        ELSE \E w \in Tokens(Asked(s)) : ({w} \cup Asked(s).like[w]) \cap row.words # {}

\* effectiveVectorDistances: the noise floor caps what counts as strong.
Capped(s, distance) ==
    IF s.floor = None \/ ~Policy(s.gen).semantic THEN distance
    ELSE IF distance = None THEN s.floor ELSE Least(distance, s.floor)

Within(s, i, limit) == limit # None /\ RowDistance(s, i) <= limit

\* queryTermCoverage reaches a share, in percent.
CoverageReaches(s, i, share) ==
    LET tokens == Tokens(Asked(s))
        weight(w) == IdfWeight(s.terms.count, FrequencyIn(s.terms, w))
        held == {w \in tokens :
                   ({w} \cup IF w \in s.terms.fuzzy THEN Asked(s).like[w] ELSE {})
                     \cap Row(s.gen, i).words # {}}
    IN  SumOver(held, weight) * 100 >= share * SumOver(tokens, weight)

FocusAbsent(s) ==
    s.terms # None /\ Asked(s).ids = {} /\ AbsentShareReaches(Tokens(Asked(s)), s.terms, Policy(s.gen).absent)

\* abstentionFilter
PassesAbstention(s, i) ==
    IF Asked(s).ids # {} THEN HasLexicalEvidence(s, i)
    ELSE IF ~Policy(s.gen).semantic THEN ~FocusAbsent(s) /\ HasLexicalEvidence(s, i)
    ELSE IF FocusAbsent(s)
    THEN Within(s, i, Capped(s, IF Policy(s.gen).free # None THEN Policy(s.gen).free
                                ELSE Policy(s.gen).maximum))
    ELSE \/ Within(s, i, Policy(s.gen).maximum)
         \/ IF s.terms # None /\ Policy(s.gen).minimum > 0 THEN CoverageReaches(s, i, Policy(s.gen).minimum)
            ELSE HasLexicalEvidence(s, i)

\* weakEvidenceFilter; an exact path match is never weak.
Weak(s, i) ==
    /\ i \notin s.exact
    /\ s.terms # None /\ Asked(s).ids = {} /\ Tokens(Asked(s)) # {}
    /\ ~Within(s, i, Capped(s, Policy(s.gen).strong))
    /\ ~CoverageReaches(s, i, IF RowDistance(s, i) < Infinity THEN Policy(s.gen).weak
                              ELSE Policy(s.gen).lexicalOnly)

Relevant(s, i) == i \in s.exact \/ PassesAbstention(s, i)

-----------------------------------------------------------------------------
(* Selection of diverse passages (selectDiverseRows).                       *)

SameText(s, i, j) == Row(s.gen, i).text = Row(s.gen, j).text
DocumentKey(s, i) ==
    IF Asked(s).collapse THEN LocaleKey[Row(s.gen, i).path] ELSE Row(s.gen, i).path

Overlap(s, i, j) ==
    LET a == Row(s.gen, i)  b == Row(s.gen, j)
    IN  a.path = b.path /\ a.from < b.to /\ b.from < a.to

\* Each text at the place of its first row, by the exact match, then the most
\* canonical path, then the earliest row.
Canonical(s, relevant) ==
    LET firsts == SelectSeq([k \in DOMAIN relevant |-> k],
                    LAMBDA k : \A l \in 1 .. k - 1 : ~SameText(s, relevant[l], relevant[k]))
        group(k) == {l \in DOMAIN relevant : SameText(s, relevant[l], relevant[k])}
        rank(l) == PathRank[Row(s.gen, relevant[l]).path]
                   - IF relevant[l] \in s.exact THEN Infinity ELSE 0
        best(k) == CHOOSE l \in group(k) :
                     \A m \in group(k) : rank(l) < rank(m) \/ (rank(l) = rank(m) /\ l <= m)
    IN  [k \in DOMAIN firsts |-> relevant[best(firsts[k])]]

\* uniqueRelevantRows
UniqueRows(s, order) == Canonical(s, SelectSeq(order, LAMBDA i : Relevant(s, i)))

\* appendRow, as long as there is room.
AppendRow(s, selected, i, enforceCap, allowOverlap) ==
    IF \/ Len(selected) >= Asked(s).topK \/ i \in ToSet(selected)
       \/ ~allowOverlap /\ \E j \in ToSet(selected) : Overlap(s, i, j)
       \/ enforceCap /\ Cardinality({j \in ToSet(selected) : DocumentKey(s, j) = DocumentKey(s, i)})
                          >= Asked(s).cap
    THEN selected ELSE Append(selected, i)

Pass(s, selected, rows, enforceCap, allowOverlap) ==
    FoldLeft(LAMBDA got, i : AppendRow(s, got, i, enforceCap, allowOverlap), selected, rows)

\* Variant for the checks: the rows that overlap a selected one come second.
SelectDiverse_OverlapFirst(s, rows) ==
    LET capped == Pass(s, <<>>, rows, TRUE, FALSE)
    IN  Pass(s, Pass(s, capped, rows, TRUE, TRUE), rows, FALSE, FALSE)

\* Three passes: under the cap, beyond the cap, and rows that overlap as well.
SelectDiverse(s, rows) ==
    LET capped == Pass(s, <<>>, rows, TRUE, FALSE)
    IN  Pass(s, Pass(s, capped, rows, FALSE, FALSE), rows, FALSE, TRUE)

\* Nothing is answered when all leading passages are weak.
UnlessWeak(s, rows) ==
    IF rows # <<>> /\ \A k \in DOMAIN Take(rows, WeakDepth) : Weak(s, rows[k])
    THEN <<>> ELSE rows

Answer(s) == UnlessWeak(s, SelectDiverse(s, UniqueRows(s, Ranking(s))))

-----------------------------------------------------------------------------
(* Context passages (contextChunksByRow).                                   *)

Around(row, radius) == [min |-> Most(0, row.chunk - radius), max |-> row.chunk + radius]

\* contextRangesByPath: ranges in order, those that touch are one.
MergeRanges(ranges) ==
    FoldLeft(LAMBDA merged, r :
                IF merged = <<>> \/ r.min > Last(merged).max + 1 THEN Append(merged, r)
                ELSE [merged EXCEPT ![Len(merged)].max = Most(@, r.max)],
             <<>>, ranges)

ContextRanges(s, rows, path) ==
    LET own == SortSeq(SelectSeq(rows, LAMBDA i : Row(s.gen, i).path = path),
                       LAMBDA i, j : Row(s.gen, i).chunk < Row(s.gen, j).chunk)
    IN  MergeRanges([k \in DOMAIN own |-> Around(Row(s.gen, own[k]), Asked(s).radius)])

\* The rows read for all contexts at once: the merged ranges and the headers,
\* inside the scope of the search.
HydratedRows(s, rows) ==
    {i \in Scoped(s.gen, Asked(s)) :
        LET row == Row(s.gen, i)
        IN  \/ \E k \in DOMAIN ContextRanges(s, rows, row.path) :
                  LET r == ContextRanges(s, rows, row.path)[k]
                  IN  r.min <= row.chunk /\ row.chunk <= r.max
            \/ \E j \in ToSet(rows) : Row(s.gen, j).path = row.path
                                      /\ Row(s.gen, j).header = row.chunk}

ContextOf(s, read, i) ==
    LET row == Row(s.gen, i)  range == Around(row, Asked(s).radius)
    IN  {j \in read :
           /\ Row(s.gen, j).path = row.path
           /\ \/ /\ Asked(s).radius > 0
                 /\ range.min <= Row(s.gen, j).chunk /\ Row(s.gen, j).chunk <= range.max
              \/ Row(s.gen, j).chunk = row.header}

Contexts(s, rows) ==
    LET read == IF Asked(s).radius = 0 /\ \A i \in ToSet(rows) : Row(s.gen, i).header = None
                THEN {} ELSE HydratedRows(s, rows)
    IN  [i \in ToSet(rows) |-> ContextOf(s, read, i)]

-----------------------------------------------------------------------------
(* The steps of a search (searchWithinGeneration).                          *)

NoSearch == [phase |-> "idle"]

SearchInit ==
    /\ generation \in Generations
    /\ termCache = <<>> /\ floorCache = <<>>
    /\ find = NoSearch
    /\ cited = None /\ expanded = None

Ended(phase, rows) == [phase |-> phase, rows |-> rows]

\* A search that ends before it reads: arguments, no table, an index that is not
\* current, a query without words, a scope that is not configured.
EarlyEnd(req) ==
    LET index == IndexOf[generation]
    IN  CASE req.topK = 0 \/ req.cap = 0 -> "INVALID_ARGUMENT"
          [] ~index.table -> "empty"
          [] index.manifest # "current" -> "stale"
          [] Tokens(req) = {} -> "empty"
          [] req.scope = "unknown" -> "INVALID_ARGUMENT"
          [] OTHER -> None

Begin(ask) ==
    /\ find.phase = "idle"
    /\ find' = IF EarlyEnd(Requests[ask]) # None THEN Ended("done", <<>>)
               ELSE [phase |-> "gather", gen |-> generation, ask |-> ask,
                     waits |-> {"terms", "floor", "lexical", "nearest"},
                     terms |-> None, floor |-> None, lexical |-> <<>>, exact |-> {},
                     vector |-> <<>>, failed |-> FALSE,
                     scan |-> FALSE, failing |-> {}, rows |-> <<>>, contexts |-> <<>>, weak |-> {}]
    /\ cited' = None /\ expanded' = None
    /\ UNCHANGED <<generation, termCache, floorCache>>

Gathering(part) == find.phase = "gather" /\ part \in find.waits

CachedTerms(g) == {k \in DOMAIN termCache : termCache[k].gen = g}

\* queryTermFrequencies: the frequencies of a generation, kept for the latest
\* few.  A word whose count fails leaves the search without statistics, and the
\* words that were counted meanwhile in the cache.
CountTerms(counted) ==
    /\ Gathering("terms") /\ counted \subseteq Tokens(Asked(find))
    /\ LET index == IndexOf[find.gen]
           known == IF CachedTerms(find.gen) = {} THEN << >>
                    ELSE termCache[CHOOSE k \in CachedTerms(find.gen) : TRUE].freq
           missing == Tokens(Asked(find)) \ DOMAIN known
           freq == [w \in DOMAIN known \cup (counted \cap missing) |->
                      IF w \in DOMAIN known THEN known[w] ELSE Frequency(find.gen, w)]
           entry == [gen |-> find.gen, freq |-> freq]
           grown == IF CachedTerms(find.gen) = {} THEN Append(termCache, entry)
                    ELSE [k \in DOMAIN termCache |->
                            IF termCache[k].gen = find.gen THEN entry ELSE termCache[k]]
       IN  IF ~index.folded \/ index.unindexed
           THEN /\ counted = {}
                /\ find' = [find EXCEPT !.waits = @ \ {"terms"}]
                /\ UNCHANGED termCache
           ELSE /\ counted \subseteq missing
                /\ termCache' = IF Len(grown) > MaxCached THEN Tail(grown) ELSE grown
                /\ find' = [find EXCEPT
                              !.waits = @ \ {"terms"},
                              !.terms = IF counted # missing THEN None
                                        ELSE [count |-> Len(Corpus[find.gen]), fuzzy |-> {},
                                              freq |-> [w \in Tokens(Asked(find)) |-> freq[w]]]]
    /\ UNCHANGED <<generation, floorCache, cited, expanded>>

\* indexNoiseFloor: stored, or measured once for a generation, whether or not
\* the measurement succeeds.
NoiseFloor(measured) ==
    /\ Gathering("floor")
    /\ LET index == IndexOf[find.gen]
           kept == {k \in DOMAIN floorCache : floorCache[k].gen = find.gen}
           grown == Append(floorCache, [gen |-> find.gen, floor |-> measured])
       IN  IF ~index.policy.semantic \/ index.floor # None \/ kept # {}
           THEN /\ measured = None
                /\ find' = [find EXCEPT
                              !.waits = @ \ {"floor"},
                              !.floor = IF ~index.policy.semantic THEN None
                                        ELSE IF index.floor # None THEN index.floor
                                        ELSE floorCache[CHOOSE k \in kept : TRUE].floor]
                /\ UNCHANGED floorCache
           ELSE /\ measured \in {index.noise, None}
                /\ floorCache' = IF Len(grown) > MaxCached THEN Tail(grown) ELSE grown
                /\ find' = [find EXCEPT !.waits = @ \ {"floor"}, !.floor = measured]
    /\ UNCHANGED <<generation, termCache, cited, expanded>>

\* lexicalCandidateRows: from the full-text index, or by a scan where there is
\* none, or where its query fails.
KeywordCandidates(scan, failing) ==
    /\ Gathering("lexical")
    /\ ~IndexOf[find.gen].fts => scan
    /\ failing \subseteq IF scan THEN {} ELSE DOMAIN LexicalQuery(Asked(find)).supplemental
    /\ LET s == [find EXCEPT !.waits = @ \ {"lexical"}, !.scan = scan, !.failing = failing]
           limit == CandidateLimit(Asked(s))
       IN  find' = [s EXCEPT !.lexical = KeywordRows(s, limit),
                             !.exact = FoundIds(PathRowsOf(s.gen, Asked(s), limit))
                                         \cap ExactPathRows(s.gen, Asked(s))]
    /\ UNCHANGED <<generation, termCache, floorCache, cited, expanded>>

\* The nearest rows in scope; when few documents crowd the pool, the search
\* goes on without those.
VectorCandidates ==
    /\ Gathering("nearest")
    /\ LET rows == Nearest(find.gen, Scoped(find.gen, Asked(find)), CandidateLimit(Asked(find)))
       IN  find' = [find EXCEPT
                      !.vector = rows,
                      !.waits = (@ \ {"nearest"}) \cup
                                IF CrowdingDocuments(find.gen, rows, Asked(find).topK) = {} THEN {}
                                ELSE {"others"}]
    /\ UNCHANGED <<generation, termCache, floorCache, cited, expanded>>

OtherDocuments ==
    /\ Gathering("others")
    /\ LET crowding == CrowdingDocuments(find.gen, find.vector, Asked(find).topK)
           others == {i \in Scoped(find.gen, Asked(find)) : Row(find.gen, i).path \notin crowding}
       IN  find' = [find EXCEPT
                      !.waits = @ \ {"others"},
                      !.vector = AppendNew(@, Nearest(find.gen, others, CandidateLimit(Asked(find))))]
    /\ UNCHANGED <<generation, termCache, floorCache, cited, expanded>>

\* A read of candidates fails: the search fails when both have settled.
CandidatesFail ==
    /\ find.phase = "gather"
    /\ \E part \in find.waits \cap {"lexical", "nearest", "others"} :
          find' = [find EXCEPT !.waits = @ \ {part}, !.failed = TRUE]
    /\ UNCHANGED <<generation, termCache, floorCache, cited, expanded>>

\* Ranking, abstention and selection, once everything is there.
Select ==
    /\ find.phase = "gather" /\ ~find.failed /\ find.waits = {}
    /\ LET s == [find EXCEPT !.terms = WithFuzzyMatches(@, Asked(find), find.gen, Candidates(find))]
       IN  find' = [s EXCEPT !.phase = "hydrate", !.rows = Answer(s)]
    /\ UNCHANGED <<generation, termCache, floorCache, cited, expanded>>

\* The contexts are read.
Deliver ==
    /\ find.phase = "hydrate"
    /\ find' = [find EXCEPT !.phase = "results", !.contexts = Contexts(find, find.rows),
                            !.weak = {i \in ToSet(find.rows) : Weak(find, i)}]
    /\ UNCHANGED <<generation, termCache, floorCache, cited, expanded>>

\* The search throws: both reads of candidates have settled and one failed, or
\* it is aborted.
Throw(aborted) ==
    /\ \/ find.phase = "gather" /\ find.failed
          /\ find.waits \cap {"lexical", "nearest", "others"} = {}
       \/ aborted /\ find.phase \in {"gather", "hydrate"}
    /\ find' = Ended("done", <<>>)
    /\ UNCHANGED <<generation, termCache, floorCache, cited, expanded>>

\* The caller takes the results and keeps one citation.
Return ==
    /\ find.phase \in {"results", "done"}
    /\ cited' \in IF find.rows = <<>> THEN {cited}
                  ELSE {[path |-> row.path, chunk |-> row.chunk, citation |-> Citation(row),
                         evidence |-> EvidenceOf(row), text |-> row.text] :
                         row \in {Row(find.gen, i) : i \in ToSet(find.rows)}}
    /\ find' = NoSearch
    /\ UNCHANGED <<generation, termCache, floorCache, expanded>>

-----------------------------------------------------------------------------
(* Expansion of a citation (expandCitationWithinGeneration).                *)

\* The row that a citation names in the active generation, if there is one.
TargetRows(c) ==
    {i \in Ids(generation) : Row(generation, i).path = c.path /\ Row(generation, i).chunk = c.chunk}

\* Its passages: those around it, and the header where they leave it out.
PassagesAround(i, radius) ==
    LET row == Row(generation, i)  range == Around(row, radius)
    IN  {j \in Ids(generation) :
           /\ Row(generation, j).path = row.path
           /\ \/ range.min <= Row(generation, j).chunk /\ Row(generation, j).chunk <= range.max
              \/ Row(generation, j).chunk = row.header}

Outcome(c, expected, radius) ==
    LET targets == TargetRows(c)
        i == CHOOSE x \in targets : TRUE
    IN  CASE ~IndexOf[generation].table -> [found |-> FALSE]
          [] IndexOf[generation].table /\ IndexOf[generation].manifest # "current" -> [error |-> "stale"]
          [] IndexOf[generation].table /\ IndexOf[generation].manifest = "current" /\ targets = {} ->
               [found |-> FALSE]
          [] OTHER ->
               IF Citation(Row(generation, i)) # c.citation THEN [error |-> "coordinates"]
               ELSE IF expected /\ EvidenceOf(Row(generation, i)) # c.evidence
               THEN [error |-> "EVIDENCE_CHANGED"]
               ELSE [found |-> TRUE, text |-> Row(generation, i).text, expected |-> expected,
                     gen |-> generation, passages |-> PassagesAround(i, radius)]

Expand(expected, radius) ==
    /\ find.phase = "idle" /\ cited # None
    /\ expanded' = Outcome(cited, expected, radius)
    /\ UNCHANGED <<generation, termCache, floorCache, find, cited>>

-----------------------------------------------------------------------------
(* Around the searches.                                                     *)

\* Another generation becomes the active one.
Activate ==
    /\ \E g \in Generations : g > generation /\ generation' = g
    /\ expanded' = None
    /\ UNCHANGED <<termCache, floorCache, find, cited>>

SearchNext ==
    \/ \E ask \in DOMAIN Requests : Begin(ask)
    \/ \E counted \in IF find.phase = "gather" THEN SUBSET Tokens(Asked(find)) ELSE {} :
          CountTerms(counted)
    \/ \E measured \in {IndexOf[g].noise : g \in Generations} \cup {None} : NoiseFloor(measured)
    \/ \E scan \in BOOLEAN, failing \in {{}, {1}} : KeywordCandidates(scan, failing)
    \/ VectorCandidates \/ OtherDocuments \/ CandidatesFail
    \/ Select \/ Deliver \/ \E aborted \in BOOLEAN : Throw(aborted)
    \/ Return
    \/ \E expected \in BOOLEAN, radius \in 0 .. 1 : Expand(expected, radius)
    \/ Activate

SearchSpec == SearchInit /\ [][SearchNext]_searchVars

-----------------------------------------------------------------------------
(* Properties.                                                              *)

Delivered == find.phase = "results"

\* The selection: every passage and context passage is in scope, no text comes
\* twice, a document exceeds its cap only when no other relevant text without
\* overlap was left, and nothing relevant is left out while there is room.
SelectionSound ==
    Delivered =>
      LET rows == ToSet(find.rows)
          seen == {i \in Candidates(find) : Relevant(find, i)}
          left == {i \in seen : \A j \in rows : ~SameText(find, i, j)}
          count(i) == Cardinality({j \in rows : DocumentKey(find, j) = DocumentKey(find, i)})
      IN  /\ \A i \in rows : {i} \cup find.contexts[i] \subseteq Scoped(find.gen, Asked(find))
          /\ Len(find.rows) = Cardinality(rows) /\ Len(find.rows) <= Asked(find).topK
          /\ \A i, j \in rows : i # j => ~SameText(find, i, j)
          /\ find.rows # <<>> /\ Len(find.rows) < Asked(find).topK => left = {}
          /\ (\E i \in rows : count(i) > Asked(find).cap)
                => \A j \in left : count(j) >= Asked(find).cap \/ \E i \in rows : Overlap(find, i, j)
          /\ find.exact # {} => find.exact \cap rows # {}

\* The context of a passage is all that is within its radius, and its header,
\* as if it had been read for this passage alone.
ContextComplete ==
    Delivered =>
      \A i \in ToSet(find.rows) :
          find.contexts[i] = ContextOf(find, Scoped(find.gen, Asked(find)), i)

\* The statistics of a search are those of its generation, through any order of
\* searches, activations, failures and evictions of the cache.
TermsTrue ==
    find.phase \in {"gather", "hydrate"} /\ find.terms # None =>
        \A w \in DOMAIN find.terms.freq : find.terms.freq[w] = Frequency(find.gen, w)

\* A citation that is expanded with the identifier of its evidence shows the
\* passage that the search returned, or nothing at all.
EvidenceHonest ==
    expanded # None /\ "found" \in DOMAIN expanded /\ expanded.found /\ expanded.expected
        => expanded.text = cited.text

\* What search promises of its results, whatever the order of its reads, the
\* backend that answers, the failures and the state of the caches.
ResultsSound == SelectionSound /\ ContextComplete /\ TermsTrue /\ EvidenceHonest

\* ranking.ts on fusionCandidateDepth: with equal multipliers no row that is in
\* neither list would be among the demanded ones, had the lists no end.
PoolSuffices ==
    find.phase = "hydrate" =>
      LET whole == [find EXCEPT
                      !.vector = Nearest(find.gen, Scoped(find.gen, Asked(find)), Infinity),
                      !.lexical = KeywordRows(find, Infinity)]
          lists == Lists(whole)
          fused == [i \in Candidates(whole) |-> Fused(Policy(find.gen), lists, i)]
      IN  \A i \in Candidates(whole) \ Candidates(find) :
             Cardinality({j \in Candidates(find) : fused[j] > fused[i]})
               >= Least(Demand(Asked(find)), Cardinality(Candidates(find)))

=============================================================================
