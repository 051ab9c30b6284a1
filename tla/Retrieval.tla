------------------------------ MODULE Retrieval ------------------------------
(***************************************************************************)
(* One search of the knowledge base (src/src/retrieval/search), the context *)
(* made of what it finds (src/src/retrieval/context) and its compression    *)
(* (src/src/answer/context_compressor.ts) in one run of a knowledge runner. *)
(* The channels run side by side, each builds its filter when it gets to    *)
(* ask the index, and sources change their active version meanwhile.        *)
(***************************************************************************)
EXTENDS Integers, Sequences, FiniteSets, SequencesExt, FiniteSetsExt

CONSTANTS
    Index,         \* the stored chunks: a function from ids to records
    SourceOf,      \* the source of each document
    Callers,       \* access contexts: a tenant and the caller's groups, or NoContext
    NoContext,
    MaxSelected,   \* channels one search selects (bound: 4)
    ChannelTop,    \* CHANNEL_TOP_K (bound: 5 in the code)
    ResultTop,     \* RESULT_TOP_K (bound: 10)
    RerankAbove,   \* as few results are not reranked (bound: 3)
    MaxContext,    \* maxContextTokens (bound: 6000)
    MaxParent,     \* maxParentTokens (bound: 4500)
    MaxBlock       \* maxTokensPerGroup of the compressor (bound: 200)

Docs == DOMAIN SourceOf

\* The index is finite, and a parent is looked up in the document of its child.
ASSUME RetrievalAssumption ==
    /\ IsFiniteSet(DOMAIN Index)
    /\ \A c \in DOMAIN Index : Index[c].doc \in Docs /\ Index[c].len \in Nat
    /\ \A c, p \in DOMAIN Index : Index[c].parent = p => Index[p].doc = Index[c].doc
    /\ {MaxSelected, ChannelTop, ResultTop, RerankAbove, MaxContext, MaxParent, MaxBlock}
           \subseteq Nat

VARIABLES
    search,        \* where the search is
    caller,        \* the access context of the caller
    live,          \* the active documents
    servable,      \* the documents that could be served at some time in the search
    channels,      \* per channel: where it is, what the index may answer, what it answered
    results,       \* the results in their order
    loaded,        \* the parents of the results
    broken,        \* the parts after the channels that failed
    cancelled,     \* the signal of the run is aborted
    context        \* the parts of the context, each with its citations

retrievalVars == <<search, caller, live, servable, channels, results, loaded, broken,
                   cancelled, context>>

Channels == {"vector", "bm25", "graph", "pageIndex"}

Unselected == [at |-> "off", allowed |-> {}, hits |-> {}]
Waiting == [at |-> "start", allowed |-> {}, hits |-> {}]
Asked(allowed) == [at |-> "asked", allowed |-> allowed, hits |-> {}]
Settled(hits) == [at |-> "done", allowed |-> {}, hits |-> hits]
Failed == [at |-> "failed", allowed |-> {}, hits |-> {}]

-----------------------------------------------------------------------------
(* The filters of every query.                                               *)

\* A caller without groups sees its whole tenant.
Visible(c) ==
    \/ caller = NoContext
    \/ /\ Index[c].tenant = caller.tenant
       /\ \/ caller.groups = {} \/ Index[c].groups = {}
          \/ caller.groups \cap Index[c].groups # {}

Children == {c \in DOMAIN Index : Index[c].kind = "child"}

\* While no document is active there is no filter on documents.
Unfiltered(documents) == IF documents = {} THEN Docs ELSE documents
ActiveTerms == Unfiltered(live)

Permitted(among) == {c \in among \cap Children : Index[c].doc \in ActiveTerms /\ Visible(c)}

\* Relations written before access tags existed are kept: the index rechecks them.
Provenance == {c \in Children : Index[c].tagged => Visible(c)}

\* Mutation: the fallback of the graph search asks the index without filters.
GraphScopeBypass(found) == IF found # {} THEN Permitted(found) ELSE Children

\* The chunks the relations come from, or any that mentions the names found.
GraphScope(found) == Permitted(IF found # {} THEN found ELSE Children)

-----------------------------------------------------------------------------
RetrievalTypeOK ==
    /\ search \in {"idle", "channels", "rerank", "parents", "found", "assembled",
                   "ready", "insufficient", "aborted"}
    /\ caller \in Callers \cup {NoContext}
    /\ live \subseteq Docs /\ ActiveTerms \subseteq servable /\ servable \subseteq Docs
    /\ channels \in [Channels -> [at : {"off", "start", "asked", "done", "failed"},
                                  allowed : SUBSET Children, hits : SUBSET Children]]
    /\ results \in Seq(Children) /\ IsInjective(results)
    /\ loaded \subseteq DOMAIN Index
    /\ broken \subseteq {"reranker", "parents"}
    /\ cancelled \in BOOLEAN
    /\ \A i \in DOMAIN context :
         context[i].tokens \in Nat /\ context[i].cited \subseteq Children

RetrievalInit ==
    /\ search = "idle"
    /\ caller \in Callers \cup {NoContext}
    /\ live \in {{}} \cup {{d} : d \in Docs}
    /\ servable = ActiveTerms
    /\ channels = [ch \in Channels |-> Unselected]
    /\ results = << >>
    /\ loaded = {}
    /\ broken = {}
    /\ cancelled = FALSE
    /\ context = << >>

\* A pipeline or a reviewer activates a version, or a source is retired.
ChangeActive ==
    /\ search = "channels"
    /\ \E d \in Docs :
        LET others == {e \in live : SourceOf[e] # SourceOf[d]}
        IN  live' \in {others, others \cup {d}}
    /\ servable' = servable \cup Unfiltered(live')
    /\ UNCHANGED <<search, caller, channels, results, loaded, broken, cancelled, context>>

AbortSearch ==
    /\ search \in {"idle", "channels", "rerank", "parents", "found", "assembled"} /\ ~cancelled
    /\ cancelled' = TRUE
    /\ UNCHANGED <<search, caller, live, servable, channels, results, loaded, broken, context>>

\* Nodes of the page index the caller may see lead to chunks; without any there is
\* nothing to ask, without a repository the channel fails.
PageIndexAsks ==
    {Failed, Settled({})} \cup
    {Asked(Permitted({c})) : c \in {x \in Children : Visible(x)}}

\* validateChannelSelection: at least one channel, none twice.
Selections == UNION {kSubset(n, Channels) : n \in 1 .. MaxSelected}

\* bm25 and pageIndex build their filters at once, the others after their first answer.
BeginSearch ==
    /\ search = "idle"
    /\ IF cancelled
       THEN search' = "aborted" /\ UNCHANGED channels
       ELSE /\ search' = "channels"
            /\ \E selected \in Selections, page \in PageIndexAsks :
                channels' = [ch \in Channels |->
                    CASE ch \notin selected -> Unselected
                      [] ch \in selected /\ ch = "bm25" -> Asked(Permitted(Children))
                      [] ch \in selected /\ ch = "pageIndex" -> page
                      [] OTHER -> Waiting]
    /\ UNCHANGED <<caller, live, servable, results, loaded, broken, cancelled, context>>

SetChannel(ch, state) ==
    /\ search = "channels"
    /\ channels' = [channels EXCEPT ![ch] = state]
    /\ UNCHANGED <<search, caller, live, servable, results, loaded, broken, cancelled, context>>

\* The query has its embedding.
Embedded ==
    /\ channels["vector"].at = "start"
    /\ SetChannel("vector", Asked(Permitted(Children)))

\* Entities by name, with the provenance of their relations.
GraphMatches ==
    /\ channels["graph"].at = "start"
    /\ \E named \in BOOLEAN, found \in {{}} \cup {{c} : c \in Provenance} :
        SetChannel("graph", IF ~named /\ found = {} THEN Settled({}) ELSE Asked(GraphScope(found)))

ChannelAnswers(ch) ==
    /\ channels[ch].at = "asked"
    /\ \E hits \in SUBSET channels[ch].allowed :
        Cardinality(hits) <= ChannelTop /\ SetChannel(ch, Settled(hits))

ChannelFails(ch) ==
    /\ channels[ch].at \in {"start", "asked"}
    /\ SetChannel(ch, Failed)

Top(order) == SubSeq(order, 1, Min({Len(order), ResultTop}))

\* Reciprocal rank fusion: every hit once, in some order; few are not reranked.
Fuse ==
    LET selected == {ch \in Channels : channels[ch].at # "off"}
        fused == UNION {channels[ch].hits : ch \in Channels}
    IN  /\ search = "channels"
        /\ \A ch \in selected : channels[ch].at \in {"done", "failed"}
        /\ CASE cancelled -> search' = "aborted" /\ UNCHANGED results
             [] ~cancelled /\ (\A ch \in selected : channels[ch].at = "failed") ->
                    search' = "insufficient" /\ UNCHANGED results
             [] OTHER ->
                    IF Cardinality(fused) <= RerankAbove
                    THEN search' = "parents" /\ \E order \in SetToSeqs(fused) : results' = Top(order)
                    ELSE search' = "rerank" /\ results' \in SetToSeqs(fused)
        /\ channels' = [ch \in Channels |-> Unselected]
        /\ UNCHANGED <<caller, live, servable, loaded, broken, cancelled, context>>

\* Scores of a model for every result, or the order there was.
Rerank ==
    /\ search = "rerank"
    /\ \/ /\ \E order \in SetToSeqs(ToSet(results)) : results' = Top(order)
          /\ UNCHANGED broken
       \/ /\ results' = Top(results)
          /\ broken' = broken \cup {"reranker"}
    /\ search' = "parents"
    /\ UNCHANGED <<caller, live, servable, channels, loaded, cancelled, context>>

\* The parents are asked for with the caller's rights, active or not; one that is
\* not there counts as a failure.
LoadParents ==
    LET wanted == {Index[results[i]].parent : i \in DOMAIN results} \ {"none"}
        there == {p \in wanted \cap DOMAIN Index : Visible(p)}
    IN  /\ search = "parents"
        /\ \/ loaded' = there
           \/ wanted # {} /\ loaded' = {}
        /\ broken' = IF wanted \subseteq loaded' THEN broken ELSE broken \cup {"parents"}
        /\ search' = "found"
        /\ UNCHANGED <<caller, live, servable, channels, results, cancelled, context>>

-----------------------------------------------------------------------------
(* The context: a part per parent, cut to windows around what matched.       *)

ContextChunk(c) == IF Index[c].parent \in loaded THEN Index[c].parent ELSE c

ContextGroups ==
    FoldLeft(LAMBDA keys, c : IF Contains(keys, ContextChunk(c)) THEN keys
                                    ELSE Append(keys, ContextChunk(c)), << >>, results)

\* The results among some chunks, in their order.
ResultsAmong(some) ==
    FoldLeft(LAMBDA kept, c : IF c \in some THEN Append(kept, c) ELSE kept, << >>, results)

Matches(key) == ResultsAmong({c \in ToSet(results) : ContextChunk(c) = key})

\* A window with one more match, when it fits.
Taken(window, c, budget) ==
    LET cost == Index[c].len + (IF window.included # {} THEN 1 ELSE 0)
    IN  IF window.tokens + cost > budget THEN window
        ELSE [tokens |-> window.tokens + cost, included |-> window.included \cup {c}]

\* The matches that fit share the rest of the budget; without one the text is cut off.
ParentWindow(key, budget) ==
    LET chosen == FoldLeft(LAMBDA window, c : Taken(window, c, budget),
                           [tokens |-> 0, included |-> {}], Matches(key))
        n == Cardinality(chosen.included)
    IN  IF Index[key].len <= budget
        THEN [tokens |-> Index[key].len, included |-> ToSet(Matches(key))]
        ELSE IF n = 0 THEN [tokens |-> budget, included |-> {}]
        ELSE [chosen EXCEPT !.tokens = @ + n * ((budget - @) \div n)]

\* A header cites what its window includes.
Cited(key, window) == {c \in ToSet(Matches(key)) : c \in window.included}

\* Once a part does not fit, no later one is tried.
AddPart(made, key) ==
    LET budget == Min({MaxParent, made.left - Len(Matches(key)) - 1})
        window == ParentWindow(key, budget)
        cited == Cited(key, window)
        part == [tokens |-> window.tokens + Cardinality(cited) + 1, cited |-> cited,
                 text |-> key, holds |-> window.included]
    IN  IF made.over \/ budget <= 0 \/ part.tokens > made.left
        THEN [made EXCEPT !.over = TRUE]
        ELSE [made EXCEPT !.left = @ - part.tokens, !.parts = Append(@, part)]

\* A run that was aborted ends here, and one without evidence has nothing to answer from.
Assemble ==
    /\ search = "found"
    /\ CASE cancelled -> search' = "aborted" /\ UNCHANGED context
         [] ~cancelled /\ results = << >> -> search' = "insufficient" /\ UNCHANGED context
         [] OTHER ->
                /\ search' = "assembled"
                /\ context' = FoldLeft(AddPart, [left |-> MaxContext, parts |-> << >>, over |-> FALSE],
                                       ContextGroups).parts
    /\ UNCHANGED <<caller, live, servable, channels, results, loaded, broken, cancelled>>

-----------------------------------------------------------------------------
(* The compression: a block per piece of evidence, with a header of its own. *)

Uncompressed == FoldLeft(LAMBDA sum, c : sum + Index[c].len + 1, 0, results)

\* The model shortens each piece on its own; a call that fails, or whose answer has
\* citations, drops its piece.
CompressGroup(size) ==
    LET kept == ResultsAmong({c \in ToSet(results) : size[c] > 0})
    IN  [i \in DOMAIN kept |->
            [tokens |-> size[kept[i]] + 1, cited |-> {kept[i]}, text |-> kept[i],
             holds |-> {kept[i]}]]

ContextTokens(parts) == FoldLeft(LAMBDA sum, part : sum + part.tokens, 0, parts)

\* What fits is left alone; with no piece left, or still too much, the assembled context
\* stays. Only an abort ends the run.
Compress ==
    /\ search = "assembled"
    /\ search' = IF cancelled THEN "aborted" ELSE "ready"
    /\ IF cancelled \/ Uncompressed <= MaxContext
       THEN UNCHANGED context
       ELSE \E size \in [ToSet(results) -> 0 .. MaxBlock] :
                LET blocks == CompressGroup(size)
                IN  context' = IF blocks = << >> \/ ContextTokens(blocks) > MaxContext
                               THEN context ELSE blocks
    /\ UNCHANGED <<caller, live, servable, channels, results, loaded, broken, cancelled>>

RetrievalNext ==
    \/ ChangeActive \/ AbortSearch \/ BeginSearch \/ Embedded \/ GraphMatches
    \/ \E ch \in Channels : ChannelAnswers(ch) \/ ChannelFails(ch)
    \/ Fuse \/ Rerank \/ LoadParents \/ Assemble \/ Compress

-----------------------------------------------------------------------------
(* Property. *)

\* Whatever fails or is activated during a search, the context holds nothing of
\* another tenant or group, nothing of a version that could at no time of the search
\* be served, and no citation of a text it had to leave out; it keeps its limit, compressed
\* or not (filters per channel, parents looked up by the caller's rights, windows).
ContextIsPermitted ==
    /\ \A i \in DOMAIN results :
         /\ Visible(results[i]) /\ Index[results[i]].doc \in servable
    /\ \A p \in loaded : Visible(p)
    /\ \A i \in DOMAIN context :
         LET part == context[i]
         IN  /\ part.cited \subseteq ToSet(results)
             /\ \A c \in part.cited : Index[c].doc = Index[part.text].doc
             /\ part.cited \subseteq part.holds
    /\ ContextTokens(context) <= MaxContext
=============================================================================
