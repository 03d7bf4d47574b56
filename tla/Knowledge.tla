----------------------------- MODULE Knowledge -----------------------------
(***************************************************************************)
(* The knowledge base of a tenant: documents are uploaded, split, embedded   *)
(* and stored (api/handler/rag_handler.go, internal/knowledge), and searched  *)
(* by requests and by agents, while other uploads are in progress.           *)
(*                                                                         *)
(* All workspaces of a tenant share one Milvus collection, which the first    *)
(* upload creates.  The process connects to Milvus once, when it starts, and  *)
(* goes on without a connection when that fails.                            *)
(***************************************************************************)
EXTENDS Chunker, Retrieval

CONSTANTS
    Docs,          \* uploads; each has a fresh document id (uuid.New)
    Texts,         \* Texts[d]: the texts document d may have
    Queries,       \* searches that may be in flight at a time
    MaxChunks,     \* chunks that fit into the memory of the process
    MaxRestarts,   \* bound on restarts of the process
    Nothing        \* no text

ASSUME KnowledgeAssumption ==
    /\ \A d \in Docs : Texts[d] \subseteq Seq(Nat)
    /\ MaxChunks \in Nat
    /\ MaxRestarts \in Nat

VARIABLES
    alive,        \* the process runs
    connected,    \* VectorStore.client is set
    restarts,     \* restarts so far
    upload,       \* upload[d]: where the upload of d is
    fault,        \* documents whose upload met a failing service (history)
    collection,   \* the collection of the tenant exists
    inserted,     \* chunks in the collection, <<document, index>>
    flushed,      \* chunks that are flushed as well
    query         \* query[q]: the search q is serving

process == <<alive, connected, restarts>>
store == <<collection, inserted, flushed>>
vars == <<process, upload, fault, store, query>>

NoUpload == [pc |-> "idle", text |-> Nothing, todo |-> <<>>, pos |-> 0,
             brk |-> 1, single |-> FALSE, out |-> <<>>, n |-> 0]
NoQuery == [pc |-> "idle", mode |-> "none", found |-> <<>>, error |-> FALSE, sources |-> <<>>]

Answered == {"ok", "failed", "lost"}

Init == /\ alive = TRUE
        /\ connected \in BOOLEAN
        /\ restarts = 0
        /\ upload = [d \in Docs |-> NoUpload]
        /\ fault = {}
        /\ collection = FALSE
        /\ inserted = {}
        /\ flushed = {}
        /\ query = [q \in Queries |-> NoQuery]

-----------------------------------------------------------------------------
(* Splitting the document *)

\* What the pure functions of the chunker make of the texts, computed once.
AllTexts == UNION {Texts[d] : d \in Docs}
ParagraphsOf == [t \in AllTexts |-> ChunkByParagraphs(t)]
TextFits == [t \in AllTexts |-> Fits(t)]

At(d, pc) == alive /\ upload[d].pc = pc

\* The answer 500: the upload met a failing service.
FailUpload(d) ==
    /\ upload' = [upload EXCEPT ![d] = [NoUpload EXCEPT !.pc = "failed"]]
    /\ fault' = fault \cup {d}

\* UploadDocument and the start of IngestDocument: the file is parsed and SmartChunk
\* splits it into paragraphs; a single one is taken as a whole.
Upload(d, text) ==
    /\ At(d, "idle")
    /\ LET paragraphs == ParagraphsOf[text]
           single == Len(paragraphs) = 1
       IN  upload' = [upload EXCEPT ![d] =
                        [NoUpload EXCEPT !.pc = "chunk", !.text = text, !.single = single,
                                         !.todo = IF single THEN <<text>> ELSE paragraphs]]
    /\ UNCHANGED <<process, fault, store, query>>

\* The name has no known suffix, or the parser of its type refuses the data.
UploadUnreadable(d) ==
    /\ At(d, "idle")
    /\ FailUpload(d)
    /\ UNCHANGED <<process, store, query>>

\* A piece that fits is a chunk.
TakePiece(d) ==
    /\ At(d, "chunk")
    /\ upload[d].todo # <<>>
    /\ Len(Head(upload[d].todo)) <= MaxChunkSize
    /\ upload' = [upload EXCEPT ![d].todo = Tail(@),
                                ![d].out = Append(@, Head(upload[d].todo))]
    /\ UNCHANGED <<process, fault, store, query>>

\* A longer one goes through the loop of ChunkText, one iteration a step.
TakeWindow(d) ==
    /\ At(d, "chunk")
    /\ upload[d].todo # <<>>
    /\ LET piece == Head(upload[d].todo)
           w == Window(piece, upload[d].pos)
       IN  /\ Len(piece) > MaxChunkSize
           /\ Len(upload[d].out) + Len(w.add) <= MaxChunks
           /\ upload' = [upload EXCEPT
                ![d].out = @ \o w.add,
                ![d].pos = IF w.next < Len(piece) THEN w.next ELSE 0,
                ![d].todo = IF w.next < Len(piece) THEN @ ELSE Tail(@)]
    /\ UNCHANGED <<process, fault, store, query>>

\* A process that has no memory left for another chunk is killed.
OutOfMemory(d) ==
    /\ At(d, "chunk")
    /\ upload[d].todo # <<>>
    /\ Len(Head(upload[d].todo)) > MaxChunkSize
    /\ Len(upload[d].out) + Len(Window(Head(upload[d].todo), upload[d].pos).add) > MaxChunks
    /\ alive' = FALSE
    /\ UNCHANGED <<connected, restarts, upload, fault, store, query>>

\* All pieces are taken; a text that is still one chunk is split at its breaks.
EndPieces(d) ==
    /\ At(d, "chunk")
    /\ upload[d].todo = <<>>
    /\ upload' = [upload EXCEPT ![d] =
         IF @.single /\ Len(@.out) = 1
         THEN [@ EXCEPT !.pc = "breaks", !.out = <<>>, !.single = FALSE]
         ELSE [@ EXCEPT !.pc = "embed", !.single = FALSE]]
    /\ UNCHANGED <<process, fault, store, query>>

TakeBreak(d) ==
    /\ At(d, "breaks")
    /\ LET b == SemanticBreak(upload[d].text, upload[d].pos, upload[d].brk)
       IN  upload' = [upload EXCEPT ![d].out = @ \o b.add,
                                    ![d].brk = b.brk,
                                    ![d].pos = b.next,
                                    ![d].pc = IF b.more THEN "breaks" ELSE "embed"]
    /\ UNCHANGED <<process, fault, store, query>>

-----------------------------------------------------------------------------
(* Storing the chunks *)

Goto(d, pc) == upload' = [upload EXCEPT ![d].pc = pc]

\* EmbedBatch: no request at all for an empty document.
Embed(d) ==
    /\ At(d, "embed")
    /\ \/ /\ upload' = [upload EXCEPT ![d] = [NoUpload EXCEPT !.pc = "check",
                                                              !.n = Len(upload[d].out)]]
          /\ UNCHANGED fault
       \/ upload[d].out # <<>> /\ FailUpload(d)   \* an error, or a wrong number of vectors
    /\ UNCHANGED <<process, store, query>>

\* HasCollection; without a client the call panics, which gin.Recovery answers with 500.
CheckCollection(d) ==
    /\ At(d, "check")
    /\ \/ connected /\ Goto(d, IF collection THEN "insert" ELSE "create") /\ UNCHANGED fault
       \/ FailUpload(d)
    /\ UNCHANGED <<process, store, query>>

\* Mutant of CreateCollection: the collection of another upload is an error.
CreateCollectionStrict(d) ==
    /\ At(d, "create")
    /\ \/ ~collection /\ collection' = TRUE /\ Goto(d, "insert") /\ UNCHANGED fault
       \/ /\ collection
          /\ upload' = [upload EXCEPT ![d] = [NoUpload EXCEPT !.pc = "failed"]]
          /\ UNCHANGED <<collection, fault>>
       \/ FailUpload(d) /\ UNCHANGED collection
    /\ UNCHANGED <<process, inserted, flushed, query>>

\* Another upload may have created it since: "already exists" is no error.
CreateCollection(d) ==
    /\ At(d, "create")
    /\ \/ collection' = TRUE /\ Goto(d, "insert") /\ UNCHANGED fault
       \/ FailUpload(d) /\ UNCHANGED collection
    /\ UNCHANGED <<process, inserted, flushed, query>>

ChunksOf(d) == {d} \X (0 .. upload[d].n - 1)

\* A failing Insert may have stored the chunks or not; one without chunks is no call.
Insert(d) ==
    /\ At(d, "insert")
    /\ \/ inserted' = inserted \cup ChunksOf(d) /\ Goto(d, "flush") /\ UNCHANGED fault
       \/ /\ upload[d].n > 0
          /\ inserted' \in {inserted, inserted \cup ChunksOf(d)}
          /\ FailUpload(d)
    /\ UNCHANGED <<process, collection, flushed, query>>

\* A flush is for the whole collection; when it fails the chunks stay in it.
Flush(d) ==
    /\ At(d, "flush")
    /\ \/ flushed' = inserted /\ Goto(d, "graph") /\ UNCHANGED fault
       \/ FailUpload(d) /\ UNCHANGED flushed
    /\ UNCHANGED <<process, collection, inserted, query>>

\* The label of the document node holds the id of the tenant, a uuid, whose dashes
\* validateCypherIdentifier refuses: no node is made, and the upload is answered 200
\* with the error in its list.
GraphNodes(d) ==
    /\ At(d, "graph")
    /\ Goto(d, "ok")
    /\ UNCHANGED <<process, fault, store, query>>

-----------------------------------------------------------------------------
(* Searching *)

\* The searches a query makes: those of the modes vector, keyword and hybrid of
\* RAGService.Query, and one search for each of two workspaces of an agent.
Parts(mode) == CASE mode = "vector"  -> {"vector"}
                 [] mode = "keyword" -> {"keyword"}
                 [] mode = "hybrid"  -> {"vector", "keyword"}
                 [] mode = "agent"   -> {"workspace 1", "workspace 2"}
                 [] OTHER            -> {}

\* Searches that run in a goroutine of their own, where a panic is not recovered.
Detached(mode) == mode \in {"hybrid", "agent"}

Limit(mode) == IF mode = "hybrid" THEN 2 * TopK ELSE TopK

StartQuery(q, mode) ==
    /\ alive
    /\ query[q].pc = "idle"
    /\ query' = [query EXCEPT ![q] = [NoQuery EXCEPT !.pc = "search", !.mode = mode]]
    /\ UNCHANGED <<process, upload, fault, store>>

Pending(q) == Parts(query[q].mode) \ DOMAIN query[q].found

\* What was found so far, and the result of one more part.
With(found, part, result) ==
    [p \in DOMAIN found \cup {part} |-> IF p = part THEN result ELSE found[p]]

\* One search: the chunks Milvus shows it are those flushed, or all.
Search(q, part) ==
    /\ alive
    /\ query[q].pc = "search"
    /\ part \in Pending(q)
    /\ connected
    /\ \/ /\ collection
          /\ \E Visible \in {flushed, inserted} :
             \E r \in (IF part = "keyword" THEN KeywordRankings(Visible, Limit(query[q].mode))
                                           ELSE Rankings(Visible, Limit(query[q].mode))) :
               query' = [query EXCEPT ![q].found = With(@, part, r)]
       \/ query' = [query EXCEPT ![q].found = With(@, part, <<>>), ![q].error = TRUE]
    /\ UNCHANGED <<process, upload, fault, store>>

\* Without a client a search panics: the handler answers 500, a goroutine takes the
\* process with it.
SearchPanics(q) ==
    /\ alive
    /\ query[q].pc = "search"
    /\ Pending(q) # {}
    /\ ~connected
    /\ IF Detached(query[q].mode)
       THEN alive' = FALSE /\ UNCHANGED query
       ELSE alive' = TRUE /\ query' = [query EXCEPT ![q] = NoQuery]
    /\ UNCHANGED <<connected, restarts, upload, fault, store>>

\* The results that may come of the parts; an agent gets those of both workspaces.
Sources(q) ==
    LET f == query[q].found
    IN  CASE query[q].mode = "hybrid" -> HybridResults(f["vector"], f["keyword"])
          [] query[q].mode = "agent"  -> {f["workspace 1"] \o f["workspace 2"]}
          [] OTHER                    -> {f[p] : p \in DOMAIN f}

\* All parts have returned.  One that failed fails the query, but an agent is content
\* with the workspace that answered.
Combine(q) ==
    /\ alive
    /\ query[q].pc = "search"
    /\ Pending(q) = {}
    /\ \E s \in Sources(q) :
         query' = [query EXCEPT ![q] = IF @.error /\ (@.mode # "agent" \/ s = <<>>)
                                       THEN NoQuery
                                       ELSE [@ EXCEPT !.pc = "result", !.sources = s]]
    /\ UNCHANGED <<process, upload, fault, store>>

\* The agent reads the texts.  The handler of a request copies the sources into a
\* slice of length zero, which panics (500) unless there are none.
EndQuery(q) ==
    /\ alive
    /\ query[q].pc = "result"
    /\ query' = [query EXCEPT ![q] = NoQuery]
    /\ UNCHANGED <<process, upload, fault, store>>

-----------------------------------------------------------------------------
(* The process starts again: requests in flight are gone, the store remains. *)
Restart ==
    /\ ~alive
    /\ restarts < MaxRestarts
    /\ alive' = TRUE
    /\ restarts' = restarts + 1
    /\ connected' \in BOOLEAN
    /\ upload' = [d \in Docs |-> IF upload[d].pc \in Answered \cup {"idle"} THEN upload[d]
                                 ELSE [NoUpload EXCEPT !.pc = "lost"]]
    /\ query' = [q \in Queries |-> NoQuery]
    /\ UNCHANGED <<fault, store>>

-----------------------------------------------------------------------------
UploadStep(d) ==
    \/ TakePiece(d) \/ TakeWindow(d) \/ OutOfMemory(d) \/ EndPieces(d) \/ TakeBreak(d)
    \/ Embed(d) \/ CheckCollection(d) \/ CreateCollection(d) \/ Insert(d) \/ Flush(d)
    \/ GraphNodes(d)

QueryStep(q) ==
    \/ \E p \in Pending(q) : Search(q, p)
    \/ SearchPanics(q) \/ Combine(q) \/ EndQuery(q)

Modes == {"vector", "keyword", "hybrid", "agent"}

Next ==
    \/ \E d \in Docs : \E t \in Texts[d] : Upload(d, t)
    \/ \E d \in Docs : UploadUnreadable(d) \/ UploadStep(d)
    \/ \E q \in Queries : \E m \in Modes : StartQuery(q, m)
    \/ \E q \in Queries : QueryStep(q)
    \/ Restart

Spec == Init /\ [][Next]_vars

\* A handler that is running goes on, and the services it calls answer, if only with
\* an error.
FairSpec == Spec /\ \A d \in Docs : WF_vars(UploadStep(d))

-----------------------------------------------------------------------------
(* Properties *)

\* The chunks with a ruler, or none, after each of them hold the letters of the text.
WithoutRulers(out, text) ==
    \E gaps \in [DOMAIN out -> {<<>>} \cup ToSet(Rulers)] :
        Letters(FlattenSeq([i \in DOMAIN out |-> out[i] \o gaps[i]])) = Letters(text)

\* The chunks of a document that fits are no longer than the maximum and hold its
\* letters, each once and in their order, but for whole rulers, each right after a chunk of
\* a document that is a single paragraph: ChunkBySemanticBreaks drops those it cuts at
\* (SmartChunk).
NothingLost ==
    \A d \in Docs : LET u == upload[d] IN
      u.pc = "embed" /\ TextFits[u.text] =>
        /\ \/ Letters(FlattenSeq(u.out)) = Letters(u.text)
           \/ Len(ParagraphsOf[u.text]) = 1 /\ WithoutRulers(u.out, u.text)
        /\ \A i \in DOMAIN u.out : Len(u.out[i]) <= MaxChunkSize

\* What an answer says of an upload is true, whatever other uploads do meanwhile: 200
\* means that its chunks are flushed, 500 that a service failed it; two uploads that
\* find no collection do not fail each other (IngestDocument).
AnswersAreTrue ==
    \A d \in Docs :
      /\ upload[d].pc = "ok" => ChunksOf(d) \subseteq flushed
      /\ upload[d].pc = "failed" => d \in fault

\* A chunk that both searches of a hybrid query found is not displaced by one that a
\* single search found, wherever they ranked the two (HybridSearch, topK up to 30).
FoundByBothFirst ==
    \A q \in Queries : LET r == query[q] IN
      r.pc = "result" /\ r.mode = "hybrid" =>
        LET Both == ToSet(r.found["vector"]) \cap ToSet(r.found["keyword"])
        IN  \/ ToSet(r.sources) \subseteq Both
            \/ /\ Both \subseteq ToSet(r.sources)
               /\ \A i, j \in DOMAIN r.sources :
                    r.sources[i] \in Both /\ r.sources[j] \notin Both => i < j

\* The upload of a document that fits is answered, unless the process dies.  For a
\* longer one the loop of ChunkText has no end: its last window starts OverlapSize
\* before the end of the text, again and again.
UploadReturns ==
    \A d \in Docs : (upload[d].pc = "chunk" /\ TextFits[upload[d].text])
                       ~> (upload[d].pc \in Answered \/ ~alive)
=============================================================================
