----------------------------- MODULE Retrieval -----------------------------
(***************************************************************************)
(* The knowledge base of the chat: Retriever of backend/rag/retriever.py   *)
(* over InMemoryVectorStore of backend/rag/store.py.  The chunks of a      *)
(* document are indexed when the server starts and searched for every      *)
(* question.                                                               *)
(*                                                                         *)
(* A word is a line of the document that holds it: every piece of a        *)
(* paragraph holds the word of that paragraph, every chunk of a section    *)
(* holds the word of its heading, and every chunk holds that of the title, *)
(* which is word 0.  Scores are floating point numbers; what is kept of    *)
(* them is that they put the candidates into some order.                   *)
(***************************************************************************)
EXTENDS Chunker

CONSTANTS
  TopK, \* settings.RAG_TOP_K
  TopN  \* settings.RAG_RERANK_TOP_N

ASSUME TopAssumption == TopK \in Nat /\ TopN \in Nat

VARIABLES
  indexed,  \* whether index_documents has run
  inverted  \* store._inverted: the chunks that hold a word

retrievalVars == <<chunkerVars, indexed, inverted>>

Words == {0} \cup DOMAIN text

\* tokenize(chunk.text + " " + chunk.section + " " + chunk.doc_title)
TokensOf(chunk) ==
  {chunk.text[j][1] : j \in Written(chunk.text)} \cup {chunk.section, 0}

RetrievalInit ==
  /\ ChunkerInit
  /\ indexed = FALSE
  /\ inverted = [w \in Words |-> {}]

Chunk == ChunkerNext /\ UNCHANGED <<indexed, inverted>>

\* index_documents, after chunk_document: store.add.
Index ==
  /\ Chunked /\ ~indexed
  /\ indexed' = TRUE
  /\ inverted' = [w \in Words |-> {n \in DOMAIN chunks : w \in TokensOf(chunks[n])}]
  /\ UNCHANGED chunkerVars

\* store.search: the chunks that hold a word of the query, the best k.
Search(query, k) ==
  LET found == UNION {inverted[w] : w \in query \cap Words}
  IN UNION {Injection(1 .. n, found) : n \in 0 .. k}

\* retrieve: of the candidates for the question and its history the rerank keeps
\* some, in an order of its own.
Retrieve(query, history) == Search(query \cup history, Min({TopK, TopN}))
=============================================================================
