------------------------------ MODULE Retrieval ------------------------------
(***************************************************************************)
(* The index of documents (src/lightworker/rag.py): one document, indexed  *)
(* and removed by several processes.                                       *)
(*                                                                         *)
(* Every request and every run has a RAGIndex of its own, so its lock      *)
(* orders nothing here; what orders the writers is SQLite.  Python opens a *)
(* transaction at the first statement that writes: the queries before it   *)
(* are steps of their own, and everything from it to the commit is one.    *)
(* The index belongs to the repository, and a run has its own copy of the  *)
(* file, so every writer may bring another text.                           *)
(*                                                                         *)
(* A text is its length and the places where a paragraph or a sentence     *)
(* ends; a chunk is the span it covers.                                    *)
(***************************************************************************)
EXTENDS Naturals, FiniteSets

CONSTANTS
  Clients,     \* who indexes and removes: a request, a run
  Texts,       \* the versions of the file: [length, breaks]
  Size,        \* characters of a chunk
  Overlap,     \* chunk_overlap_tokens, in characters
  MaxWrites    \* bound: rows get new identifiers, a write each

ASSUME RetrievalAssumption ==
  /\ Texts \subseteq [length : Nat, breaks : SUBSET Nat]
  /\ Size \in Nat \ {0} /\ Overlap \in Nat /\ MaxWrites \in Nat

VARIABLES
  document,    \* the row of rag_documents: at most one, UNIQUE(scope, path)
  chunks,      \* rag_chunks
  fts,         \* the identifiers in rag_fts
  embeddings,  \* the identifiers in rag_embeddings
  client,      \* each client's call
  embeds,      \* embeddings_enabled
  writes       \* writes so far: a write numbers the rows it makes

indexVars == <<document, chunks, fts, embeddings, client, embeds, writes>>

-----------------------------------------------------------------------------
Least(a, b)    == IF a < b THEN a ELSE b
Greatest(a, b) == IF a > b THEN a ELSE b
Latest(S)      == CHOOSE x \in S : \A y \in S : y <= x

(* Where the chunk that starts at a cursor ends: at the last break of its  *)
(* second half, if it has one.                                             *)
ChunkEnd(text, cursor) ==
  LET full  == Least(cursor + Size, text.length)
      after == {b \in text.breaks : b > cursor + (Size \div 2) /\ b < full}
  IN IF full < text.length /\ after # {} THEN Latest(after) + 1 ELSE full

(* (faulty) As if every chunk were as long as it may be. *)
NextCursorOfFull(cursor, end) == Greatest(cursor + Size - Overlap, cursor + 1)
NextCursor(cursor, end) ==
  Greatest(IF end > Overlap THEN end - Overlap ELSE 0, cursor + 1)

(* The chunks of a text from a cursor on, by the cursor. *)
ChunksFrom(text) ==
  LET from[c \in 0 .. text.length] ==
        LET e == ChunkEnd(text, c)
        IN {[first |-> c, last |-> e - 1]}
             \cup IF e >= text.length THEN {} ELSE from[NextCursor(c, e)]
  IN from

Chunks(text) == IF text.length = 0 THEN {} ELSE ChunksFrom(text)[0]

-----------------------------------------------------------------------------
NoDocument == [id |-> 0, text |-> [length |-> 0, breaks |-> {}]]
NoRequest  == [stage |-> "none", text |-> NoDocument.text, id |-> 0, old |-> {}, embedded |-> FALSE]

IndexInit ==
  /\ document = NoDocument /\ chunks = {} /\ fts = {} /\ embeddings = {}
  /\ client = [c \in Clients |-> NoRequest]
  /\ embeds \in BOOLEAN
  /\ writes = 0

RowIds(rows)      == {r.id : r \in rows}
RowsOf(id)        == {r \in chunks : r.document = id}
AtStage(c, stage) == client[c].stage = stage
Store             == <<document, chunks, fts, embeddings, writes, embeds>>

(* A file is read, and its text compared with the indexed one.  It is left *)
(* alone when it is the same and nothing misses its vector.                *)
Unchanged(text) ==
  /\ document.id # 0 /\ document.text = text
  /\ embeds => RowIds(RowsOf(document.id)) \subseteq embeddings

Ingest(c, text) ==
  /\ AtStage(c, "none") /\ ~Unchanged(text)
  /\ client' = [client EXCEPT ![c] = [NoRequest EXCEPT !.stage = "embed", !.text = text]]
  /\ UNCHANGED Store

(* The provider gives a vector for every chunk, or the file is indexed     *)
(* without.                                                                *)
Embed(c) ==
  /\ AtStage(c, "embed")
  /\ \E got \in {FALSE, embeds /\ client[c].text.length > 0} :
       client' = [client EXCEPT ![c].stage = "find", ![c].embedded = got]
  /\ UNCHANGED Store

(* The queries before the first statement that writes. *)
Find(c) ==
  /\ AtStage(c, "find")
  /\ client' = [client EXCEPT ![c].id = document.id,
                              ![c].stage = IF document.id = 0 THEN "write" ELSE "old"]
  /\ UNCHANGED Store

ListOld(c) ==
  /\ AtStage(c, "old") \/ AtStage(c, "removeOld")
  /\ client' = [client EXCEPT ![c].old = RowIds(RowsOf(client[c].id)),
                              ![c].stage = IF @ = "old" THEN "write" ELSE "delete"]
  /\ UNCHANGED Store

(* (faulty) Only the chunks that were listed. *)
GoneListed(c) == {r \in chunks : r.id \in client[c].old}
(* The chunks that go: all the document has by now. *)
Gone(c) == RowsOf(client[c].id)

Owner(c) == IF client[c].id = 0 THEN writes + 1 ELSE client[c].id
NewRows(c) ==
  {[id |-> <<writes + 1, s.first>>, document |-> Owner(c), first |-> s.first, last |-> s.last] :
     s \in Chunks(client[c].text)}

(* The first index of a file; somebody may have been faster, and the row   *)
(* that is there already refuses the new one.                              *)
Insert(c) ==
  /\ AtStage(c, "write") /\ client[c].id = 0
  /\ client' = [client EXCEPT ![c] = NoRequest]
  /\ IF document.id # 0 THEN UNCHANGED Store
     ELSE /\ writes < MaxWrites /\ writes' = writes + 1
          /\ document' = [id |-> writes + 1, text |-> client[c].text]
          /\ chunks' = chunks \cup NewRows(c)
          /\ fts' = fts \cup RowIds(NewRows(c))
          /\ embeddings' = embeddings \cup IF client[c].embedded THEN RowIds(NewRows(c)) ELSE {}
          /\ UNCHANGED embeds

(* A new text of a document that was there when it was looked for.         *)
Replace(c) ==
  /\ AtStage(c, "write") /\ client[c].id # 0
  /\ writes < MaxWrites /\ writes' = writes + 1
  /\ document' = IF document.id = client[c].id THEN [document EXCEPT !.text = client[c].text]
                                               ELSE document
  /\ chunks' = (chunks \ Gone(c)) \cup NewRows(c)
  /\ fts' = (fts \ client[c].old) \cup RowIds(NewRows(c))
  /\ embeddings' = (embeddings \ client[c].old)
                     \cup IF client[c].embedded THEN RowIds(NewRows(c)) ELSE {}
  /\ client' = [client EXCEPT ![c] = NoRequest]
  /\ UNCHANGED embeds

(* remove: the same queries, then one transaction.                         *)
Remove(c) ==
  /\ AtStage(c, "none") /\ document.id # 0
  /\ client' = [client EXCEPT ![c] = [NoRequest EXCEPT !.stage = "removeOld", !.id = document.id]]
  /\ UNCHANGED Store

Delete(c) ==
  /\ AtStage(c, "delete")
  /\ document' = IF document.id = client[c].id THEN NoDocument ELSE document
  /\ chunks' = chunks \ RowsOf(client[c].id)
  /\ fts' = fts \ client[c].old
  /\ embeddings' = embeddings \ client[c].old
  /\ client' = [client EXCEPT ![c] = NoRequest]
  /\ UNCHANGED <<embeds, writes>>

(* A process dies: what it had not committed never was. *)
ClientDies(c) ==
  /\ ~AtStage(c, "none")
  /\ client' = [client EXCEPT ![c] = NoRequest]
  /\ UNCHANGED Store

IndexNext ==
  \E c \in Clients :
    \/ \E text \in Texts : Ingest(c, text)
    \/ Embed(c) \/ Find(c) \/ ListOld(c) \/ Insert(c) \/ Replace(c)
    \/ Remove(c) \/ Delete(c) \/ ClientDies(c)

IndexSpec == IndexInit /\ [][IndexNext]_indexVars

-----------------------------------------------------------------------------
(* What a search can find: rows of both tables, by words; by meaning too,  *)
(* where the provider answers and there are vectors.                       *)
Lexical  == {r \in chunks : r.id \in fts}
Semantic == {r \in chunks : r.id \in embeddings}
Hits(answers) == IF embeds /\ answers THEN Lexical \cup Semantic ELSE Lexical

Covered(spans) == UNION {s.first .. s.last : s \in spans}

(* Whatever two writers do at the same time, a search finds the recorded   *)
(* text of the document, the whole of it and nothing of another version,   *)
(* with the provider or without (rag.py, _ingest_file, _chunk, search).    *)
FindsWhatIsIndexed ==
  document.id # 0 =>
    \A answers \in BOOLEAN :
      LET found == {[first |-> r.first, last |-> r.last] :
                      r \in {h \in Hits(answers) : h.document = document.id}}
      IN /\ found = Chunks(document.text)
         /\ Covered(found) = 0 .. document.text.length - 1
         /\ Cardinality({h \in Hits(answers) : h.document = document.id}) = Cardinality(found)

(* rag_remove: "Remove one document and all of its chunks from the scoped  *)
(* RAG index."  What is found belongs to a document that is listed.        *)
RemovesEveryChunk == \A r \in Hits(TRUE) : r.document = document.id
=============================================================================
