----------------------------- MODULE Documents -----------------------------
(***************************************************************************)
(* The knowledge base of an agent (app/knowledge, api/knowledge.py,        *)
(* SqlAgentDocsRepo): a document is cut into chunks, the chunks go to a    *)
(* remote store, and then a row registers the document.  The store and the *)
(* table are written by separate requests, either of which may fail; the   *)
(* store finds the chunks of a document by the name of its file.           *)
(*                                                                         *)
(* A text is the sequence of the lengths of its paragraphs.                *)
(***************************************************************************)
EXTENDS Naturals, Sequences, FiniteSets, SequencesExt

CONSTANTS Uploads,        \* documents somebody uploads, each once
          FileOf,         \* their file names
          TextOf,         \* their texts
          ChunkSize,      \* knowledge_chunk_chars, at least 200
          Overlap,        \* knowledge_chunk_overlap, at most half of it
          ListCap         \* records the store lists: limit=200

ASSUME DocumentsAssumption ==
  /\ TextOf \in [Uploads -> Seq(Nat \ {0})]
  /\ ChunkSize \in Nat \ {0} /\ Overlap \in 0..ChunkSize \div 2
  /\ ListCap \in Nat

-----------------------------------------------------------------------------
\* chunk_text.  A piece is a paragraph, or a part of one longer than a chunk.
Piece(i, from, to) == [par |-> i, from |-> from, to |-> to]
Length(piece) == piece.to - piece.from
Least(a, b) == IF a < b THEN a ELSE b

Cut(i, length) ==
  [k \in 1..((length + ChunkSize - 1) \div ChunkSize) |->
     Piece(i, (k - 1) * ChunkSize, Least(k * ChunkSize, length))]

\* The pieces of the first paragraphs, for any number of them.
PiecesUpTo(text) ==
  LET upTo[n \in 0..Len(text)] ==
        IF n = 0 THEN <<>> ELSE upTo[n - 1] \o Cut(n, text[n])
  IN  upTo
Pieces(text) == PiecesUpTo(text)[Len(text)]

\* A chunk: its length, and the pieces it holds whole.
Start == [done |-> <<>>, buf |-> [len |-> 0, holds |-> {}]]

\* One paragraph more: it joins the buffer, or the buffer is closed and its end
\* repeated before the paragraph.
Join(acc, piece) ==
  IF acc.buf.len > 0 /\ acc.buf.len + Length(piece) + 2 > ChunkSize
  THEN [done |-> Append(acc.done, acc.buf),
        buf  |-> [len |-> Length(piece) + (IF Overlap = 0 THEN 0
                                           ELSE Least(Overlap, acc.buf.len) + 2),
                  holds |-> {piece}]]
  ELSE [acc EXCEPT !.buf = [len |-> Length(piece) + (IF @.len > 0 THEN @.len + 2 ELSE 0),
                            holds |-> @.holds \cup {piece}]]

\* What the loop has after its first pieces.
Filled(pieces) ==
  LET after[n \in 0..Len(pieces)] ==
        IF n = 0 THEN Start ELSE Join(after[n - 1], pieces[n])
  IN  after

Chunks(text) ==
  LET all == Filled(Pieces(text))[Len(Pieces(text))]
  IN  IF all.buf.len > 0 THEN Append(all.done, all.buf) ELSE all.done

-----------------------------------------------------------------------------
VARIABLES
  records,    \* the store: chunks by document and number
  registry,   \* rows of agent_docs: document and number of chunks
  ingest,     \* where each upload is
  removal,    \* the deletion in progress: its row, the records it has left
  swept,      \* history: files a deletion has swept
  smooth      \* history: no request failed, no listing was cut short

documentsVars == <<records, registry, ingest, removal, swept, smooth>>

NoRemoval == [doc |-> {}, left |-> {}]

DocumentsInit ==
  /\ records = {} /\ registry = {} /\ swept = {}
  /\ ingest = [u \in Uploads |-> "new"]
  /\ removal = NoRemoval
  /\ smooth = TRUE

RecordsOf(u) == {[doc |-> u, chunk |-> i] : i \in DOMAIN Chunks(TextOf[u])}

\* upload_doc: an empty, oversized or unreadable file, or a text without
\* content, is refused.
RefuseUpload(u) ==
  /\ ingest[u] = "new"
  /\ ingest' = [ingest EXCEPT ![u] = "refused"]
  /\ UNCHANGED <<records, registry, removal, swept, smooth>>

\* insert_chunks: one request for all; it may fail after the store has kept
\* them.
InsertChunks(u) ==
  /\ ingest[u] = "new" /\ Chunks(TextOf[u]) # <<>>
  /\ \/ /\ records' = records \cup RecordsOf(u)
        /\ ingest' = [ingest EXCEPT ![u] = "inserted"]
        /\ UNCHANGED smooth
     \/ /\ records' \in {records, records \cup RecordsOf(u)}
        /\ ingest' = [ingest EXCEPT ![u] = "failed"]
        /\ smooth' = FALSE
  /\ UNCHANGED <<registry, removal, swept>>

\* docs.add, or the server stops first.
Register(u) ==
  /\ ingest[u] = "inserted"
  /\ \/ /\ registry' = registry \cup {u}
        /\ ingest' = [ingest EXCEPT ![u] = "done"]
        /\ UNCHANGED smooth
     \/ /\ ingest' = [ingest EXCEPT ![u] = "failed"]
        /\ smooth' = FALSE
        /\ UNCHANGED registry
  /\ UNCHANGED <<records, removal, swept>>

-----------------------------------------------------------------------------
\* delete_doc: the row, and the records the store lists, up to its limit, whose
\* marker names the file; the listing may fail, which is ignored.
StartRemoval(u) ==
  /\ removal = NoRemoval /\ u \in registry
  /\ \/ \E listed \in SUBSET records :
          /\ Cardinality(listed) = Least(ListCap, Cardinality(records))
          /\ removal' = [doc |-> {u}, left |-> {r \in listed : FileOf[r.doc] = FileOf[u]}]
          /\ smooth' = (smooth /\ listed = records)
     \/ removal' = [doc |-> {u}, left |-> {}] /\ smooth' = FALSE
  /\ swept' = swept \cup {FileOf[u]}
  /\ UNCHANGED <<records, registry, ingest>>

\* The store removes one record, or fails to, which is ignored as well.
RemoveRecord ==
  \E r \in removal.left :
    /\ removal' = [removal EXCEPT !.left = @ \ {r}]
    /\ \/ records' = records \ {r} /\ UNCHANGED smooth
       \/ smooth' = FALSE /\ UNCHANGED records
    /\ UNCHANGED <<registry, ingest, swept>>

\* Mutant: the row goes before the records.
UnregisterAtOnce ==
  /\ removal.doc # {}
  /\ registry' = registry \ removal.doc
  /\ removal' = NoRemoval
  /\ UNCHANGED <<records, ingest, swept, smooth>>

\* docs.delete.
Unregister ==
  /\ removal.doc # {} /\ removal.left = {}
  /\ registry' = registry \ removal.doc
  /\ removal' = NoRemoval
  /\ UNCHANGED <<records, ingest, swept, smooth>>

DocumentsNext ==
  \/ \E u \in Uploads : RefuseUpload(u) \/ InsertChunks(u) \/ Register(u) \/ StartRemoval(u)
  \/ RemoveRecord \/ Unregister

DocumentsSpec == DocumentsInit /\ [][DocumentsNext]_documentsVars

-----------------------------------------------------------------------------
\* Every part of a text is in a chunk of its own, and no chunk is longer than
\* its size and the repeated end.
WellCut(text) ==
  LET chunks == Chunks(text)
  IN  /\ UNION {chunks[i].holds : i \in DOMAIN chunks} = ToSet(Pieces(text))
      /\ \A i, j \in DOMAIN chunks : i # j => chunks[i].holds \cap chunks[j].holds = {}
      /\ \A i \in DOMAIN chunks : chunks[i].len <= ChunkSize + Overlap + 2

\* The text of a listed document can be found: part by part it is in the store,
\* unless a document of the same file name is or was being deleted, whatever
\* requests failed.  And while none failed and no listing was cut short, what
\* the store finds is listed, or about to be (knowledge/service.py 25-34, 59-68,
\* store.py 58-70, 94-115, chunker.py 119-153).
StoreMatchesRegistry ==
  /\ \A u \in registry : /\ WellCut(TextOf[u])
                         /\ FileOf[u] \notin swept => RecordsOf(u) \subseteq records
  /\ smooth => \A r \in records : r.doc \in registry \/ ingest[r.doc] = "inserted"
=============================================================================
