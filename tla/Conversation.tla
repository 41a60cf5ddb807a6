----------------------------- MODULE Conversation -----------------------------
(***************************************************************************)
(* One conversation of one signed-in user: the page (web/app.js), the turns *)
(* it starts (api/chat.py, ChatEngine.stream), its messages (SqlMemory),    *)
(* its line in the sidebar (SqlConvMetaRepo), renaming and deletion         *)
(* (api/history.py).                                                        *)
(*                                                                         *)
(* A turn reads the history, has the model answer, appends the question,    *)
(* appends the answer, then looks for the sidebar row and writes it: five   *)
(* transactions, each of them a step.  The turn of a conversation is not    *)
(* locked out by another one.  The page defers a deletion that is asked     *)
(* for while it believes that a turn is running.                            *)
(*                                                                         *)
(* Upsets names what may disturb a turn:                                    *)
(*   overlap  the user sends before the last turn has ended (Enter works    *)
(*            although the send button is disabled)                         *)
(*   handoff  a reply passes the message to another agent and the page      *)
(*            submits it again                                              *)
(*   loss     the connection of a turn breaks, the server goes on           *)
(*   append   a write of the turn fails                                     *)
(*   crash    the server stops and starts again                             *)
(*   agent    an agent that answers here is deleted, and with it what it    *)
(*            has written and the sidebar row that names it                 *)
(* Text is abstract: a message is its role and the turn it belongs to.      *)
(***************************************************************************)
EXTENDS Naturals, Sequences, FiniteSets

CONSTANTS
  MaxTurns,      \* turns the page sends
  MaxRenames,    \* rename requests
  HistoryLimit,  \* memory_history_limit: messages a turn reads
  Upsets,
  Theirs         \* turns that the agent to be deleted answers, while it is there

UpsetNames == {"overlap", "handoff", "loss", "append", "crash", "agent"}

ASSUME ConversationAssumption ==
  /\ MaxTurns \in Nat \ {0}
  /\ MaxRenames \in Nat
  /\ HistoryLimit \in Nat \ {0}
  /\ Upsets \subseteq UpsetNames
  /\ Theirs \subseteq 1..MaxTurns

Turns == 1..MaxTurns
Titles == 0..MaxRenames          \* 0: no title
RowIds == {1, 2}                 \* a new row may reuse the id of a deleted one

Question(n) == [role |-> "user", turn |-> n]
Answer(n) == [role |-> "assistant", turn |-> n]
Messages == [role : {"user", "assistant"}, turn : Turns]
NoRow == [id |-> 0, title |-> 0, theirs |-> FALSE]

\* Where a turn is: sent with a message (asked) or by opening an agent
\* (opened), the reply in progress, about to append the question, the answer,
\* about to look for the sidebar row, about to write it, over.
Running == {"asked", "opened", "replying", "question", "answer", "list", "store"}
Places == Running \cup {"unsent", "closed", "crashed"}

VARIABLES
  log,       \* table messages, the rows of this conversation
  row,       \* table conv_meta, its row; whether it names the agent to be deleted
  at,        \* at[n]: where turn n is
  seen,      \* seen[n]: the history turn n read
  said,      \* said[n]: "text", "nothing" or "handoff"
  found,     \* found[n]: id of the sidebar row turn n found, or 0
  ren,       \* the rename request: where it is, the row it found
  renamed,   \* renames asked for; their number is the title asked for
  title,     \* the title the last successful rename gave
  erase,     \* the DELETE request
  watched,   \* turns whose stream the page is reading
  marked,    \* page: state.streaming has the conversation
  pending,   \* page: state.pendingDelete has it
  dropped,   \* the user has deleted it
  broken,    \* turns hit by a failed write or a crash
  gone,      \* the agent of Theirs has been deleted
  cut,       \* history: its turns that had written when it was
  unlisted   \* history: turns whose sidebar row went with it

turnVars == <<at, seen, said, found, broken>>
renVars == <<ren, renamed, title>>
pageVars == <<watched, marked, pending, dropped>>
agentVars == <<gone, cut, unlisted>>
vars == <<log, row, turnVars, renVars, erase, pageVars, agentVars>>

Init ==
  /\ log = <<>> /\ row = NoRow
  /\ at = [n \in Turns |-> "unsent"]
  /\ seen = [n \in Turns |-> <<>>]
  /\ said = [n \in Turns |-> "nothing"]
  /\ found = [n \in Turns |-> 0]
  /\ ren = [at |-> "idle", found |-> 0] /\ renamed = 0 /\ title = 0
  /\ erase = "none"
  /\ watched = {} /\ marked = FALSE /\ pending = FALSE /\ dropped = FALSE
  /\ broken = {} /\ gone = FALSE /\ cut = {} /\ unlisted = {}

\* The first turn not yet sent is the next one.
IsNext(n) == at[n] = "unsent" /\ \A m \in Turns : m < n => at[m] # "unsent"

(***************************************************************************)
(* The page                                                                *)
(***************************************************************************)
\* The chat form, or _triggerAgentAutoStart when the user opens an agent.
Send(n) ==
  /\ ~dropped /\ IsNext(n)
  /\ "overlap" \in Upsets \/ watched = {}
  /\ \E place \in {"asked", "opened"} : at' = [at EXCEPT ![n] = place]
  /\ watched' = watched \cup {n}
  /\ marked' = TRUE
  /\ UNCHANGED <<log, row, seen, said, found, broken, renVars, erase, pending, dropped, agentVars>>

\* finishStream: the mark goes, a deferred deletion is sent.
FinishStream ==
  /\ marked' = FALSE /\ pending' = FALSE
  /\ erase' = IF pending THEN "messages" ELSE erase

\* The stream of turn n ends and nothing is submitted again: there was no
\* handoff, or the user has left or deleted the conversation.
StreamEnds(n) ==
  /\ n \in watched /\ at[n] \in {"closed", "crashed"}
  /\ watched' = watched \ {n}
  /\ FinishStream
  /\ UNCHANGED <<log, row, turnVars, renVars, dropped, agentVars>>

\* After a handoff the page submits the message to the other agent, which
\* marks the conversation again; the finally of the first turn comes last.
HandOff(n) ==
  /\ n \in watched /\ at[n] = "closed" /\ said[n] = "handoff" /\ ~dropped
  /\ \E m \in Turns :
       /\ IsNext(m)
       /\ at' = [at EXCEPT ![m] = "asked"]
       /\ watched' = (watched \ {n}) \cup {m}
  /\ FinishStream
  /\ UNCHANGED <<log, row, seen, said, found, broken, renVars, dropped, agentVars>>

\* fetch or reader.read() throws while the server goes on.
StreamLost(n) ==
  /\ "loss" \in Upsets
  /\ n \in watched /\ at[n] \in Running
  /\ watched' = watched \ {n}
  /\ FinishStream
  /\ UNCHANGED <<log, row, turnVars, renVars, dropped, agentVars>>

\* Mutant: the deletion is not deferred.
DeleteAtOnce ==
  /\ ~dropped /\ \E n \in Turns : at[n] # "unsent"
  /\ dropped' = TRUE /\ erase' = "messages"
  /\ UNCHANGED <<log, row, turnVars, renVars, watched, marked, pending, agentVars>>

\* deleteConv
DeleteConv ==
  /\ ~dropped /\ \E n \in Turns : at[n] # "unsent"
  /\ dropped' = TRUE
  /\ IF marked
     THEN pending' = TRUE /\ UNCHANGED erase
     ELSE erase' = "messages" /\ UNCHANGED pending
  /\ UNCHANGED <<log, row, turnVars, renVars, watched, marked, agentVars>>

(***************************************************************************)
(* A turn                                                                  *)
(***************************************************************************)
\* Mutant: one message fewer than the limit.
HistoryOneShort ==
  SubSeq(log, IF Len(log) >= HistoryLimit THEN Len(log) - HistoryLimit + 2 ELSE 1,
         Len(log))

\* Mutant: the oldest messages.
HistoryOldest ==
  SubSeq(log, 1, IF Len(log) > HistoryLimit THEN HistoryLimit ELSE Len(log))

\* get_history: the last HistoryLimit messages, in order.
History ==
  SubSeq(log, IF Len(log) > HistoryLimit THEN Len(log) - HistoryLimit + 1 ELSE 1,
         Len(log))

\* The agent is looked up and the history read; an agent that starts by itself
\* is not shown it.
ReadHistory(n) ==
  /\ at[n] \in {"asked", "opened"}
  /\ seen' = [seen EXCEPT ![n] = IF at[n] = "asked" THEN History ELSE <<>>]
  /\ at' = [at EXCEPT ![n] = "replying"]
  /\ UNCHANGED <<log, row, said, found, broken, renVars, erase, pageVars, agentVars>>

\* The events of the reply (Reply.tla) are consumed, to whatever end.
Replied(n) ==
  /\ at[n] = "replying"
  /\ \E s \in {"text", "nothing"} \cup ({"handoff"} \cap Upsets) :
       said' = [said EXCEPT ![n] = s]
  /\ at' = [at EXCEPT ![n] = "question"]
  /\ UNCHANGED <<log, row, seen, found, broken, renVars, erase, pageVars, agentVars>>

\* Mutant: only the model's own text counts.
AfterAnswer(n) == IF said[n] = "text" THEN "list" ELSE "closed"

\* Only a turn that has shown text gets a preview; the announcement of a
\* handoff counts.
Shown == {"text", "handoff"}
AfterReply(n) == IF said[n] \in Shown THEN "list" ELSE "closed"

\* Mutant: no answer is stored when the reply had no text.
AppendQuestionAlone(n) ==
  /\ at[n] = "question"
  /\ log' = Append(log, Question(n))
  /\ at' = [at EXCEPT ![n] = IF said[n] = "text" THEN "answer" ELSE AfterReply(n)]
  /\ UNCHANGED <<row, seen, said, found, broken, renVars, erase, pageVars, agentVars>>

AppendQuestion(n) ==
  /\ at[n] = "question"
  /\ log' = Append(log, Question(n))
  /\ at' = [at EXCEPT ![n] = "answer"]
  /\ UNCHANGED <<row, seen, said, found, broken, renVars, erase, pageVars, agentVars>>

\* The text, or a marker for a handoff or an interruption, but always one.
AppendAnswer(n) ==
  /\ at[n] = "answer"
  /\ log' = Append(log, Answer(n))
  /\ at' = [at EXCEPT ![n] = AfterReply(n)]
  /\ UNCHANGED <<row, seen, said, found, broken, renVars, erase, pageVars, agentVars>>

\* Mutant: each append ignores its own error.
FailEachAlone(n) ==
  /\ "append" \in Upsets
  /\ \/ at[n] = "question" /\ at' = [at EXCEPT ![n] = "answer"]
     \/ at[n] = "answer" /\ at' = [at EXCEPT ![n] = AfterReply(n)]
     \/ at[n] \in {"list", "store"} /\ at' = [at EXCEPT ![n] = "closed"]
  /\ broken' = broken \cup {n}
  /\ UNCHANGED <<log, row, seen, said, found, renVars, erase, pageVars, agentVars>>

\* An append raises and what follows it in finally is skipped; the handler of
\* the request still writes the preview.  An error of that write is ignored.
FailWrite(n) ==
  /\ "append" \in Upsets
  /\ \/ at[n] \in {"question", "answer"} /\ at' = [at EXCEPT ![n] = AfterReply(n)]
     \/ at[n] \in {"list", "store"} /\ at' = [at EXCEPT ![n] = "closed"]
  /\ broken' = broken \cup {n}
  /\ UNCHANGED <<log, row, seen, said, found, renVars, erase, pageVars, agentVars>>

\* upsert: the SELECT
FindRow(n) ==
  /\ at[n] = "list"
  /\ found' = [found EXCEPT ![n] = row.id]
  /\ at' = [at EXCEPT ![n] = "store"]
  /\ UNCHANGED <<log, row, seen, said, broken, renVars, erase, pageVars, agentVars>>

\* What a session that found the row f, or none, makes of the table.  The
\* unique index refuses a second row, an UPDATE of a row that has gone raises
\* (or, its id reused by then, hits the row of another conversation, which is
\* outside this module).  Only the columns that were assigned are written.
CanWrite(f) == row.id = f
\* Mutant: the columns are swapped.
WrittenSwapped(f, t, a) ==
  IF f = 0 THEN [id : {t}, title : RowIds, theirs : {a}]
           ELSE {[id |-> t, title |-> f, theirs |-> a]}

Written(f, t, a) ==
  IF f = 0 THEN [id : RowIds, title : {t}, theirs : {a}]
           ELSE {[id |-> f, title |-> t, theirs |-> a]}

\* Mutant: the row is written anew.
StoreWholeRow(n) ==
  /\ at[n] = "store"
  /\ IF CanWrite(found[n]) THEN row' \in Written(found[n], 0, n \in Theirs) ELSE UNCHANGED row
  /\ at' = [at EXCEPT ![n] = "closed"] /\ found' = [found EXCEPT ![n] = 0]
  /\ UNCHANGED <<log, seen, said, broken, renVars, erase, pageVars, agentVars>>

\* upsert: the INSERT or UPDATE, whose error chat.py ignores
StoreRow(n) ==
  /\ at[n] = "store"
  /\ IF CanWrite(found[n])
     THEN row' \in Written(found[n], row.title, n \in Theirs)
     ELSE UNCHANGED row
  /\ at' = [at EXCEPT ![n] = "closed"] /\ found' = [found EXCEPT ![n] = 0]
  /\ UNCHANGED <<log, seen, said, broken, renVars, erase, pageVars, agentVars>>

(***************************************************************************)
(* Renaming, deletion, restart                                             *)
(***************************************************************************)
\* PATCH title: the SELECT of rename
RenameFind ==
  /\ ~dropped /\ \E n \in Turns : at[n] # "unsent"
  /\ ren.at = "idle" /\ renamed < MaxRenames
  /\ ren' = [at |-> "write", found |-> row.id]
  /\ renamed' = renamed + 1
  /\ UNCHANGED <<log, row, turnVars, title, erase, pageVars, agentVars>>

\* Its INSERT or UPDATE; an error is answered with 500 and ignored by the page.
RenameWrite ==
  /\ ren.at = "write"
  /\ IF CanWrite(ren.found)
     THEN row' \in Written(ren.found, renamed, row.theirs) /\ title' = renamed
     ELSE UNCHANGED <<row, title>>
  /\ ren' = [at |-> "idle", found |-> 0]
  /\ UNCHANGED <<log, turnVars, renamed, erase, pageVars, agentVars>>

\* DELETE /history/{id}: the messages, then the row
EraseMessages ==
  /\ erase = "messages"
  /\ log' = <<>>
  /\ erase' = "row"
  /\ UNCHANGED <<row, turnVars, renVars, pageVars, agentVars>>

EraseRow ==
  /\ erase = "row"
  /\ row' = NoRow /\ title' = 0
  /\ erase' = "done"
  /\ UNCHANGED <<log, turnVars, ren, renamed, pageVars, agentVars>>

\* SqlAgentRepo.delete, of an agent that has answered here: the messages of its
\* turns go, the others stay in their order, and the row goes if it names the
\* agent, which is the one whose turn wrote it last.  Its running turns go on.
Kept == {i \in 1..Len(log) : log[i].turn \notin Theirs}
DeleteAgent ==
  /\ "agent" \in Upsets /\ ~gone
  /\ \E n \in Theirs : at[n] \notin {"unsent", "asked", "opened"}
  /\ gone' = TRUE
  /\ \E from \in [1..Cardinality(Kept) -> Kept] :
       /\ \A i, j \in DOMAIN from : i < j => from[i] < from[j]
       /\ \A k \in Kept : \E i \in DOMAIN from : from[i] = k
       /\ log' = [i \in DOMAIN from |-> log[from[i]]]
  /\ cut' = {n \in Theirs : at[n] \notin {"unsent", "asked", "opened", "replying", "question"}}
  /\ IF row.theirs
     THEN /\ row' = NoRow /\ title' = 0
          /\ unlisted' = {n \in Turns : at[n] = "closed" \/ (at[n] = "store" /\ found[n] # 0)}
     ELSE UNCHANGED <<row, title, unlisted>>
  /\ UNCHANGED <<turnVars, ren, renamed, erase, pageVars>>

\* Everything in memory is lost: turns, the rename, the rest of the deletion.
Crash ==
  /\ "crash" \in Upsets
  /\ \/ \E n \in Turns : at[n] \in Running
     \/ ren.at = "write" \/ erase \in {"messages", "row"}
  /\ at' = [n \in Turns |-> IF at[n] \in Running THEN "crashed" ELSE at[n]]
  /\ broken' = broken \cup {n \in Turns : at[n] \in Running}
  /\ ren' = [at |-> "idle", found |-> 0]
  /\ erase' = CASE erase = "messages" -> "none"
                [] erase = "row" -> "lost"
                [] OTHER -> erase
  /\ UNCHANGED <<log, row, seen, said, found, renamed, title, pageVars, agentVars>>

Turn(n) ==
  \/ ReadHistory(n) \/ Replied(n) \/ AppendQuestion(n) \/ AppendAnswer(n)
  \/ FailWrite(n) \/ FindRow(n) \/ StoreRow(n)
Page(n) == Send(n) \/ StreamEnds(n) \/ HandOff(n) \/ StreamLost(n)

Next ==
  \/ \E n \in Turns : Turn(n) \/ Page(n)
  \/ DeleteConv \/ RenameFind \/ RenameWrite \/ EraseMessages \/ EraseRow \/ Crash
  \/ DeleteAgent

Spec == Init /\ [][Next]_vars

(***************************************************************************)
(* Properties                                                              *)
(***************************************************************************)
TypeOK ==
  /\ log \in Seq(Messages)
  /\ row \in [id : {0} \cup RowIds, title : Titles, theirs : BOOLEAN]
  /\ at \in [Turns -> Places]
  /\ seen \in [Turns -> Seq(Messages)]
  /\ said \in [Turns -> {"text", "nothing", "handoff"}]
  /\ found \in [Turns -> {0} \cup RowIds]
  /\ ren \in [at : {"idle", "write"}, found : {0} \cup RowIds]
  /\ renamed \in Titles /\ title \in Titles
  /\ erase \in {"none", "messages", "row", "done", "lost"}
  /\ watched \subseteq Turns /\ broken \subseteq Turns
  /\ marked \in BOOLEAN /\ pending \in BOOLEAN /\ dropped \in BOOLEAN
  /\ gone \in BOOLEAN /\ cut \subseteq Turns /\ unlisted \subseteq Turns

Cleared == erase \in {"row", "done", "lost"}
Asked(n, i) == i \in 1..Len(log) /\ log[i] = Question(n)
Answered(n, i) == i \in 1..Len(log) /\ log[i] = Answer(n)

\* chat_engine.py:966-976: what the model is sent, the history followed by the
\* new question, alternates between user and assistant and starts with the
\* user; otherwise the API refuses it.  Holds for turns that do not overlap,
\* whose writes succeed and whose agents are not deleted.
InputAlternates ==
  \A n \in Turns : at[n] \notin {"unsent", "asked", "opened"} =>
    LET input == Append(seen[n], Question(n))
    IN  \A i \in 1..Len(input) :
          input[i].role = IF i % 2 = 1 THEN "user" ELSE "assistant"

\* chat_engine.py:955-978: until the conversation is erased the log holds no
\* message twice and no answer without its question before it, whatever turns
\* overlap, writes fail or connections break, but for the turns of a deleted agent:
\* of the one that was between its two writes the answer comes alone
\* (sql.py:310-318).
NoStrayAnswer ==
  /\ \A i, j \in 1..Len(log) : log[i] = log[j] => i = j
  /\ ~Cleared => \A n \in Turns \ cut, j \in 1..Len(log) :
        Answered(n, j) => \E i \in 1..(j - 1) : Asked(n, i)

\* chat_engine.py:966: a turn that is over has left its question and, after it,
\* an answer, however its reply ended, unless a write failed, the server
\* stopped, the conversation was erased or, after it had begun to write, its agent
\* was deleted; the deletion of an agent takes no message of the others.
TurnLeavesPair ==
  \A n \in Turns \ cut : at[n] = "closed" /\ n \notin broken /\ ~Cleared =>
    \E j \in 1..Len(log) : Answered(n, j) /\ \E i \in 1..(j - 1) : Asked(n, i)

\* api/chat.py:109-118, sql.py:521: a conversation in which a turn has shown
\* text is in the sidebar until it is deleted, or the agent that its row names is
\* (sql.py:316), although the inserts of two turns, or of a turn and a rename,
\* collide and the error is ignored.  The row is written anew by a turn that looks
\* for it after that, but not by one that had found it.
ListedWhenAnswered ==
  \A n \in Turns \ unlisted :
    at[n] = "closed" /\ n \notin broken /\ said[n] # "nothing" /\ erase # "done"
      => row.id # 0

\* sql.py:517-541: the title of the row is the one the last successful rename
\* gave, or none since the row was deleted, with the conversation or its agent,
\* however many turns that read the row before write it afterwards.
TitleKept == row.title = title

\* app.js:17-26, 944-949: a conversation the user has deleted does not come
\* back: once its messages are erased no turn writes new ones.
ErasedStaysErased == Cleared => log = <<>>

\* With turns that do not overlap the conversation is a list of exchanges, and
\* each answer was given knowing the last ones before it: Transcript.tla.
\* An exchange happens when its answer is appended; basis is read off what the
\* turn had read before.
TurnsIn(messages) ==
  [i \in 1..(Len(messages) \div 2) |-> messages[2 * i].turn]
HasAnswered(n) == at[n] \in {"list", "store", "closed"}
Exchanges == INSTANCE Transcript WITH
  Depth <- HistoryLimit \div 2,
  exchanges <- TurnsIn(log),
  basis <- [n \in Turns |-> IF HasAnswered(n) THEN TurnsIn(seen[n]) ELSE <<>>]
TranscriptKept == Exchanges!Spec
=============================================================================
