-------------------------- MODULE ConversationProofs --------------------------
(***************************************************************************)
(* Proofs about Conversation.tla, for any number of turns and renames, any  *)
(* length of the history and every set of upsets.                          *)
(*                                                                         *)
(* The properties speak of turns that are over; the invariant adds how much *)
(* of its pair a turn has written at each place (LogInv), that the row a    *)
(* turn has found is still the row of the table unless the deletion has     *)
(* removed it (RowInv), and that a deletion is asked for once (PageInv).    *)
(* Two properties hold for some upsets only.  That deletions last needs the *)
(* page to watch the one running turn (OneAtATime); that inputs alternate   *)
(* needs, besides, whole exchanges in the log (PairsInv).  Without upsets   *)
(* the conversation then implements Transcript.                             *)
(***************************************************************************)
EXTENDS Conversation, FiniteSetTheorems, TLAPS

Early == {"unsent", "asked", "opened", "replying", "question"}
Late == {"list", "store", "closed"}

HasPair(n) ==
  \E j \in 1..Len(log) : Answered(n, j) /\ \E i \in 1..(j - 1) : Asked(n, i)

\* What a turn has written so far.
LogInv ==
  /\ \A i, j \in 1..Len(log) : log[i] = log[j] => i = j
  /\ \A n \in Turns : at[n] \in Early => \A i \in 1..Len(log) : log[i].turn # n
  /\ \A n \in Turns : at[n] = "answer" => \A i \in 1..Len(log) : ~Answered(n, i)
  /\ ~Cleared => \A n \in Turns \ cut, j \in 1..Len(log) :
        Answered(n, j) => \E i \in 1..(j - 1) : Asked(n, i)
  /\ ~Cleared => \A n \in Turns \ cut :
        at[n] = "answer" => \E i \in 1..Len(log) : Asked(n, i)
  /\ ~Cleared => \A n \in Turns \ cut : at[n] \in Late /\ n \notin broken => HasPair(n)

RowInv ==
  /\ row.title = title
  /\ row.id = 0 => title = 0
  /\ erase # "done" => \A n \in Turns \ unlisted :
        at[n] = "store" /\ found[n] # 0 => row.id = found[n]
  /\ erase # "done" => \A n \in Turns \ unlisted :
        at[n] = "closed" /\ n \notin broken /\ said[n] # "nothing" => row.id # 0

PageInv ==
  /\ ~dropped => erase = "none" /\ ~pending
  /\ pending => erase = "none"

\* The agent is deleted once.
AgentInv == ~gone => cut = {} /\ unlisted = {}

ConvInv == TypeOK /\ LogInv /\ RowInv /\ PageInv /\ AgentInv

-----------------------------------------------------------------------------
(* Initial states *)

LEMMA InitConv == Init => ConvInv
<1> SUFFICES ASSUME Init PROVE ConvInv
  OBVIOUS
<1> USE ConversationAssumption DEF Init
<1>1. TypeOK
  <2>1. 0 \in Titles /\ row \in [id : {0} \cup RowIds, title : Titles, theirs : BOOLEAN]
    BY DEF NoRow, Titles
  <2>2. log \in Seq(Messages) /\ seen \in [Turns -> Seq(Messages)]
    OBVIOUS
  <2>3. at \in [Turns -> Places]
    BY DEF Places
  <2> QED
    BY <2>1, <2>2, <2>3 DEF TypeOK
<1>2. LogInv
  BY DEF LogInv, Turns, Late, Answered, Asked
<1>3. RowInv
  BY DEF RowInv, Turns, NoRow
<1>4. PageInv
  BY DEF PageInv
<1>5. AgentInv
  BY DEF AgentInv
<1> QED
  BY <1>1, <1>2, <1>3, <1>4, <1>5 DEF ConvInv

-----------------------------------------------------------------------------
(* Types *)

\* A history is a sequence of messages.
LEMMA HistoryType ==
  ASSUME log \in Seq(Messages)
  PROVE  History \in Seq(Messages)
BY ConversationAssumption DEF History

\* What a session writes to the table is a row.
LEMMA WrittenType ==
  ASSUME NEW f \in {0} \cup RowIds, NEW t \in Titles, NEW a \in BOOLEAN, NEW r \in Written(f, t, a)
  PROVE  /\ r \in [id : {0} \cup RowIds, title : Titles, theirs : BOOLEAN]
         /\ r.title = t
         /\ r.id # 0
         /\ f # 0 => r.id = f
<1>1. CASE f = 0
  BY <1>1 DEF Written, RowIds
<1>2. CASE f # 0
  BY <1>2 DEF Written, RowIds
<1> QED
  BY <1>1, <1>2

LEMMA TurnTypes ==
  ASSUME TypeOK, NEW n \in Turns, Turn(n)
  PROVE  TypeOK'
<1> USE DEF TypeOK, Places, Running, turnVars, renVars, pageVars, agentVars
<1>1. CASE ReadHistory(n)
  BY <1>1, HistoryType DEF ReadHistory
<1>2. CASE Replied(n)
  BY <1>2 DEF Replied
<1>3. CASE AppendQuestion(n)
  BY <1>3 DEF AppendQuestion, Question, Messages
<1>4. CASE AppendAnswer(n)
  BY <1>4 DEF AppendAnswer, Answer, Messages, AfterReply
<1>5. CASE FailWrite(n)
  BY <1>5 DEF FailWrite, AfterReply
<1>6. CASE FindRow(n)
  BY <1>6 DEF FindRow
<1>7. CASE StoreRow(n)
  <2>1. CASE CanWrite(found[n])
    <3>1. /\ found[n] \in {0} \cup RowIds /\ row.title \in Titles /\ (n \in Theirs) \in BOOLEAN
          /\ row' \in Written(found[n], row.title, n \in Theirs)
      BY <1>7, <2>1 DEF StoreRow
    <3>2. row' \in [id : {0} \cup RowIds, title : Titles, theirs : BOOLEAN]
      BY <3>1, WrittenType, Zenon
    <3> QED
      BY <1>7, <3>2 DEF StoreRow
  <2>2. CASE ~CanWrite(found[n])
    BY <1>7, <2>2 DEF StoreRow
  <2> QED
    BY <2>1, <2>2
<1> QED
  BY <1>1, <1>2, <1>3, <1>4, <1>5, <1>6, <1>7 DEF Turn

LEMMA PageTypes ==
  ASSUME TypeOK, NEW n \in Turns, Page(n)
  PROVE  TypeOK'
<1> USE DEF TypeOK, Places, Running, turnVars, renVars, pageVars, agentVars, FinishStream
<1>1. CASE Send(n)
  BY <1>1 DEF Send
<1>2. CASE StreamEnds(n)
  BY <1>2 DEF StreamEnds
<1>3. CASE HandOff(n)
  BY <1>3 DEF HandOff
<1>4. CASE StreamLost(n)
  BY <1>4 DEF StreamLost
<1> QED
  BY <1>1, <1>2, <1>3, <1>4 DEF Page

LEMMA RequestTypes ==
  ASSUME TypeOK,
         DeleteConv \/ RenameFind \/ RenameWrite \/ EraseMessages \/ EraseRow \/ Crash
  PROVE  TypeOK'
<1> USE ConversationAssumption
    DEF TypeOK, Places, Running, turnVars, renVars, pageVars, agentVars, Titles
<1>1. CASE DeleteConv
  BY <1>1 DEF DeleteConv
<1>2. CASE RenameFind
  BY <1>2 DEF RenameFind
<1>3. CASE RenameWrite
  <2>1. row' \in [id : {0} \cup RowIds, title : Titles, theirs : BOOLEAN]
    BY <1>3, WrittenType DEF RenameWrite
  <2> QED
    BY <1>3, <2>1 DEF RenameWrite
<1>4. CASE EraseMessages
  BY <1>4 DEF EraseMessages
<1>5. CASE EraseRow
  BY <1>5 DEF EraseRow, NoRow
<1>6. CASE Crash
  BY <1>6 DEF Crash
<1> QED
  BY <1>1, <1>2, <1>3, <1>4, <1>5, <1>6

\* What the deletion of an agent leaves: the messages of the other turns, in
\* their order.
LEMMA KeptFacts ==
  ASSUME TypeOK, DeleteAgent
  PROVE  /\ log' \in Seq(Messages)
         /\ \E from \in [1..Len(log') -> 1..Len(log)] :
              /\ \A i, j \in 1..Len(log') : i < j => from[i] < from[j]
              /\ \A i \in 1..Len(log') : log[from[i]].turn \notin Theirs
              /\ \A k \in 1..Len(log) : log[k].turn \notin Theirs
                    => \E i \in 1..Len(log') : from[i] = k
              /\ \A i \in 1..Len(log') : log'[i] = log[from[i]]
<1> DEFINE c == Cardinality(Kept)
<1>1. c \in Nat
  <2>1. Len(log) \in Nat /\ Kept \subseteq 1..Len(log)
    BY DEF TypeOK, Kept
  <2>2. IsFiniteSet(1..Len(log))
    BY <2>1, FS_Interval
  <2>3. IsFiniteSet(Kept)
    BY <2>1, <2>2, FS_Subset
  <2> QED
    BY <2>3, FS_CardinalityType
<1>2. PICK from \in [1..c -> Kept] :
        /\ \A i, j \in DOMAIN from : i < j => from[i] < from[j]
        /\ \A k \in Kept : \E i \in DOMAIN from : from[i] = k
        /\ log' = [i \in DOMAIN from |-> log[from[i]]]
  BY DEF DeleteAgent
<1> HIDE DEF c
<1>3. DOMAIN from = 1..c /\ \A i \in 1..c : from[i] \in 1..Len(log) /\ log[from[i]].turn \notin Theirs
  BY <1>2 DEF Kept
<1>4. log' = [i \in 1..c |-> log[from[i]]] /\ \A i \in 1..c : log[from[i]] \in Messages
  BY <1>2, <1>3 DEF TypeOK
<1>5. log' \in Seq(Messages) /\ Len(log') = c /\ \A i \in 1..c : log'[i] = log[from[i]]
  BY <1>1, <1>4
<1>6. from \in [1..Len(log') -> 1..Len(log)]
  BY <1>2, <1>3, <1>5
<1>7. \A k \in 1..Len(log) : log[k].turn \notin Theirs => \E i \in 1..c : from[i] = k
  BY <1>2, <1>3 DEF Kept
<1> QED
  BY <1>2, <1>3, <1>5, <1>6, <1>7

LEMMA DeletionTypes ==
  ASSUME TypeOK, DeleteAgent
  PROVE  TypeOK'
<1>1. log' \in Seq(Messages)
  BY KeptFacts
<1>2. cut' \subseteq Turns /\ gone' \in BOOLEAN /\ unlisted' \subseteq Turns
  BY ConversationAssumption DEF DeleteAgent, TypeOK, Turns
<1>3. row' \in [id : {0} \cup RowIds, title : Titles, theirs : BOOLEAN] /\ title' \in Titles
  <2>1. 0 \in Titles /\ NoRow \in [id : {0} \cup RowIds, title : Titles, theirs : BOOLEAN]
    BY ConversationAssumption DEF NoRow, Titles
  <2> QED
    BY <2>1 DEF DeleteAgent, TypeOK
<1> QED
  BY <1>1, <1>2, <1>3 DEF DeleteAgent, TypeOK, turnVars, pageVars

LEMMA TypesKept == TypeOK /\ [Next]_vars => TypeOK'
<1> SUFFICES ASSUME TypeOK, [Next]_vars PROVE TypeOK'
  OBVIOUS
<1>1. CASE UNCHANGED vars
  BY <1>1 DEF TypeOK, vars, turnVars, renVars, pageVars, agentVars
<1>2. CASE Next
  BY <1>2, TurnTypes, PageTypes, RequestTypes, DeletionTypes DEF Next
<1> QED
  BY <1>1, <1>2

-----------------------------------------------------------------------------
(* The page *)

LEMMA PageKept == TypeOK /\ PageInv /\ [Next]_vars => PageInv'
<1> SUFFICES ASSUME TypeOK, PageInv, [Next]_vars PROVE PageInv'
  OBVIOUS
<1> USE DEF TypeOK, PageInv, turnVars, renVars, pageVars, agentVars
<1>1. CASE UNCHANGED vars
  BY <1>1 DEF vars
<1>2. ASSUME NEW n \in Turns, Turn(n) PROVE PageInv'
  BY <1>2 DEF Turn, ReadHistory, Replied, AppendQuestion, AppendAnswer, FailWrite,
    FindRow, StoreRow
<1>3. ASSUME NEW n \in Turns, Page(n) PROVE PageInv'
  BY <1>3 DEF Page, Send, StreamEnds, HandOff, StreamLost, FinishStream
<1>4. CASE DeleteConv
  BY <1>4 DEF DeleteConv
<1>5. CASE RenameFind \/ RenameWrite \/ EraseMessages \/ EraseRow \/ Crash \/ DeleteAgent
  BY <1>5 DEF RenameFind, RenameWrite, EraseMessages, EraseRow, Crash, DeleteAgent
<1> QED
  BY <1>1, <1>2, <1>3, <1>4, <1>5 DEF Next

-----------------------------------------------------------------------------
(* The messages *)

\* Where a turn may go without writing a message.
Follows(n) ==
  \/ at'[n] = at[n]
  \/ at[n] \in Early /\ at'[n] \in Early
  \/ at'[n] = "crashed"
  \/ at'[n] \in Late /\ (at[n] \in Late \/ n \in broken')

\* A step that leaves the messages alone and moves turns as above keeps LogInv.
LEMMA LogFrame ==
  ASSUME LogInv, log' = log, Cleared' = Cleared, broken \subseteq broken', cut' = cut,
         \A n \in Turns : Follows(n)
  PROVE  LogInv'
BY DEF LogInv, Follows, Early, Late, HasPair, Answered, Asked

\* A question appended: it is new, and the turn is the only one to move.
LEMMA QuestionKeepsLog ==
  ASSUME TypeOK, LogInv, NEW n \in Turns, AppendQuestion(n)
  PROVE  LogInv'
<1> USE DEF TypeOK, AppendQuestion
<1>1. /\ log' \in Seq(Messages) /\ Len(log') = Len(log) + 1
      /\ log'[Len(log) + 1] = Question(n)
      /\ \A i \in 1..Len(log) : log'[i] = log[i]
  BY DEF Question, Messages
<1>2. \A i \in 1..Len(log) : log[i].turn # n
  BY DEF LogInv, Early
<1>3. Cleared' = Cleared /\ broken' = broken /\ cut' = cut
  BY DEF Cleared, agentVars
<1>4. \A m \in Turns \ {n} : at'[m] = at[m]
  OBVIOUS
<1>5. \A i, j \in 1..Len(log') : log'[i] = log'[j] => i = j
  BY <1>1, <1>2 DEF LogInv, Question
<1>6. \A m \in Turns, j \in 1..Len(log') :
        Answered(m, j)' <=> j \in 1..Len(log) /\ Answered(m, j)
  BY <1>1 DEF Answered, Answer, Question
<1>7. \A m \in Turns, i \in 1..Len(log) : Asked(m, i) => Asked(m, i)'
  BY <1>1 DEF Asked
<1>8. \A m \in Turns : at'[m] \in Early => \A i \in 1..Len(log') : log'[i].turn # m
  BY <1>1, <1>4 DEF LogInv, Early, Question
<1>9. \A m \in Turns : at'[m] = "answer" => \A i \in 1..Len(log') : ~Answered(m, i)'
  <2> SUFFICES ASSUME NEW m \in Turns, at'[m] = "answer",
                      NEW i \in 1..Len(log'), Answered(m, i)'
               PROVE  FALSE
    OBVIOUS
  <2>1. i \in 1..Len(log) /\ Answered(m, i)
    BY <1>6
  <2>2. CASE m = n
    BY <2>1, <2>2, <1>2 DEF Answered, Answer
  <2>3. CASE m # n
    BY <2>1, <2>3, <1>4 DEF LogInv
  <2> QED
    BY <2>2, <2>3
<1>10. ~Cleared' => \A m \in Turns \ cut', j \in 1..Len(log') :
          Answered(m, j)' => \E i \in 1..(j - 1) : Asked(m, i)'
  <2> SUFFICES ASSUME ~Cleared, NEW m \in Turns \ cut, NEW j \in 1..Len(log'), Answered(m, j)'
               PROVE  \E i \in 1..(j - 1) : Asked(m, i)'
    BY <1>3
  <2>1. j \in 1..Len(log) /\ Answered(m, j)
    BY <1>6
  <2>2. PICK i \in 1..(j - 1) : Asked(m, i)
    BY <2>1 DEF LogInv
  <2>3. i \in 1..Len(log)
    BY <2>1, <2>2
  <2> QED
    BY <2>2, <2>3, <1>7
<1>11. ~Cleared' => \A m \in Turns \ cut' :
          at'[m] = "answer" => \E i \in 1..Len(log') : Asked(m, i)'
  <2> SUFFICES ASSUME ~Cleared, NEW m \in Turns \ cut, at'[m] = "answer"
               PROVE  \E i \in 1..Len(log') : Asked(m, i)'
    BY <1>3
  <2>1. CASE m = n
    BY <2>1, <1>1 DEF Asked
  <2>2. CASE m # n
    <3>1. at[m] = "answer"
      BY <2>2, <1>4
    <3>2. PICK i \in 1..Len(log) : Asked(m, i)
      BY <3>1 DEF LogInv
    <3>3. Asked(m, i)' /\ i \in 1..Len(log')
      BY <3>2, <1>1, <1>7
    <3> QED
      BY <3>3
  <2> QED
    BY <2>1, <2>2
<1>12. ~Cleared' => \A m \in Turns \ cut' : at'[m] \in Late /\ m \notin broken' => HasPair(m)'
  <2> SUFFICES ASSUME ~Cleared, NEW m \in Turns \ cut, at'[m] \in Late, m \notin broken'
               PROVE  HasPair(m)'
    BY <1>3
  <2>1. m # n
    BY DEF Late
  <2>2. HasPair(m)
    BY <2>1, <1>3, <1>4 DEF LogInv
  <2>3. PICK j \in 1..Len(log) : Answered(m, j) /\ \E i \in 1..(j - 1) : Asked(m, i)
    BY <2>2 DEF HasPair
  <2>4. PICK i \in 1..(j - 1) : Asked(m, i)
    BY <2>3
  <2>5. Answered(m, j)' /\ Asked(m, i)' /\ j \in 1..Len(log')
    BY <2>3, <2>4, <1>1 DEF Answered, Asked
  <2> QED
    BY <2>5 DEF HasPair
<1> QED
  BY <1>5, <1>8, <1>9, <1>10, <1>11, <1>12 DEF LogInv

\* An answer appended: its question is there.
LEMMA AnswerKeepsLog ==
  ASSUME TypeOK, LogInv, NEW n \in Turns, AppendAnswer(n)
  PROVE  LogInv'
<1> USE DEF TypeOK, AppendAnswer
<1>1. /\ log' \in Seq(Messages) /\ Len(log') = Len(log) + 1
      /\ log'[Len(log) + 1] = Answer(n)
      /\ \A i \in 1..Len(log) : log'[i] = log[i]
  BY DEF Answer, Messages
<1>2. \A i \in 1..Len(log) : ~Answered(n, i)
  BY DEF LogInv
<1>3. Cleared' = Cleared /\ broken' = broken /\ cut' = cut
  BY DEF Cleared, agentVars
<1>4. /\ \A m \in Turns \ {n} : at'[m] = at[m]
      /\ at'[n] \in Late
  BY DEF AfterReply, Late
<1>5. \A i, j \in 1..Len(log') : log'[i] = log'[j] => i = j
  BY <1>1, <1>2 DEF LogInv, Answered
<1>6. \A m \in Turns, j \in 1..Len(log) : Answered(m, j) <=> Answered(m, j)'
  BY <1>1 DEF Answered
<1>7. \A m \in Turns, i \in 1..Len(log) : Asked(m, i) => Asked(m, i)'
  BY <1>1 DEF Asked
<1>8. \A m \in Turns : at'[m] \in Early => \A i \in 1..Len(log') : log'[i].turn # m
  <2> SUFFICES ASSUME NEW m \in Turns, at'[m] \in Early, NEW i \in 1..Len(log')
               PROVE  log'[i].turn # m
    OBVIOUS
  <2>1. m # n /\ at[m] \in Early
    BY <1>4 DEF Early, Late
  <2>2. CASE i = Len(log) + 1
    BY <2>1, <2>2, <1>1 DEF Answer
  <2>3. CASE i \in 1..Len(log)
    BY <2>1, <2>3, <1>1 DEF LogInv
  <2> QED
    BY <2>2, <2>3, <1>1
<1>9. \A m \in Turns : at'[m] = "answer" => \A i \in 1..Len(log') : ~Answered(m, i)'
  <2> SUFFICES ASSUME NEW m \in Turns, at'[m] = "answer", NEW i \in 1..Len(log')
               PROVE  ~Answered(m, i)'
    OBVIOUS
  <2>1. m # n /\ at[m] = "answer"
    BY <1>4 DEF Late
  <2>2. CASE i = Len(log) + 1
    BY <2>1, <2>2, <1>1 DEF Answered, Answer
  <2>3. CASE i \in 1..Len(log)
    BY <2>1, <2>3, <1>6 DEF LogInv
  <2> QED
    BY <2>2, <2>3, <1>1
<1>10. ~Cleared /\ n \notin cut => \E i \in 1..Len(log) : Asked(n, i)
  BY DEF LogInv
<1>11. ~Cleared' => \A m \in Turns \ cut', j \in 1..Len(log') :
          Answered(m, j)' => \E i \in 1..(j - 1) : Asked(m, i)'
  <2> SUFFICES ASSUME ~Cleared, NEW m \in Turns \ cut, NEW j \in 1..Len(log'), Answered(m, j)'
               PROVE  \E i \in 1..(j - 1) : Asked(m, i)'
    BY <1>3
  <2>1. CASE j = Len(log) + 1
    <3>1. m = n
      BY <2>1, <1>1 DEF Answered, Answer
    <3> QED
      BY <3>1, <2>1, <1>1, <1>7, <1>10
  <2>2. CASE j \in 1..Len(log)
    BY <2>2, <1>6, <1>7 DEF LogInv
  <2> QED
    BY <2>1, <2>2, <1>1
<1>12. ~Cleared' => \A m \in Turns \ cut' :
          at'[m] = "answer" => \E i \in 1..Len(log') : Asked(m, i)'
  BY <1>1, <1>3, <1>4, <1>7 DEF LogInv, Late
<1>13. ~Cleared' => \A m \in Turns \ cut' : at'[m] \in Late /\ m \notin broken' => HasPair(m)'
  <2> SUFFICES ASSUME ~Cleared, NEW m \in Turns \ cut, at'[m] \in Late, m \notin broken'
               PROVE  HasPair(m)'
    BY <1>3
  <2>1. CASE m = n
    <3>1. PICK i \in 1..Len(log) : Asked(n, i)
      BY <1>10, <2>1
    <3>2. Asked(n, i)'
      BY <3>1, <1>7
    <3>3. Len(log') \in 1..Len(log') /\ log'[Len(log')] = Answer(n) /\ i \in 1..(Len(log') - 1)
      BY <3>1, <1>1
    <3> QED
      BY <3>2, <3>3, <2>1 DEF HasPair, Answered
  <2>2. CASE m # n
    <3>1. HasPair(m)
      BY <2>2, <1>3, <1>4 DEF LogInv
    <3>2. PICK j \in 1..Len(log) : Answered(m, j) /\ \E i \in 1..(j - 1) : Asked(m, i)
      BY <3>1 DEF HasPair
    <3>3. PICK i \in 1..(j - 1) : Asked(m, i)
      BY <3>2
    <3>4. Answered(m, j)' /\ Asked(m, i)' /\ j \in 1..Len(log')
      BY <3>2, <3>3, <1>1 DEF Answered, Asked
    <3> QED
      BY <3>4 DEF HasPair
  <2> QED
    BY <2>1, <2>2
<1> QED
  BY <1>5, <1>8, <1>9, <1>11, <1>12, <1>13 DEF LogInv

\* The turns of the agent that had written are cut; of the others every
\* message is left.
LEMMA DeletionKeepsLog ==
  ASSUME TypeOK, LogInv, AgentInv, DeleteAgent
  PROVE  LogInv'
<1>1. PICK from \in [1..Len(log') -> 1..Len(log)] :
        /\ \A i, j \in 1..Len(log') : i < j => from[i] < from[j]
        /\ \A i \in 1..Len(log') : log[from[i]].turn \notin Theirs
        /\ \A k \in 1..Len(log) : log[k].turn \notin Theirs
              => \E i \in 1..Len(log') : from[i] = k
        /\ \A i \in 1..Len(log') : log'[i] = log[from[i]]
  BY KeptFacts
<1>2. at' = at /\ broken' = broken /\ Cleared' = Cleared
  BY DEF DeleteAgent, turnVars, Cleared
<1>3. \A n \in Turns \ cut' : at[n] = "answer" \/ at[n] \in Late => n \notin Theirs /\ n \notin cut
  BY DEF DeleteAgent, AgentInv, Late
<1>4. \A n \in Turns, i \in 1..Len(log') :
        /\ Answered(n, i)' => Answered(n, from[i]) /\ n \notin Theirs
        /\ log'[i].turn = n => log[from[i]].turn = n
  BY <1>1 DEF Answered, Answer
<1>5. \A n \in Turns \ Theirs, k \in 1..Len(log) :
        /\ Asked(n, k) => \E i \in 1..Len(log') : from[i] = k /\ Asked(n, i)'
        /\ Answered(n, k) => \E i \in 1..Len(log') : from[i] = k /\ Answered(n, i)'
  BY <1>1 DEF Asked, Question, Answered, Answer
<1>6. Len(log') \in Nat /\ \A i, j \in 1..Len(log') : from[i] < from[j] => i < j
  <2>1. Len(log') \in Nat /\ Len(log) \in Nat
    BY KeptFacts DEF TypeOK
  <2>2. \A i \in 1..Len(log') : from[i] \in 1..Len(log)
    OBVIOUS
  <2> QED
    BY <1>1, <2>1, <2>2
<1>7. ASSUME NEW n \in Turns \ Theirs, NEW j \in 1..Len(log'), Answered(n, from[j]),
             \E i \in 1..(from[j] - 1) : Asked(n, i)
      PROVE  \E i \in 1..(j - 1) : Asked(n, i)'
  <2>1. PICK k \in 1..(from[j] - 1) : Asked(n, k)
    BY <1>7
  <2>2. k \in 1..Len(log) /\ k < from[j]
    <3>1. Len(log) \in Nat
      BY DEF TypeOK
    <3>2. from[j] \in 1..Len(log)
      OBVIOUS
    <3> QED
      BY <3>1, <3>2
  <2>3. PICK i \in 1..Len(log') : from[i] = k /\ Asked(n, i)'
    BY <1>5, <2>1, <2>2
  <2>4. i \in 1..(j - 1)
    BY <1>6, <2>2, <2>3
  <2> QED
    BY <2>3, <2>4
<1>8. \A i, j \in 1..Len(log') : log'[i] = log'[j] => i = j
  <2> SUFFICES ASSUME NEW i \in 1..Len(log'), NEW j \in 1..Len(log'), log'[i] = log'[j]
               PROVE  i = j
    OBVIOUS
  <2>1. from[i] = from[j]
    BY <1>1 DEF LogInv
  <2> QED
    BY <1>1, <1>6, <2>1
<1>9. \A n \in Turns : at'[n] \in Early => \A i \in 1..Len(log') : log'[i].turn # n
  BY <1>2, <1>4 DEF LogInv
<1>10. \A n \in Turns : at'[n] = "answer" => \A i \in 1..Len(log') : ~Answered(n, i)'
  BY <1>2, <1>4 DEF LogInv
<1>11. ~Cleared' => \A n \in Turns \ cut', j \in 1..Len(log') :
          Answered(n, j)' => \E i \in 1..(j - 1) : Asked(n, i)'
  <2> SUFFICES ASSUME ~Cleared, NEW n \in Turns \ cut', NEW j \in 1..Len(log'), Answered(n, j)'
               PROVE  \E i \in 1..(j - 1) : Asked(n, i)'
    BY <1>2
  <2>1. Answered(n, from[j]) /\ n \notin Theirs /\ n \notin cut
    BY <1>4 DEF AgentInv, DeleteAgent
  <2>2. \E i \in 1..(from[j] - 1) : Asked(n, i)
    BY <2>1 DEF LogInv
  <2> QED
    BY <1>7, <2>1, <2>2
<1>12. ~Cleared' => \A n \in Turns \ cut' :
          at'[n] = "answer" => \E i \in 1..Len(log') : Asked(n, i)'
  BY <1>2, <1>3, <1>5 DEF LogInv
<1>13. ~Cleared' => \A n \in Turns \ cut' : at'[n] \in Late /\ n \notin broken' => HasPair(n)'
  <2> SUFFICES ASSUME ~Cleared, NEW n \in Turns \ cut', at[n] \in Late, n \notin broken
               PROVE  HasPair(n)'
    BY <1>2
  <2>1. n \notin Theirs /\ HasPair(n)
    BY <1>3 DEF LogInv
  <2>2. PICK k \in 1..Len(log) : Answered(n, k) /\ \E i \in 1..(k - 1) : Asked(n, i)
    BY <2>1 DEF HasPair
  <2>3. PICK j \in 1..Len(log') : from[j] = k /\ Answered(n, j)'
    BY <1>5, <2>1, <2>2
  <2>4. \E i \in 1..(j - 1) : Asked(n, i)'
    BY <1>7, <2>1, <2>2, <2>3
  <2> QED
    BY <2>3, <2>4 DEF HasPair
<1> QED
  BY <1>8, <1>9, <1>10, <1>11, <1>12, <1>13 DEF LogInv

LEMMA LogKept == TypeOK /\ LogInv /\ PageInv /\ AgentInv /\ [Next]_vars => LogInv'
<1> SUFFICES ASSUME TypeOK, LogInv, PageInv, AgentInv, [Next]_vars PROVE LogInv'
  OBVIOUS
<1> USE DEF Follows, Early, Late, Cleared, turnVars, renVars, pageVars, agentVars
<1>1. CASE UNCHANGED vars
  BY <1>1, LogFrame DEF vars
<1>2. ASSUME NEW n \in Turns, Turn(n) PROVE LogInv'
  <2>1. CASE ReadHistory(n) \/ Replied(n) \/ FindRow(n) \/ StoreRow(n)
    BY <2>1, LogFrame DEF TypeOK, ReadHistory, Replied, FindRow, StoreRow
  <2>2. CASE FailWrite(n)
    BY <2>2, LogFrame DEF TypeOK, FailWrite, AfterReply
  <2> QED
    BY <1>2, <2>1, <2>2, QuestionKeepsLog, AnswerKeepsLog DEF Turn
<1>3. ASSUME NEW n \in Turns, Page(n) PROVE LogInv'
  <2>1. CASE Send(n) \/ HandOff(n)
    BY <2>1, LogFrame DEF TypeOK, PageInv, Send, HandOff, FinishStream, IsNext
  <2>2. CASE StreamEnds(n) \/ StreamLost(n)
    BY <2>2, LogFrame DEF PageInv, StreamEnds, StreamLost, FinishStream
  <2> QED
    BY <1>3, <2>1, <2>2 DEF Page
<1>4. CASE DeleteConv
  BY <1>4, LogFrame DEF DeleteConv, PageInv
<1>5. CASE RenameFind \/ RenameWrite \/ EraseRow
  BY <1>5, LogFrame DEF RenameFind, RenameWrite, EraseRow
<1>6. CASE EraseMessages
  BY <1>6 DEF EraseMessages, LogInv, Answered
<1>7. CASE Crash
  BY <1>7, LogFrame DEF TypeOK, Crash
<1> QED
  BY <1>1, <1>2, <1>3, <1>4, <1>5, <1>6, <1>7, DeletionKeepsLog DEF Next

-----------------------------------------------------------------------------
(* The sidebar row *)

\* A step that leaves the row alone and finishes no turn that has shown text.
LEMMA RowFrame ==
  ASSUME RowInv, row' = row, title' = title, broken \subseteq broken',
         unlisted' = unlisted,
         erase' # "done" => erase # "done",
         \A n \in Turns :
           /\ at'[n] = "store" => at[n] = "store" /\ found'[n] = found[n]
           /\ at'[n] = "closed" /\ n \notin broken'
                => said'[n] = "nothing" \/ (at[n] = "closed" /\ said'[n] = said[n])
  PROVE  RowInv'
BY DEF RowInv

\* A step in which some session writes the row it found, or fails to.
LEMMA RowWritten ==
  ASSUME TypeOK, RowInv, NEW f \in {0} \cup RowIds, NEW t \in Titles, NEW a \in BOOLEAN,
         IF CanWrite(f) THEN row' \in Written(f, t, a) /\ title' = t
                        ELSE row' = row /\ title' = title
  PROVE  /\ row'.title = title'
         /\ row'.id = 0 => title' = 0
         /\ row.id # 0 => row'.id = row.id
         /\ (f # 0 => row.id = f) => row'.id # 0
<1>1. CASE CanWrite(f)
  <2>1. row' \in Written(f, t, a) /\ title' = t /\ row.id = f
    BY <1>1 DEF CanWrite
  <2>2. row'.title = t /\ row'.id # 0 /\ (f # 0 => row'.id = f)
    BY <2>1, WrittenType
  <2> QED
    BY <2>1, <2>2
<1>2. CASE ~CanWrite(f)
  BY <1>2 DEF CanWrite, RowInv
<1> QED
  BY <1>1, <1>2

LEMMA RowKept == TypeOK /\ RowInv /\ PageInv /\ [Next]_vars => RowInv'
<1> SUFFICES ASSUME TypeOK, RowInv, PageInv, [Next]_vars PROVE RowInv'
  OBVIOUS
<1> USE DEF turnVars, renVars, pageVars, agentVars
<1>1. CASE UNCHANGED vars
  BY <1>1, RowFrame DEF vars
<1>2. ASSUME NEW n \in Turns, Turn(n) PROVE RowInv'
  <2>1. CASE ReadHistory(n) \/ Replied(n) \/ AppendQuestion(n)
    BY <2>1, RowFrame DEF TypeOK, ReadHistory, Replied, AppendQuestion
  <2>2. CASE AppendAnswer(n)
    BY <2>2, RowFrame DEF TypeOK, AppendAnswer, AfterReply, Shown
  <2>3. CASE FailWrite(n)
    BY <2>3, RowFrame DEF TypeOK, FailWrite, AfterReply
  <2>4. CASE FindRow(n)
    BY <2>4 DEF TypeOK, FindRow, RowInv
  <2>5. CASE StoreRow(n)
    <3>1. found[n] \in {0} \cup RowIds /\ row.title \in Titles /\ (n \in Theirs) \in BOOLEAN
      BY DEF TypeOK
    <3>2. IF CanWrite(found[n])
          THEN row' \in Written(found[n], row.title, n \in Theirs) /\ title' = row.title
          ELSE row' = row /\ title' = title
      BY <2>5 DEF StoreRow, RowInv
    <3>3. erase # "done" /\ n \notin unlisted /\ found[n] # 0 => row.id = found[n]
      BY <2>5 DEF StoreRow, RowInv
    <3>4. /\ row'.title = title'
          /\ row'.id = 0 => title' = 0
          /\ row.id # 0 => row'.id = row.id
          /\ erase # "done" /\ n \notin unlisted => row'.id # 0
      BY <3>1, <3>2, <3>3, RowWritten
    <3> QED
      BY <2>5, <3>4 DEF TypeOK, StoreRow, RowInv, RowIds
  <2> QED
    BY <1>2, <2>1, <2>2, <2>3, <2>4, <2>5 DEF Turn
<1>3. ASSUME NEW n \in Turns, Page(n) PROVE RowInv'
  <2>1. CASE Send(n) \/ HandOff(n)
    BY <2>1, RowFrame DEF TypeOK, PageInv, Send, HandOff, FinishStream
  <2>2. CASE StreamEnds(n) \/ StreamLost(n)
    BY <2>2, RowFrame DEF PageInv, StreamEnds, StreamLost, FinishStream
  <2> QED
    BY <1>3, <2>1, <2>2 DEF Page
<1>4. CASE DeleteConv
  BY <1>4, RowFrame DEF DeleteConv, PageInv
<1>5. CASE RenameFind
  BY <1>5, RowFrame DEF RenameFind
<1>6. CASE RenameWrite
  BY <1>6, WrittenType DEF TypeOK, RenameWrite, RowInv, CanWrite, RowIds
<1>7. CASE EraseMessages
  BY <1>7, RowFrame DEF EraseMessages
<1>8. CASE EraseRow
  BY <1>8 DEF EraseRow, RowInv, NoRow
<1>9. CASE Crash
  BY <1>9, RowFrame DEF TypeOK, Crash, Running
<1>10. CASE DeleteAgent
  <2>1. at' = at /\ found' = found /\ said' = said /\ broken' = broken /\ erase' = erase
    BY <1>10 DEF DeleteAgent
  <2>2. CASE row.theirs
    BY <1>10, <2>1, <2>2 DEF DeleteAgent, RowInv, NoRow
  <2>3. CASE ~row.theirs
    BY <1>10, <2>1, <2>3, RowFrame DEF DeleteAgent
  <2> QED
    BY <2>2, <2>3
<1> QED
  BY <1>1, <1>2, <1>3, <1>4, <1>5, <1>6, <1>7, <1>8, <1>9, <1>10 DEF Next

LEMMA AgentKept == AgentInv /\ [Next]_vars => AgentInv'
<1> SUFFICES ASSUME AgentInv, [Next]_vars PROVE AgentInv'
  OBVIOUS
<1>1. CASE DeleteAgent
  BY <1>1 DEF DeleteAgent, AgentInv
<1>2. CASE ~DeleteAgent
  <2>1. agentVars' = agentVars
    <3>1. ASSUME NEW n \in Turns, Turn(n) PROVE agentVars' = agentVars
      BY <3>1 DEF Turn, ReadHistory, Replied, AppendQuestion, AppendAnswer, FailWrite,
        FindRow, StoreRow
    <3>2. ASSUME NEW n \in Turns, Page(n) PROVE agentVars' = agentVars
      BY <3>2 DEF Page, Send, StreamEnds, HandOff, StreamLost
    <3> QED
      BY <1>2, <3>1, <3>2 DEF Next, vars, DeleteConv, RenameFind, RenameWrite,
        EraseMessages, EraseRow, Crash
  <2> QED
    BY <2>1 DEF AgentInv, agentVars
<1> QED
  BY <1>1, <1>2

-----------------------------------------------------------------------------
(* Theorems *)

LEMMA ConvInvariant == Spec => []ConvInv
<1>1. ConvInv /\ [Next]_vars => ConvInv'
  BY TypesKept, PageKept, LogKept, RowKept, AgentKept DEF ConvInv
<1> QED
  BY InitConv, <1>1, PTL DEF Spec

\* Every variable of the conversation keeps its type.
THEOREM ConversationTypes == Spec => []TypeOK
<1>1. ConvInv => TypeOK
  BY DEF ConvInv
<1> QED
  BY ConvInvariant, <1>1, PTL

\* sql_memory.py, chat_engine.py:977-978: no message is stored twice and, until
\* the conversation is erased, no answer without its question before it, unless
\* the agent of its turn was deleted.
THEOREM AnswersFollowQuestions == Spec => []NoStrayAnswer
<1>1. ConvInv => NoStrayAnswer
  BY DEF ConvInv, LogInv, NoStrayAnswer
<1> QED
  BY ConvInvariant, <1>1, PTL

\* chat_engine.py:966: however a reply ends, its turn leaves a question and an
\* answer to it, which the deletion of another agent does not take.
THEOREM TurnsLeavePairs == Spec => []TurnLeavesPair
<1>1. ConvInv => TurnLeavesPair
  BY DEF ConvInv, LogInv, TurnLeavesPair, HasPair, Late
<1> QED
  BY ConvInvariant, <1>1, PTL

\* api/chat.py:112-118, sql.py:517, 310-318: what a turn has shown is in the
\* sidebar, although colliding inserts fail silently, until the conversation is
\* deleted or the agent its row names is; who looks for the row after that writes
\* it anew.
THEOREM AnsweredIsListed == Spec => []ListedWhenAnswered
<1>1. ConvInv => ListedWhenAnswered
  BY DEF ConvInv, RowInv, ListedWhenAnswered
<1> QED
  BY ConvInvariant, <1>1, PTL

\* sql.py:517-541: turns that read the row earlier never undo a rename.
THEOREM TitleIsKept == Spec => []TitleKept
<1>1. ConvInv => TitleKept
  BY DEF ConvInv, RowInv, TitleKept
<1> QED
  BY ConvInvariant, <1>1, PTL

-----------------------------------------------------------------------------
(* Turns one after the other *)

\* Unless turns overlap, hand over or lose their stream, the page watches
\* every running turn, one at a time, and knows it; a deletion is sent when
\* none is running, and none is started after it.
OneAtATime ==
  /\ \A m, n \in watched : m = n
  /\ \A n \in Turns : at[n] \in Running => n \in watched
  /\ \A n \in Turns : said[n] # "handoff"
  /\ watched # {} => marked
  /\ pending => dropped
  /\ erase # "none" => dropped /\ watched = {}
  /\ ErasedStaysErased

Calm == {"append", "crash", "agent"}

LEMMA AloneKept ==
  ASSUME Upsets \subseteq Calm, TypeOK, OneAtATime, [Next]_vars
  PROVE  OneAtATime'
<1> USE DEF OneAtATime, ErasedStaysErased, Cleared, TypeOK, turnVars, renVars, pageVars, agentVars
<1>1. CASE UNCHANGED vars
  BY <1>1 DEF vars
<1>2. ASSUME NEW n \in Turns, Turn(n) PROVE OneAtATime'
  <2>1. CASE ReadHistory(n) \/ FindRow(n) \/ StoreRow(n)
    BY <2>1 DEF ReadHistory, FindRow, StoreRow, Running
  <2>2. CASE Replied(n)
    BY <2>2 DEF Replied, Running, Calm
  <2>3. CASE AppendQuestion(n) \/ AppendAnswer(n)
    BY <2>3 DEF AppendQuestion, AppendAnswer, AfterReply, Running
  <2>4. CASE FailWrite(n)
    BY <2>4 DEF FailWrite, AfterReply, Running
  <2> QED
    BY <1>2, <2>1, <2>2, <2>3, <2>4 DEF Turn
<1>3. ASSUME NEW n \in Turns, Page(n) PROVE OneAtATime'
  <2>1. CASE Send(n)
    <3>1. watched = {} /\ erase = "none"
      BY <2>1 DEF Send, Calm
    <3> QED
      BY <2>1, <3>1 DEF Send, Running
  <2>2. CASE StreamEnds(n)
    BY <2>2 DEF StreamEnds, FinishStream, Running
  <2>3. ~HandOff(n) /\ ~StreamLost(n)
    BY DEF HandOff, StreamLost, Calm
  <2> QED
    BY <1>3, <2>1, <2>2, <2>3 DEF Page
<1>4. CASE DeleteConv
  BY <1>4 DEF DeleteConv
<1>5. CASE RenameFind \/ RenameWrite \/ EraseMessages \/ EraseRow
  BY <1>5 DEF RenameFind, RenameWrite, EraseMessages, EraseRow
<1>6. CASE Crash
  BY <1>6 DEF Crash, Running
<1>7. CASE DeleteAgent
  <2>1. log = <<>> => log' = <<>>
    <3> SUFFICES ASSUME log = <<>> PROVE log' = <<>>
      OBVIOUS
    <3>1. log' \in Seq(Messages) /\ \A i \in 1..Len(log') : 1..0 # {}
      BY <1>7, KeptFacts
    <3> QED
      BY <3>1
  <2> QED
    BY <1>7, <2>1 DEF DeleteAgent
<1> QED
  BY <1>1, <1>2, <1>3, <1>4, <1>5, <1>6, <1>7 DEF Next

LEMMA AloneInvariant ==
  ASSUME Upsets \subseteq Calm
  PROVE  Spec => [](TypeOK /\ OneAtATime)
<1>1. Init => TypeOK /\ OneAtATime
  BY InitConv DEF Init, OneAtATime, ErasedStaysErased, Cleared, Running, ConvInv
<1>2. (TypeOK /\ OneAtATime) /\ [Next]_vars => (TypeOK /\ OneAtATime)'
  BY TypesKept, AloneKept
<1> QED
  BY <1>1, <1>2, PTL DEF Spec

\* app.js:17-26, 944-949: although the server locks nothing, the page that
\* defers a deletion keeps the deleted conversation from coming back, whatever
\* writes fail, whenever the server stops and an agent is deleted.
THEOREM ErasedForGood ==
  ASSUME Upsets \subseteq Calm
  PROVE  Spec => []ErasedStaysErased
<1>1. TypeOK /\ OneAtATime => ErasedStaysErased
  BY DEF OneAtATime
<1> QED
  BY AloneInvariant, <1>1, PTL

\* Roles by position, and the question alone only while its turn is about to
\* append the answer.
Alternates(s) ==
  \A i \in 1..Len(s) : s[i].role = IF i % 2 = 1 THEN "user" ELSE "assistant"
Waiting == {"unsent", "asked", "opened"}
PairsInv ==
  /\ Alternates(log)
  /\ \A n \in Turns : at[n] = "answer" => Len(log) % 2 = 1
  /\ Len(log) % 2 = 1 => \E n \in Turns : at[n] = "answer"
  /\ \A n \in Turns : at[n] \notin Waiting => Alternates(seen[n]) /\ Len(seen[n]) % 2 = 0

\* A message of the right role keeps a sequence alternating.
LEMMA AppendAlternates ==
  ASSUME NEW s \in Seq(Messages), NEW m \in Messages, Alternates(s),
         m.role = IF Len(s) % 2 = 0 THEN "user" ELSE "assistant"
  PROVE  /\ Alternates(Append(s, m))
         /\ Append(s, m) \in Seq(Messages)
         /\ Len(Append(s, m)) % 2 = 1 - (Len(s) % 2)
<1>1. /\ Len(Append(s, m)) = Len(s) + 1
      /\ \A i \in 1..Len(s) : Append(s, m)[i] = s[i]
      /\ Append(s, m)[Len(s) + 1] = m
  OBVIOUS
<1>2. (Len(s) + 1) % 2 = 1 - (Len(s) % 2)
  OBVIOUS
<1>3. Alternates(Append(s, m))
  BY <1>1, <1>2 DEF Alternates
<1> QED
  BY <1>1, <1>2, <1>3

\* Parity, stated apart from sequences.
LEMMA EvenDifference ==
  ASSUME NEW a \in Nat, NEW b \in Nat, b =< a, a % 2 = 0, b % 2 = 0
  PROVE  a - b \in Nat /\ (a - b) % 2 = 0
OBVIOUS

LEMMA EvenShift ==
  ASSUME NEW i \in Nat, NEW d \in Nat, d % 2 = 0
  PROVE  (i + d) % 2 = i % 2
OBVIOUS

\* What remains of an alternating sequence after an even number of messages.
LEMMA TailAlternates ==
  ASSUME NEW s \in Seq(Messages), Alternates(s), Len(s) % 2 = 0,
         NEW d \in Nat, d =< Len(s), d % 2 = 0
  PROVE  /\ Alternates(SubSeq(s, d + 1, Len(s)))
         /\ Len(SubSeq(s, d + 1, Len(s))) % 2 = 0
<1> DEFINE t == SubSeq(s, d + 1, Len(s))
<1>1. Len(s) \in Nat
  OBVIOUS
<1>2. Len(t) = Len(s) - d /\ \A i \in 1..(Len(s) - d) : t[i] = s[i + d]
  OBVIOUS
<1>3. \A i \in 1..(Len(s) - d) : i + d \in 1..Len(s) /\ (i + d) % 2 = i % 2
  BY <1>1, EvenShift
<1>4. Len(t) % 2 = 0
  BY <1>1, <1>2, EvenDifference
<1>5. Alternates(t)
  <2> HIDE DEF t
  <2> QED
    BY <1>2, <1>3 DEF Alternates
<1> QED
  BY <1>4, <1>5

\* An even number of the last messages of whole exchanges is whole exchanges.
LEMMA HistoryAlternates ==
  ASSUME HistoryLimit % 2 = 0, log \in Seq(Messages), Alternates(log), Len(log) % 2 = 0
  PROVE  Alternates(History) /\ Len(History) % 2 = 0
<1>1. HistoryLimit \in Nat /\ Len(log) \in Nat
  BY ConversationAssumption
<1>2. CASE Len(log) > HistoryLimit
  <2>1. /\ Len(log) - HistoryLimit \in Nat
        /\ Len(log) - HistoryLimit =< Len(log)
        /\ (Len(log) - HistoryLimit) % 2 = 0
    BY <1>1, <1>2, EvenDifference
  <2>2. History = SubSeq(log, (Len(log) - HistoryLimit) + 1, Len(log))
    BY <1>2 DEF History
  <2> QED
    BY <2>1, <2>2, TailAlternates
<1>3. CASE ~(Len(log) > HistoryLimit)
  <2>1. History = SubSeq(log, 1, Len(log))
    BY <1>3 DEF History
  <2>2. 0 \in Nat /\ 0 =< Len(log) /\ 0 % 2 = 0 /\ 0 + 1 = 1
    BY <1>1
  <2>3. /\ Alternates(SubSeq(log, 0 + 1, Len(log)))
        /\ Len(SubSeq(log, 0 + 1, Len(log))) % 2 = 0
    BY <2>2, TailAlternates
  <2> QED
    BY <2>1, <2>2, <2>3
<1> QED
  BY <1>2, <1>3

LEMMA PairsKept ==
  ASSUME HistoryLimit % 2 = 0, Upsets = {},
         TypeOK, OneAtATime, PairsInv, [Next]_vars
  PROVE  PairsInv'
<1> USE DEF TypeOK, turnVars, renVars, pageVars, agentVars
<1>1. CASE UNCHANGED vars
  BY <1>1 DEF vars, PairsInv, Alternates
<1>2. ASSUME NEW n \in Turns, Turn(n) PROVE PairsInv'
  <2>1. at[n] \in Running => \A m \in Turns \ {n} : at[m] \notin Running
    BY DEF OneAtATime
  <2>2. CASE ReadHistory(n)
    <3>1. Len(log) % 2 = 0
      BY <2>1, <2>2 DEF ReadHistory, PairsInv, Running
    <3>2. Alternates(seen'[n]) /\ Len(seen'[n]) % 2 = 0
      <4>1. Alternates(History) /\ Len(History) % 2 = 0
        BY <3>1, HistoryAlternates DEF PairsInv
      <4>2. Alternates(<<>>) /\ Len(<<>>) % 2 = 0
        BY DEF Alternates
      <4> QED
        BY <4>1, <4>2, <2>2 DEF ReadHistory
    <3>3. \A m \in Turns \ {n} : seen'[m] = seen[m] /\ at'[m] = at[m]
      BY <2>2 DEF ReadHistory
    <3>4. log' = log /\ at'[n] = "replying" /\ at[n] # "answer"
      BY <2>2 DEF ReadHistory
    <3> QED
      BY <3>1, <3>2, <3>3, <3>4 DEF PairsInv
  <2>3. CASE Replied(n) \/ FindRow(n) \/ StoreRow(n)
    BY <2>3 DEF Replied, FindRow, StoreRow, PairsInv, Waiting
  <2>4. CASE AppendQuestion(n)
    <3>1. Len(log) % 2 = 0
      BY <2>1, <2>4 DEF AppendQuestion, PairsInv, Running
    <3>2. Question(n) \in Messages /\ Question(n).role = "user" /\ log' = Append(log, Question(n))
      BY <2>4 DEF AppendQuestion, Question, Messages
    <3>3. log \in Seq(Messages) /\ Alternates(log)
      BY DEF PairsInv
    <3>4. /\ Alternates(Append(log, Question(n)))
          /\ Len(Append(log, Question(n))) % 2 = 1 - (Len(log) % 2)
      BY <3>1, <3>2, <3>3, AppendAlternates
    <3>5. Alternates(log') /\ Len(log') % 2 = 1
      <4>1. log' = Append(log, Question(n))
        BY <3>2
      <4>2. 1 - (Len(log) % 2) = 1
        BY <3>1
      <4>3. Alternates(log')
        BY <3>4, <4>1, Zenon
      <4>4. Len(log') % 2 = 1
        BY <3>4, <4>1, <4>2, Zenon
      <4> QED
        BY <4>3, <4>4
    <3> QED
      BY <3>5, <2>4 DEF AppendQuestion, PairsInv, Waiting
  <2>5. CASE AppendAnswer(n)
    <3>1. Len(log) % 2 = 1
      BY <2>5 DEF AppendAnswer, PairsInv
    <3>2. Answer(n) \in Messages /\ Answer(n).role = "assistant" /\ log' = Append(log, Answer(n))
      BY <2>5 DEF AppendAnswer, Answer, Messages
    <3>3. log \in Seq(Messages) /\ Alternates(log)
      BY DEF PairsInv
    <3>4. /\ Alternates(Append(log, Answer(n)))
          /\ Len(Append(log, Answer(n))) % 2 = 1 - (Len(log) % 2)
      BY <3>1, <3>2, <3>3, AppendAlternates
    <3>5. Alternates(log') /\ Len(log') % 2 = 0
      <4>1. log' = Append(log, Answer(n))
        BY <3>2
      <4>2. 1 - (Len(log) % 2) = 0
        BY <3>1
      <4>3. Alternates(log')
        BY <3>4, <4>1, Zenon
      <4>4. Len(log') % 2 = 0
        BY <3>4, <4>1, <4>2, Zenon
      <4> QED
        BY <4>3, <4>4
    <3>6. \A m \in Turns : at'[m] # "answer"
      BY <2>1, <2>5 DEF AppendAnswer, AfterReply, Running
    <3> QED
      BY <3>5, <3>6, <2>5 DEF AppendAnswer, PairsInv, Waiting
  <2>6. ~FailWrite(n)
    BY DEF FailWrite
  <2> QED
    BY <1>2, <2>2, <2>3, <2>4, <2>5, <2>6 DEF Turn
<1>3. ASSUME NEW n \in Turns, Page(n) PROVE PairsInv'
  BY <1>3 DEF Page, Send, StreamEnds, HandOff, StreamLost, OneAtATime, PairsInv, Waiting,
    IsNext
<1>4. CASE DeleteConv \/ RenameFind \/ RenameWrite \/ EraseRow
  BY <1>4 DEF DeleteConv, RenameFind, RenameWrite, EraseRow, PairsInv
<1>5. CASE EraseMessages
  <2>1. \A n \in Turns : at[n] # "answer"
    BY <1>5 DEF EraseMessages, OneAtATime, Running
  <2>2. Alternates(<<>>) /\ Len(<<>>) % 2 = 0
    BY DEF Alternates
  <2> QED
    BY <1>5, <2>1, <2>2 DEF EraseMessages, PairsInv
<1>6. ~Crash /\ ~DeleteAgent
  BY DEF Crash, DeleteAgent
<1> QED
  BY <1>1, <1>2, <1>3, <1>4, <1>5, <1>6 DEF Next

\* chat_engine.py:966-976, config.py:72: with turns one after the other whose
\* writes succeed, and a history limit that is even, what the model is sent
\* alternates and starts with the user, through renames and a deletion.
THEOREM InputsAlternate ==
  ASSUME HistoryLimit % 2 = 0, Upsets = {}
  PROVE  Spec => []InputAlternates
<1>1. Init => PairsInv
  <2>1. Alternates(<<>>) /\ Len(<<>>) % 2 = 0
    BY DEF Alternates
  <2> QED
    BY <2>1 DEF Init, PairsInv, Waiting
<1>2. (TypeOK /\ OneAtATime) /\ PairsInv /\ [Next]_vars => PairsInv'
  BY PairsKept
<1>3. TypeOK /\ PairsInv => InputAlternates
  <2> SUFFICES ASSUME TypeOK, PairsInv, NEW n \in Turns, at[n] \notin Waiting
               PROVE  Alternates(Append(seen[n], Question(n)))
    BY DEF InputAlternates, Alternates, Waiting
  <2>1. Alternates(seen[n]) /\ Len(seen[n]) % 2 = 0 /\ seen[n] \in Seq(Messages)
    BY DEF PairsInv, TypeOK
  <2>2. Question(n) \in Messages /\ Question(n).role = "user"
    BY DEF Question, Messages
  <2> QED
    BY <2>1, <2>2, AppendAlternates
<1>4. Spec => [](TypeOK /\ OneAtATime)
  BY AloneInvariant
<1> QED
  BY <1>1, <1>2, <1>3, <1>4, PTL DEF Spec

-----------------------------------------------------------------------------
(* The list of exchanges *)

\* The turn that is about to be answered has read the last exchanges, or none,
\* and no message has come since but its own question.
BasisInv ==
  \A n \in Turns : at[n] \in {"replying", "question", "answer"} =>
    TurnsIn(seen[n]) \in {Exchanges!Recent, <<>>}

\* Halves, stated apart from sequences.
LEMMA HalfGrows ==
  ASSUME NEW a \in Nat
  PROVE  /\ a \div 2 \in Nat /\ 2 * (a \div 2) =< a
         /\ a % 2 = 0 => (a + 1) \div 2 = a \div 2 /\ 2 * (a \div 2) = a
         /\ a % 2 = 1 => (a + 1) \div 2 = (a \div 2) + 1 /\ 2 * ((a \div 2) + 1) = a + 1
OBVIOUS

\* The exchanges of a list of messages, by their number and their turns.
LEMMA TurnsInFacts ==
  ASSUME NEW s \in Seq(Messages)
  PROVE  /\ TurnsIn(s) \in Seq(Turns)
         /\ Len(TurnsIn(s)) = Len(s) \div 2
         /\ \A i \in 1..(Len(s) \div 2) : TurnsIn(s)[i] = s[2 * i].turn
<1>1. Len(s) \div 2 \in Nat /\ 2 * (Len(s) \div 2) =< Len(s)
  BY HalfGrows
<1>2. \A i \in 1..(Len(s) \div 2) : 2 * i \in 1..Len(s)
  BY <1>1
<1>3. \A m \in Messages : m.turn \in Turns
  BY DEF Messages
<1>4. \A i \in 1..(Len(s) \div 2) : s[2 * i].turn \in Turns
  <2>1. \A i \in 1..Len(s) : s[i] \in Messages
    OBVIOUS
  <2> QED
    BY <1>2, <1>3, <2>1
<1> QED
  BY <1>1, <1>4 DEF TurnsIn

\* Two sequences with the same elements are equal.
LEMMA SameSeq ==
  ASSUME NEW S, NEW s \in Seq(S), NEW t \in Seq(S), Len(s) = Len(t),
         \A i \in 1..Len(s) : s[i] = t[i]
  PROVE  s = t
OBVIOUS

\* The exchanges of the last messages are the last exchanges.
LEMMA RecentIsHistory ==
  ASSUME HistoryLimit % 2 = 0, log \in Seq(Messages), Len(log) % 2 = 0
  PROVE  TurnsIn(History) = Exchanges!Recent
<1> DEFINE h == HistoryLimit \div 2
           k == Len(log) \div 2
<1>1. /\ HistoryLimit \in Nat \ {0} /\ h \in Nat /\ HistoryLimit = 2 * h
      /\ Len(log) \in Nat /\ k \in Nat /\ Len(log) = 2 * k
  BY ConversationAssumption, HalfGrows
<1>2. /\ TurnsIn(log) \in Seq(Turns) /\ Len(TurnsIn(log)) = k
      /\ \A i \in 1..k : TurnsIn(log)[i] = log[2 * i].turn
  BY TurnsInFacts
<1>3. History \in Seq(Messages)
  BY HistoryType
<1> DEFINE d == IF k > h THEN k - h ELSE 0
<1>4. d \in Nat /\ d =< k
  BY <1>1
<1>5. History = SubSeq(log, 2 * d + 1, 2 * k)
  <2>1. Len(log) > HistoryLimit <=> k > h
    BY <1>1
  <2>2. CASE k > h
    <3>1. Len(log) - HistoryLimit + 1 = 2 * d + 1
      BY <1>1, <2>2
    <3> QED
      BY <1>1, <2>1, <2>2, <3>1 DEF History
  <2>3. CASE ~(k > h)
    <3>1. 1 = 2 * d + 1
      BY <2>3
    <3> QED
      BY <1>1, <2>1, <2>3, <3>1 DEF History
  <2> QED
    BY <2>2, <2>3
<1>6. Exchanges!Recent = SubSeq(TurnsIn(log), d + 1, k)
  BY <1>1, <1>2 DEF Exchanges!Recent
<1> HIDE DEF h, k, d
<1>7. /\ Len(History) = 2 * (k - d)
      /\ \A i \in 1..(2 * (k - d)) : History[i] = log[i + 2 * d]
  BY <1>1, <1>4, <1>5
<1>8. /\ Exchanges!Recent \in Seq(Turns) /\ Len(Exchanges!Recent) = k - d
      /\ \A i \in 1..(k - d) : Exchanges!Recent[i] = TurnsIn(log)[i + d]
  BY <1>1, <1>2, <1>4, <1>6
<1>9. Len(History) \div 2 = k - d
  BY <1>1, <1>4, <1>7
<1>10. ASSUME NEW i \in 1..(k - d)
       PROVE  TurnsIn(History)[i] = Exchanges!Recent[i]
  <2>1. TurnsIn(History)[i] = History[2 * i].turn
    BY <1>3, <1>9, TurnsInFacts
  <2>2. 2 * i \in 1..(2 * (k - d)) /\ i + d \in 1..k /\ 2 * i + 2 * d = 2 * (i + d)
    BY <1>1, <1>4
  <2>3. History[2 * i] = log[2 * (i + d)]
    BY <1>7, <2>2
  <2> QED
    BY <1>2, <1>8, <2>1, <2>2, <2>3
<1>11. TurnsIn(History) \in Seq(Turns) /\ Len(TurnsIn(History)) = k - d
  BY <1>3, <1>9, TurnsInFacts
<1> QED
  BY <1>8, <1>10, <1>11, SameSeq

\* A question does not add an exchange, an answer adds its turn.
LEMMA QuestionAddsNone ==
  ASSUME NEW s \in Seq(Messages), NEW m \in Messages, Len(s) % 2 = 0
  PROVE  TurnsIn(Append(s, m)) = TurnsIn(s)
<1>1. /\ Append(s, m) \in Seq(Messages) /\ Len(Append(s, m)) = Len(s) + 1
      /\ \A i \in 1..Len(s) : Append(s, m)[i] = s[i]
  OBVIOUS
<1>2. /\ Len(s) \in Nat /\ (Len(s) + 1) \div 2 = Len(s) \div 2
      /\ 2 * (Len(s) \div 2) =< Len(s) /\ Len(s) \div 2 \in Nat
  BY HalfGrows
<1>3. \A i \in 1..(Len(s) \div 2) : 2 * i \in 1..Len(s)
  BY <1>2
<1>4. /\ TurnsIn(s) \in Seq(Turns) /\ Len(TurnsIn(s)) = Len(s) \div 2
      /\ \A i \in 1..(Len(s) \div 2) : TurnsIn(s)[i] = s[2 * i].turn
  BY TurnsInFacts
<1>5. /\ TurnsIn(Append(s, m)) \in Seq(Turns)
      /\ Len(TurnsIn(Append(s, m))) = Len(s) \div 2
      /\ \A i \in 1..(Len(s) \div 2) : TurnsIn(Append(s, m))[i] = Append(s, m)[2 * i].turn
  BY <1>1, <1>2, TurnsInFacts
<1>6. \A i \in 1..(Len(s) \div 2) : TurnsIn(Append(s, m))[i] = TurnsIn(s)[i]
  BY <1>1, <1>3, <1>4, <1>5
<1> QED
  BY <1>4, <1>5, <1>6, SameSeq

LEMMA AnswerAddsTurn ==
  ASSUME NEW s \in Seq(Messages), NEW m \in Messages, Len(s) % 2 = 1
  PROVE  TurnsIn(Append(s, m)) = Append(TurnsIn(s), m.turn)
<1>1. /\ Append(s, m) \in Seq(Messages) /\ Len(Append(s, m)) = Len(s) + 1
      /\ \A i \in 1..Len(s) : Append(s, m)[i] = s[i]
      /\ Append(s, m)[Len(s) + 1] = m
  OBVIOUS
<1> DEFINE k == Len(s) \div 2
<1>2. /\ Len(s) \in Nat /\ (Len(s) + 1) \div 2 = k + 1
      /\ 2 * k =< Len(s) /\ k \in Nat /\ 2 * (k + 1) = Len(s) + 1
  BY HalfGrows
<1>3. m.turn \in Turns
  BY DEF Messages
<1>4. /\ TurnsIn(s) \in Seq(Turns) /\ Len(TurnsIn(s)) = k
      /\ \A i \in 1..k : TurnsIn(s)[i] = s[2 * i].turn
  BY TurnsInFacts
<1>5. /\ TurnsIn(Append(s, m)) \in Seq(Turns)
      /\ Len(TurnsIn(Append(s, m))) = k + 1
      /\ \A i \in 1..(k + 1) : TurnsIn(Append(s, m))[i] = Append(s, m)[2 * i].turn
  BY <1>1, <1>2, TurnsInFacts
<1> HIDE DEF k
<1>6. \A i \in 1..k : 2 * i \in 1..Len(s)
  BY <1>2
<1>7. \A i \in 1..k : TurnsIn(Append(s, m))[i] = TurnsIn(s)[i]
  BY <1>1, <1>2, <1>4, <1>5, <1>6
<1>8. TurnsIn(Append(s, m))[k + 1] = m.turn
  BY <1>1, <1>2, <1>5
<1>9. /\ Append(TurnsIn(s), m.turn) \in Seq(Turns)
      /\ Len(Append(TurnsIn(s), m.turn)) = k + 1
      /\ \A i \in 1..k : Append(TurnsIn(s), m.turn)[i] = TurnsIn(s)[i]
      /\ Append(TurnsIn(s), m.turn)[k + 1] = m.turn
  BY <1>3, <1>4
<1>10. ASSUME NEW i \in 1..(k + 1)
       PROVE  TurnsIn(Append(s, m))[i] = Append(TurnsIn(s), m.turn)[i]
  <2>1. i \in 1..k \/ i = k + 1
    BY <1>2
  <2> QED
    BY <2>1, <1>7, <1>8, <1>9
<1> QED
  BY <1>5, <1>9, <1>10, SameSeq

LEMMA NoTurns == TurnsIn(<<>>) = <<>>
<1>1. <<>> \in Seq(Messages) /\ Len(<<>>) \div 2 = 0
  OBVIOUS
<1>2. TurnsIn(<<>>) \in Seq(Turns) /\ Len(TurnsIn(<<>>)) = 0
  BY <1>1, TurnsInFacts
<1> QED
  BY <1>2

\* Nobody answers on an older history: while a turn is between its reading and
\* its answer no exchange is added or erased.
LEMMA BasisKept ==
  ASSUME HistoryLimit % 2 = 0, Upsets = {},
         TypeOK, OneAtATime, PairsInv, BasisInv, [Next]_vars
  PROVE  BasisInv'
<1> USE DEF turnVars, renVars, pageVars, agentVars
<1> DEFINE Moved(n) == at'[n] \in {"replying", "question", "answer"}
                         => at[n] \in {"replying", "question", "answer"}
<1>0. ASSUME seen' = seen, TurnsIn(log') = TurnsIn(log), \A n \in Turns : Moved(n)
      PROVE  BasisInv'
  <2>1. Exchanges!Recent' = Exchanges!Recent
    BY <1>0 DEF Exchanges!Recent
  <2>2. ASSUME NEW n \in Turns, at'[n] \in {"replying", "question", "answer"}
        PROVE  TurnsIn(seen'[n]) \in {Exchanges!Recent', <<>>}
    <3>1. TurnsIn(seen[n]) \in {Exchanges!Recent, <<>>}
      BY <1>0, <2>2 DEF BasisInv
    <3> QED
      BY <3>1, <2>1, <1>0
  <2> QED
    BY <2>2 DEF BasisInv, TurnsIn
<1>1. CASE UNCHANGED vars
  BY <1>1, <1>0 DEF vars
<1>2. ASSUME NEW n \in Turns, Turn(n) PROVE BasisInv'
  <2>1. at[n] \in Running => \A m \in Turns \ {n} : at[m] \notin Running
    BY DEF OneAtATime
  <2>2. CASE ReadHistory(n)
    <3>1. Len(log) % 2 = 0
      BY <2>1, <2>2 DEF ReadHistory, PairsInv, Running
    <3>2. seen'[n] \in {History, <<>>} /\ log' = log
      BY <2>2 DEF ReadHistory, TypeOK
    <3>3. TurnsIn(seen'[n]) \in {Exchanges!Recent, <<>>}
      BY <3>1, <3>2, RecentIsHistory, NoTurns DEF TypeOK
    <3>4. \A m \in Turns \ {n} : at'[m] \notin {"replying", "question", "answer"}
      BY <2>1, <2>2 DEF ReadHistory, Running, TypeOK
    <3>5. Exchanges!Recent' = Exchanges!Recent
      BY <3>2 DEF Exchanges!Recent, TurnsIn
    <3> QED
      BY <3>3, <3>4, <3>5 DEF BasisInv, TurnsIn
  <2>3. CASE Replied(n) \/ FindRow(n) \/ StoreRow(n)
    BY <2>3, <1>0 DEF Replied, FindRow, StoreRow, TypeOK
  <2>4. CASE AppendQuestion(n)
    <3>1. Len(log) % 2 = 0
      BY <2>1, <2>4 DEF AppendQuestion, PairsInv, Running
    <3>2. Question(n) \in Messages /\ log' = Append(log, Question(n)) /\ log \in Seq(Messages)
      BY <2>4 DEF AppendQuestion, Question, Messages, TypeOK
    <3>3. TurnsIn(log') = TurnsIn(log)
      BY <3>1, <3>2, QuestionAddsNone
    <3>4. seen' = seen /\ \A m \in Turns : Moved(m)
      BY <2>4 DEF AppendQuestion, TypeOK
    <3> QED
      BY <3>3, <3>4, <1>0
  <2>5. CASE AppendAnswer(n)
    <3>1. \A m \in Turns : at'[m] \notin {"replying", "question", "answer"}
      BY <2>1, <2>5 DEF AppendAnswer, AfterReply, Running, TypeOK
    <3> QED
      BY <3>1 DEF BasisInv
  <2>6. ~FailWrite(n)
    BY DEF FailWrite
  <2> QED
    BY <1>2, <2>2, <2>3, <2>4, <2>5, <2>6 DEF Turn
<1>3. ASSUME NEW n \in Turns, Page(n) PROVE BasisInv'
  <2>1. ~HandOff(n) /\ ~StreamLost(n)
    BY DEF HandOff, StreamLost, OneAtATime
  <2>2. seen' = seen /\ log' = log /\ \A m \in Turns : Moved(m)
    BY <1>3, <2>1 DEF Page, Send, StreamEnds, TypeOK
  <2> QED
    BY <2>2, <1>0
<1>4. CASE DeleteConv \/ RenameFind \/ RenameWrite \/ EraseRow
  BY <1>4, <1>0 DEF DeleteConv, RenameFind, RenameWrite, EraseRow
<1>5. CASE EraseMessages
  <2>1. \A n \in Turns : at'[n] \notin {"replying", "question", "answer"}
    BY <1>5 DEF EraseMessages, OneAtATime, Running
  <2> QED
    BY <2>1 DEF BasisInv
<1>6. ~Crash /\ ~DeleteAgent
  BY DEF Crash, DeleteAgent
<1> QED
  BY <1>1, <1>2, <1>3, <1>4, <1>5, <1>6 DEF Next

ExchangeInv == TypeOK /\ LogInv /\ OneAtATime /\ PairsInv /\ BasisInv

\* Each step of the conversation is an exchange, an erasure or neither.
LEMMA StepsAreExchanges ==
  ASSUME HistoryLimit % 2 = 0, Upsets = {}, ExchangeInv, [Next]_vars
  PROVE  [Exchanges!Next]_(Exchanges!transcriptVars)
<1> DEFINE Told(n) == IF HasAnswered(n) THEN TurnsIn(seen[n]) ELSE <<>>
           basis == [n \in Turns |-> Told(n)]
<1> USE DEF turnVars, renVars, pageVars, agentVars
<1>0. ASSUME TurnsIn(log') = TurnsIn(log),
             \A n \in Turns : HasAnswered(n)' = HasAnswered(n)
                              /\ (HasAnswered(n) => seen'[n] = seen[n])
      PROVE  [Exchanges!Next]_(Exchanges!transcriptVars)
  <2>1. \A n \in Turns : Told(n)' = Told(n)
    BY <1>0 DEF TurnsIn
  <2>2. basis' = basis
    BY <2>1
  <2> QED
    BY <1>0, <2>2 DEF Exchanges!transcriptVars, TurnsIn
<1>1. CASE UNCHANGED vars
  BY <1>1, <1>0 DEF vars, HasAnswered, TurnsIn
<1>2. ASSUME NEW n \in Turns, Turn(n)
      PROVE  [Exchanges!Next]_(Exchanges!transcriptVars)
  <2>1. CASE ReadHistory(n) \/ Replied(n) \/ FindRow(n) \/ StoreRow(n)
    BY <2>1, <1>0 DEF ReadHistory, Replied, FindRow, StoreRow, HasAnswered, ExchangeInv,
      TypeOK, TurnsIn
  <2>2. CASE AppendQuestion(n)
    <3>1. \A m \in Turns \ {n} : at[m] # "answer"
      BY <2>2 DEF AppendQuestion, ExchangeInv, OneAtATime, Running
    <3>2. Len(log) % 2 = 0
      BY <3>1, <2>2 DEF AppendQuestion, ExchangeInv, TypeOK, PairsInv
    <3>3. Question(n) \in Messages /\ log' = Append(log, Question(n)) /\ log \in Seq(Messages)
      BY <2>2 DEF AppendQuestion, Question, Messages, ExchangeInv, TypeOK
    <3>4. TurnsIn(log') = TurnsIn(log)
      BY <3>2, <3>3, QuestionAddsNone
    <3> QED
      BY <3>4, <2>2, <1>0 DEF AppendQuestion, HasAnswered, ExchangeInv, TypeOK
  <2>3. CASE AppendAnswer(n)
    <3>1. Len(log) % 2 = 1 /\ at[n] = "answer" /\ Alternates(log)
      BY <2>3 DEF AppendAnswer, ExchangeInv, PairsInv
    <3>2. /\ Answer(n) \in Messages /\ Answer(n).turn = n
          /\ log' = Append(log, Answer(n)) /\ log \in Seq(Messages)
      BY <2>3 DEF AppendAnswer, Answer, Messages, ExchangeInv, TypeOK
    <3>3. TurnsIn(log') = Append(TurnsIn(log), n)
      BY <3>1, <3>2, AnswerAddsTurn
    <3>4. ASSUME NEW i \in 1..Len(TurnsIn(log)) PROVE TurnsIn(log)[i] # n
      <4>1. /\ Len(log) \in Nat /\ Len(log) \div 2 \in Nat
            /\ 2 * (Len(log) \div 2) =< Len(log)
        BY <3>2, HalfGrows
      <4>2. i \in 1..(Len(log) \div 2) /\ TurnsIn(log)[i] = log[2 * i].turn
        BY <3>2, TurnsInFacts
      <4>3. 2 * i \in 1..Len(log) /\ (2 * i) % 2 = 0
        BY <4>1, <4>2
      <4>4. log[2 * i].role = "assistant"
        BY <3>1, <4>3 DEF Alternates
      <4>5. log[2 * i] \in Messages
        BY <3>2, <4>3
      <4>6. log[2 * i].turn = n => log[2 * i] = Answer(n)
        BY <4>4, <4>5 DEF Messages, Answer
      <4>7. ~Answered(n, 2 * i)
        BY <3>1, <4>3 DEF ExchangeInv, LogInv
      <4> QED
        BY <4>2, <4>3, <4>6, <4>7 DEF Answered
    <3>5. TurnsIn(seen[n]) \in {Exchanges!Recent, <<>>}
      BY <3>1 DEF ExchangeInv, BasisInv
    <3>6. basis' = [basis EXCEPT ![n] = TurnsIn(seen[n])]
      <4>1. HasAnswered(n)' /\ seen' = seen
        BY <2>3 DEF AppendAnswer, AfterReply, HasAnswered, ExchangeInv, TypeOK
      <4>2. \A m \in Turns \ {n} : HasAnswered(m)' = HasAnswered(m)
        BY <2>3 DEF AppendAnswer, HasAnswered, ExchangeInv, TypeOK
      <4>3. Told(n)' = TurnsIn(seen[n]) /\ \A m \in Turns \ {n} : Told(m)' = Told(m)
        BY <4>1, <4>2 DEF TurnsIn
      <4> QED
        BY <4>3
    <3>7. Exchanges!Exchange(n)
      BY <3>3, <3>4, <3>5, <3>6 DEF Exchanges!Exchange, TurnsIn
    <3> QED
      BY <3>7 DEF Exchanges!Next
  <2>4. ~FailWrite(n)
    BY DEF FailWrite
  <2> QED
    BY <1>2, <2>1, <2>2, <2>3, <2>4 DEF Turn
<1>3. ASSUME NEW n \in Turns, Page(n)
      PROVE  [Exchanges!Next]_(Exchanges!transcriptVars)
  <2>1. ~HandOff(n) /\ ~StreamLost(n)
    BY DEF HandOff, StreamLost, ExchangeInv, OneAtATime
  <2> QED
    BY <1>3, <2>1, <1>0 DEF Page, Send, IsNext, StreamEnds, HasAnswered, ExchangeInv, TypeOK,
      TurnsIn
<1>4. CASE DeleteConv \/ RenameFind \/ RenameWrite \/ EraseRow
  BY <1>4, <1>0 DEF DeleteConv, RenameFind, RenameWrite, EraseRow, HasAnswered, TurnsIn
<1>5. CASE EraseMessages
  <2>1. TurnsIn(log') = <<>> /\ UNCHANGED <<at, seen>>
    BY <1>5, NoTurns DEF EraseMessages, TurnsIn
  <2>2. basis' = basis
    BY <2>1 DEF HasAnswered, TurnsIn
  <2>3. Exchanges!Erase
    BY <2>1, <2>2 DEF Exchanges!Erase, TurnsIn
  <2> QED
    BY <2>3 DEF Exchanges!Next
<1>6. ~Crash /\ ~DeleteAgent
  BY DEF Crash, DeleteAgent
<1> QED
  BY <1>1, <1>2, <1>3, <1>4, <1>5, <1>6 DEF Next

\* sql_memory.py 42-56, chat_engine.py:946-978: with turns one after the other
\* whose writes succeed, and a history limit that is even, the conversation is
\* a list of exchanges, each answered once, knowing the last ones before it.
THEOREM ExchangesAreKept ==
  ASSUME HistoryLimit % 2 = 0, Upsets = {}
  PROVE  Spec => TranscriptKept
<1>1. Init => ExchangeInv /\ Exchanges!Init
  <2> SUFFICES ASSUME Init PROVE ExchangeInv /\ Exchanges!Init
    OBVIOUS
  <2>1. Alternates(<<>>) /\ Len(<<>>) % 2 = 0
    BY DEF Alternates
  <2>2. TypeOK /\ LogInv
    BY InitConv DEF ConvInv
  <2>3. OneAtATime
    BY DEF Init, OneAtATime, ErasedStaysErased, Cleared, Running
  <2>4. PairsInv /\ BasisInv
    BY <2>1 DEF Init, PairsInv, BasisInv, Waiting
  <2>5. Exchanges!Init
    BY NoTurns DEF Init, Exchanges!Init, HasAnswered
  <2> QED
    BY <2>2, <2>3, <2>4, <2>5 DEF ExchangeInv
<1>2. ConvInv /\ ExchangeInv /\ [Next]_vars => ExchangeInv'
  BY TypesKept, LogKept, AloneKept, PairsKept, BasisKept DEF ExchangeInv, ConvInv
<1>3. ExchangeInv /\ [Next]_vars => [Exchanges!Next]_(Exchanges!transcriptVars)
  BY StepsAreExchanges
<1> QED
  BY ConvInvariant, <1>1, <1>2, <1>3, PTL DEF Spec, TranscriptKept, Exchanges!Spec
=============================================================================
