------------------------------ MODULE Transcript ------------------------------
(***************************************************************************)
(* What a conversation promises when its turns do not overlap: a list of   *)
(* complete exchanges, a question with its answer, to which a turn adds    *)
(* one and from which the user may erase all.  The model answers knowing   *)
(* the last Depth exchanges, or none when the agent starts by itself.      *)
(* Conversation.tla implements it.                                         *)
(***************************************************************************)
EXTENDS Naturals, Sequences

CONSTANTS Turns,   \* names of exchanges: 1..k for some k
          Depth    \* exchanges the model is shown: a positive number

VARIABLES
  exchanges,  \* the turns, in the order in which they were answered
  basis       \* basis[n]: the exchanges the answer of turn n knew of

transcriptVars == <<exchanges, basis>>

Recent ==
  SubSeq(exchanges,
         IF Len(exchanges) > Depth THEN Len(exchanges) - Depth + 1 ELSE 1,
         Len(exchanges))

Init ==
  /\ exchanges = <<>>
  /\ basis = [n \in Turns |-> <<>>]

Exchange(n) ==
  /\ \A i \in 1..Len(exchanges) : exchanges[i] # n
  /\ exchanges' = Append(exchanges, n)
  /\ \E b \in {Recent, <<>>} : basis' = [basis EXCEPT ![n] = b]

Erase ==
  /\ exchanges' = <<>>
  /\ UNCHANGED basis

Next == Erase \/ \E n \in Turns : Exchange(n)

Spec == Init /\ [][Next]_transcriptVars
=============================================================================
