------------------------- MODULE StudioChatProofs -------------------------
(***************************************************************************)
(* For any number of sessions and prompts: no file is written without      *)
(* permission, and a model is given what the session holds.                *)
(*                                                                         *)
(* Writing.  The strengthening: a handler that waits for a decision still  *)
(* has its stream, since the abort that takes the stream away also ends    *)
(* the wait.  Without it the decision of a user who answered and left      *)
(* could start a write for a page that has gone.                           *)
(*                                                                         *)
(* History.  What a model is given is read once, when the run starts, and  *)
(* the session grows afterwards.  The strengthening follows the rows of a  *)
(* session: a run that is over has said its last, every row belongs to a   *)
(* run of its session that has begun or to an earlier page, no row is      *)
(* there twice, a session none of whose runs was cut off holds them in     *)
(* order of their runs, and the run under way has its prompt at the end.   *)
(* The reading sorts rows by their numbers, so that a stable sort of a     *)
(* sequence is a permutation of it has to be proved first.  Where runs     *)
(* were cut off the rows are in no order: there a second strengthening     *)
(* follows a prompt from its number, above all in use, to the history.     *)
(***************************************************************************)
EXTENDS StudioChat, SequenceTheorems, FiniteSetTheorems, FunctionTheorems, TLAPS

ChatIInv ==
    /\ intent \in [Chat -> {"talk", "ask", "yolo"}]
    /\ stage \in [Chat -> Stage]
    /\ \A r \in Chat : stage[r] = "asking" => r \notin gone

\* What WritesPermitted says of one step.
WriteStep ==
    \A r \in Chat : stage[r] # "writing" /\ stage'[r] = "writing" =>
        /\ r \notin gone
        /\ intent[r] = "yolo" \/ clicked[r] = "allow"

-----------------------------------------------------------------------------

LEMMA ChatStarts == ChatInit => ChatIInv
BY DEF ChatInit, ChatIInv, Stage

\* A step that moves one run to a stage that is neither waiting nor writing,
\* and takes no stream away, is harmless.
LEMMA HarmlessMove ==
    ASSUME ChatIInv, NEW r, NEW s \in Stage \ {"asking", "writing"}, Goto(r, s),
           UNCHANGED gone, intent' \in [Chat -> {"talk", "ask", "yolo"}]
    PROVE  ChatIInv' /\ WriteStep
BY DEF ChatIInv, WriteStep, Goto, Stage

\* A step that moves no run and takes no stream away is, too.
LEMMA HarmlessStay ==
    ASSUME ChatIInv, UNCHANGED <<stage, gone, intent>>
    PROVE  ChatIInv' /\ WriteStep
BY DEF ChatIInv, WriteStep

\* An event that is sent leaves its run over or on the way to s.
LEMMA HarmlessSend ==
    ASSUME ChatIInv, NEW r, NEW s \in Stage \ {"asking", "writing"}, Sends(r, s),
           UNCHANGED <<gone, intent>>
    PROVE  ChatIInv' /\ WriteStep
<1>1. \E t \in Stage \ {"asking", "writing"} : Goto(r, t)
  BY DEF Sends, Stage
<1>2. intent' \in [Chat -> {"talk", "ask", "yolo"}]
  BY DEF ChatIInv
<1>. QED  BY <1>1, <1>2, HarmlessMove

\* The steps of the page: none of them reaches the stages of the server but
\* the prompt that is posted.
LEMMA PageSteps ==
    ASSUME ChatIInv,
           \/ \E i \in Intents : SendPrompt(i)
           \/ CloseChat \/ ChatDone
           \/ \E s \in Session : SelectSession(s)
           \/ \E r \in Chat : \/ \E d \in {"allow", "deny"} : Respond(r, d)
                              \/ DecisionLost(r)
    PROVE  ChatIInv' /\ WriteStep
<1>1. ASSUME NEW i \in Intents, SendPrompt(i) PROVE ChatIInv' /\ WriteStep
  <2>1. intent' \in [Chat -> {"talk", "ask", "yolo"}]
    BY <1>1, ChatAssumption DEF SendPrompt, ChatIInv
  <2>2. Goto(sent + 1, "posted") /\ UNCHANGED gone
    BY <1>1 DEF SendPrompt
  <2>. QED  BY <2>1, <2>2, HarmlessMove DEF Stage
<1>2. CASE CloseChat
  BY <1>2, HarmlessStay DEF CloseChat, promptVars, handlerVars
<1>3. CASE ChatDone
  BY <1>3, HarmlessStay DEF ChatDone, promptVars, handlerVars
<1>4. ASSUME NEW s \in Session, SelectSession(s) PROVE ChatIInv' /\ WriteStep
  BY <1>4, HarmlessStay DEF SelectSession, promptVars, handlerVars
<1>5. ASSUME NEW r \in Chat, NEW d \in {"allow", "deny"}, Respond(r, d)
      PROVE  ChatIInv' /\ WriteStep
  BY <1>5, HarmlessStay DEF Respond, promptVars, handlerVars
<1>6. ASSUME NEW r \in Chat, DecisionLost(r) PROVE ChatIInv' /\ WriteStep
  BY <1>6, HarmlessStay DEF DecisionLost, promptVars, handlerVars
<1>. QED  BY <1>1, <1>2, <1>3, <1>4, <1>5, <1>6

\* The end of the model is one of the two ways into a write: in yolo mode,
\* and through an event that is sent.
LEMMA ModelEndsStep ==
    ASSUME ChatIInv, NEW r \in Chat, ModelEnds(r)
    PROVE  ChatIInv' /\ WriteStep
<1>1. UNCHANGED <<gone, intent>>
  BY DEF ModelEnds, promptVars
<1>2. CASE r \in gone
  <2>1. Goto(r, "over")
    BY <1>2 DEF ModelEnds, Sends
  <2>. QED  BY <1>1, <2>1, HarmlessMove DEF ChatIInv, Stage
<1>3. CASE r \notin gone /\ intent[r] = "talk"
  <2>1. Goto(r, "answered")
    BY <1>3 DEF ModelEnds, Sends
  <2>. QED  BY <1>1, <2>1, HarmlessMove DEF ChatIInv, Stage
<1>4. CASE r \notin gone /\ intent[r] = "ask"
  <2>1. stage' = [stage EXCEPT ![r] = "asking"]
    BY <1>4 DEF ModelEnds, Sends, Goto
  <2>. QED  BY <1>1, <1>4, <2>1 DEF ChatIInv, WriteStep, Stage
<1>5. CASE r \notin gone /\ intent[r] = "yolo"
  <2>1. stage' = [stage EXCEPT ![r] = "writing"]
    BY <1>5 DEF ModelEnds, Sends, Goto
  <2>. QED  BY <1>1, <1>5, <2>1 DEF ChatIInv, WriteStep, Stage
<1>. QED  BY <1>2, <1>3, <1>4, <1>5 DEF ChatIInv

\* The decision is the other one: the user's "allow", for a handler that is
\* waiting and so still has its stream.
LEMMA DecideStep ==
    ASSUME ChatIInv, NEW r \in Chat, Decide(r)
    PROVE  ChatIInv' /\ WriteStep
<1>1. UNCHANGED <<gone, intent>>
  BY DEF Decide, promptVars
<1>2. CASE stage[r] # "asking"
  <2>1. UNCHANGED stage
    BY <1>2 DEF Decide
  <2>. QED  BY <1>1, <2>1, HarmlessStay
<1>3. CASE stage[r] = "asking" /\ clicked[r] = "allow"
  <2>1. stage' = [stage EXCEPT ![r] = "writing"]
    BY <1>3 DEF Decide, Goto
  <2>2. r \notin gone
    BY <1>3 DEF ChatIInv
  <2>. QED  BY <1>1, <1>3, <2>1, <2>2 DEF ChatIInv, WriteStep, Stage
<1>4. CASE stage[r] = "asking" /\ clicked[r] # "allow"
  <2>1. Goto(r, "answered")
    BY <1>4 DEF Decide
  <2>. QED  BY <1>1, <2>1, HarmlessMove DEF ChatIInv, Stage
<1>. QED  BY <1>2, <1>3, <1>4

\* A stream that is cancelled takes the wait for a decision with it.
LEMMA StreamCancelledStep ==
    ASSUME ChatIInv, NEW r \in Chat, StreamCancelled(r)
    PROVE  ChatIInv' /\ WriteStep
<1>1. gone' = gone \cup {r} /\ UNCHANGED intent
  BY DEF StreamCancelled, pageVars, promptVars
<1>2. CASE stage[r] = "asking"
  <2>1. stage' = [stage EXCEPT ![r] = "over"]
    BY <1>2 DEF StreamCancelled, Goto
  <2>. QED  BY <1>1, <1>2, <2>1 DEF ChatIInv, WriteStep, Stage
<1>3. CASE stage[r] # "asking"
  <2>1. UNCHANGED stage
    BY <1>3 DEF StreamCancelled
  <2>. QED  BY <1>1, <1>3, <2>1 DEF ChatIInv, WriteStep
<1>. QED  BY <1>2, <1>3

\* The other steps of a handler.
LEMMA HandlerSteps ==
    ASSUME ChatIInv, NEW r \in Chat, Refuse(r) \/ ServerStep(r)
    PROVE  ChatIInv' /\ WriteStep
<1>. USE DEF pageVars, promptVars, tableVars
<1>1. CASE Refuse(r)
  BY <1>1, HarmlessMove DEF Refuse, ChatIInv, Stage
<1>2. CASE ReadNumber(r)
  BY <1>2, HarmlessMove DEF ReadNumber, ChatIInv, Stage
<1>3. CASE SaveMessage(r)
  BY <1>3, HarmlessMove DEF SaveMessage, ChatIInv, Stage
<1>4. CASE LoadHistory(r)
  BY <1>4, HarmlessMove DEF LoadHistory, ChatIInv, Stage
<1>5. CASE Token(r)
  BY <1>5, HarmlessSend DEF Token, Stage
<1>6. CASE ModelEnds(r)
  BY <1>6, ModelEndsStep
<1>7. CASE ModelFails(r)
  BY <1>7, HarmlessSend DEF ModelFails, Stage
<1>8. CASE PermissionExpires(r)
  BY <1>8, HarmlessMove DEF PermissionExpires, ChatIInv, Stage
<1>9. CASE FileWritten(r)
  BY <1>9, HarmlessSend DEF FileWritten, Stage
<1>10. CASE NoReply(r)
  BY <1>10, HarmlessMove DEF NoReply, ChatIInv, Stage
<1>. QED
  BY <1>1, <1>2, <1>3, <1>4, <1>5, <1>6, <1>7, <1>8, <1>9, <1>10 DEF ServerStep

\* Every step keeps the strengthening and obeys the rule of the writes.
LEMMA ChatSteps == ChatIInv /\ [ChatNext]_ChatVars => ChatIInv' /\ WriteStep
<1>. SUFFICES ASSUME ChatIInv, [ChatNext]_ChatVars PROVE ChatIInv' /\ WriteStep
  OBVIOUS
<1>1. CASE \/ \E i \in Intents : SendPrompt(i)
           \/ CloseChat \/ ChatDone
           \/ \E s \in Session : SelectSession(s)
           \/ \E r \in Chat : \/ \E d \in {"allow", "deny"} : Respond(r, d)
                              \/ DecisionLost(r)
  BY <1>1, PageSteps
<1>2. ASSUME NEW r \in Chat, Refuse(r) \/ ServerStep(r) \/ Decide(r) \/ StreamCancelled(r)
      PROVE  ChatIInv' /\ WriteStep
  BY <1>2, HandlerSteps, DecideStep, StreamCancelledStep
<1>3. CASE UNCHANGED ChatVars
  BY <1>3, HarmlessStay DEF ChatVars, pageVars, promptVars, handlerVars
<1>. QED  BY <1>1, <1>2, <1>3 DEF ChatNext

\* A file is only written in yolo mode or after the user's "allow" for that
\* run, and no write begins for a page that the server knows has gone.
THEOREM WritesArePermitted == ChatSpec => WritesPermitted
<1>1. ChatIInv /\ [ChatNext]_ChatVars => [WriteStep]_ChatVars
  BY ChatSteps
<1>2. WritesPermitted <=> [][WriteStep]_ChatVars
  BY DEF WritesPermitted, WriteStep
<1>. QED  BY <1>1, <1>2, ChatStarts, ChatSteps, PTL DEF ChatSpec

-----------------------------------------------------------------------------
(***************************************************************************)
(* Messages in the order of their numbers.                                 *)
(***************************************************************************)

\* Who comes no later than i, by key and then by index.
Upto(key, n, i) == {j \in 1..n : key[j] < key[i] \/ (key[j] = key[i] /\ j <= i)}

LEMMA PlacesFilled ==
    ASSUME NEW n \in Nat, NEW key \in [1..n -> Nat]
    PROVE  /\ \A i \in 1..n : Cardinality(Upto(key, n, i)) \in 1..n
           /\ \A k \in 1..n : \E i \in 1..n : Cardinality(Upto(key, n, i)) = k
           /\ \A i, k \in 1..n :
                  Cardinality(Upto(key, n, i)) = Cardinality(Upto(key, n, k)) => i = k
           /\ \A i, k \in 1..n :
                  key[i] < key[k] => Cardinality(Upto(key, n, i)) < Cardinality(Upto(key, n, k))
<1>. DEFINE P == 1..n
            place == [i \in P |-> Cardinality(Upto(key, n, i))]
<1>1. IsFiniteSet(P) /\ Cardinality(P) = n
  <2>1. 1 \in Int /\ n \in Int
    OBVIOUS
  <2>2. IsFiniteSet(1..n) /\ Cardinality(1..n) = IF 1 > n THEN 0 ELSE n - 1 + 1
    BY <2>1, FS_Interval
  <2>. QED  BY <2>2
<1>2. \A i \in P : Upto(key, n, i) \in SUBSET P /\ i \in Upto(key, n, i)
  BY DEF Upto
<1>3. \A i \in P : IsFiniteSet(Upto(key, n, i)) /\ Cardinality(Upto(key, n, i)) \in Nat
                   /\ Cardinality(Upto(key, n, i)) <= n
  BY <1>1, <1>2, FS_Subset, FS_CardinalityType
<1>4. \A i \in P : Cardinality(Upto(key, n, i)) # 0
  BY <1>2, <1>3, FS_EmptySet
<1>5. place \in [P -> P]
  BY <1>3, <1>4
<1>6. ASSUME NEW i \in P, NEW k \in P, key[i] < key[k] \/ (key[i] = key[k] /\ i < k)
      PROVE  place[i] < place[k]
  <2>1. Upto(key, n, i) \in SUBSET Upto(key, n, k)
    BY <1>6 DEF Upto
  <2>2. k \notin Upto(key, n, i)
    BY <1>6 DEF Upto
  <2>3. Upto(key, n, i) # Upto(key, n, k)
    BY <1>2, <2>2
  <2>4. /\ Cardinality(Upto(key, n, i)) <= Cardinality(Upto(key, n, k))
        /\ Cardinality(Upto(key, n, k)) # Cardinality(Upto(key, n, i))
    BY <1>3, <2>1, <2>3, FS_Subset
  <2>. QED  BY <1>3, <2>4
<1>7. \A i, k \in P : place[i] = place[k] => i = k
  <2>1. \A i, k \in P : i # k => \/ key[i] < key[k] \/ (key[i] = key[k] /\ i < k)
                                 \/ key[k] < key[i] \/ (key[k] = key[i] /\ k < i)
    OBVIOUS
  <2>2. \A i \in P : place[i] \in Nat
    BY <1>5
  <2>. HIDE DEF place, P
  <2>. QED  BY <1>6, <2>1, <2>2
<1>10. place \in [P -> P] /\ \A i \in P : place[i] = Cardinality(Upto(key, n, i))
  BY <1>5
<1>. HIDE DEF place
<1>8. place \in Surjection(P, P)
  <2>1. place \in Injection(P, P)
    BY <1>5, <1>7, Fun_IsInj
  <2>. HIDE DEF P
  <2>. QED  BY <1>1, <2>1, FS_Injection
<1>9. \A k \in P : \E i \in P : place[i] = k
  <2>. HIDE DEF P
  <2>. QED  BY <1>8, Fun_SurjectionProperties
<1>. HIDE DEF P
<1>11. /\ \A i \in P : Cardinality(Upto(key, n, i)) \in P
       /\ \A k \in P : \E i \in P : Cardinality(Upto(key, n, i)) = k
       /\ \A i, k \in P : Cardinality(Upto(key, n, i)) = Cardinality(Upto(key, n, k)) => i = k
       /\ \A i, k \in P :
              key[i] < key[k] => Cardinality(Upto(key, n, i)) < Cardinality(Upto(key, n, k))
  BY <1>6, <1>7, <1>9, <1>10
<1>. QED  BY <1>11 DEF P

\* With gapless numbers every message stands where it was inserted.
LEMMA PlacesGapless ==
    ASSUME NEW n \in Nat, NEW key, \A i \in 1..n : key[i] = i - 1
    PROVE  \A i \in 1..n : Cardinality(Upto(key, n, i)) = i
<1>. SUFFICES ASSUME NEW i \in 1..n
              PROVE  Cardinality(Upto(key, n, i)) = i
  OBVIOUS
<1>1. Upto(key, n, i) = 1..i
  BY DEF Upto
<1>2. Cardinality(1..i) = IF 1 > i THEN 0 ELSE i - 1 + 1
  <2>1. 1 \in Int /\ i \in Int
    OBVIOUS
  <2>. QED  BY <2>1, FS_Interval
<1>. QED  BY <1>1, <1>2

\* Front drops the last element.
LEMMA FrontDrops ==
    ASSUME NEW S, NEW q \in Seq(S)
    PROVE  /\ Front(q) \in Seq(S)
           /\ Len(q) > 0 => /\ Len(Front(q)) = Len(q) - 1
                            /\ \A i \in 1..(Len(q) - 1) : Front(q)[i] = q[i]
<1>1. Len(q) \in Nat /\ \A i \in 1..Len(q) : q[i] \in S
  BY LenProperties, ElementOfSeq
<1>. DEFINE m == Len(q) - 1
<1>2. m \in Int /\ \A i \in 1..m : q[i] \in S
  BY <1>1
<1>3. /\ SubSeq(q, 1, m) \in Seq(S) /\ Len(SubSeq(q, 1, m)) = IF 1 <= m THEN m - 1 + 1 ELSE 0
      /\ \A i \in 1..(m - 1 + 1) : SubSeq(q, 1, m)[i] = q[1 + i - 1]
  <2>. HIDE DEF m
  <2>. QED  BY <1>2, SubSeqProperties
<1>4. Front(q) = SubSeq(q, 1, m)
  BY DEF Front
<1>5. m = Len(q) - 1 /\ \A i \in 1..(m - 1 + 1) : i = 1 + i - 1 /\ i \in 1..m
  BY <1>1
<1>. HIDE DEF m
<1>6. Front(q) \in Seq(S)
  BY <1>3, <1>4
<1>7. ASSUME Len(q) > 0
      PROVE  Len(Front(q)) = m /\ \A i \in 1..m : Front(q)[i] = q[i]
  <2>1. 1 <= m \/ m = 0
    BY <1>1, <1>5, <1>7
  <2>. QED  BY <1>1, <1>3, <1>4, <1>5, <2>1
<1>. QED  BY <1>5, <1>6, <1>7

\* Recent keeps the end of a sequence, up to the limit.
LEMMA RecentDrops ==
    ASSUME NEW S, NEW q \in Seq(S)
    PROVE  /\ Recent(q) \in Seq(S)
           /\ Len(Recent(q)) = IF Len(q) > HistoryLimit THEN HistoryLimit ELSE Len(q)
           /\ \A i \in 1..Len(Recent(q)) : Recent(q)[i] = q[Len(q) - Len(Recent(q)) + i]
<1>. DEFINE n == Len(q)
            m == IF n > HistoryLimit THEN n - HistoryLimit + 1 ELSE 1
            k == IF n > HistoryLimit THEN HistoryLimit ELSE n
<1>1. n \in Nat /\ HistoryLimit \in Nat /\ HistoryLimit >= 1 /\ \A i \in 1..n : q[i] \in S
  BY LenProperties, ElementOfSeq, ChatAssumption
<1>2. /\ m \in 1..(n + 1) /\ n - m + 1 = k /\ k \in Nat
      /\ \A i \in m..n : i \in 1..n
  BY <1>1
<1>3. Recent(q) = SubSeq(q, m, n)
  BY DEF Recent
<1>4. IF m <= n THEN n - m + 1 = k ELSE k = 0
  BY <1>1, <1>2
<1>. HIDE DEF m, k
<1>5. m \in Int /\ n \in Int /\ \A i \in m..n : q[i] \in S
  BY <1>1, <1>2
<1>6. /\ SubSeq(q, m, n) \in Seq(S)
      /\ Len(SubSeq(q, m, n)) = (IF m <= n THEN n - m + 1 ELSE 0)
      /\ \A i \in 1..(n - m + 1) : SubSeq(q, m, n)[i] = q[m + i - 1]
  <2>. HIDE DEF n
  <2>. QED  BY <1>5, SubSeqProperties
<1>7. Len(Recent(q)) = k
  BY <1>3, <1>4, <1>6
<1>8. ASSUME NEW i \in 1..k
      PROVE  Recent(q)[i] = q[n - k + i]
  <2>1. m + i - 1 = n - k + i /\ i \in 1..(n - m + 1)
    BY <1>1, <1>2
  <2>. QED  BY <1>3, <1>6, <2>1
<1>. QED  BY <1>3, <1>6, <1>7, <1>8 DEF k
-----------------------------------------------------------------------------
(***************************************************************************)
(* What a run is given.  RunsOver: of the runs the page still follows all  *)
(* but the active one are over.  RowsOwned, RowsDistinct: a session holds  *)
(* messages of its own runs, one of each kind, written at the stages they  *)
(* are written.  WholeRows: in a session none of whose runs was cut off,   *)
(* messages are inserted as they are numbered.  Current: there, the prompt *)
(* of the active run is the last message.                                  *)
(***************************************************************************)

Earlier(m, n) == m.run < n.run \/ (m.run = n.run /\ m.role = "user")

Consecutive(saved) ==
    \A j \in 1..Len(saved) :
        saved[j].number = j - 1 /\ \A i \in 1..(j - 1) : Earlier(saved[i], saved[j])

AskedLast(saved, r) ==
    /\ Len(saved) > 0 /\ saved[Len(saved)].run = r /\ saved[Len(saved)].role = "user"
    /\ \A i \in 1..(Len(saved) - 1) : saved[i].run < r

Whole(s) == \A q \in 1..sent : owner[q] = s => q \notin cut

RunsOver ==
    /\ \A q \in Chat : q > sent => stage[q] = "none"
    /\ \A q \in Chat : q <= sent /\ q \notin cut /\ q # active => stage[q] = "over"
    /\ active \notin cut /\ cards \subseteq 1..sent

RowsOwned ==
    \A s \in Session : \A i \in 1..Len(rows[s]) : rows[s][i].run # 0 =>
        /\ rows[s][i].run <= sent /\ owner[rows[s][i].run] = s
        /\ rows[s][i].role = "user" => stage[rows[s][i].run] \notin {"none", "posted", "numbered"}
        /\ rows[s][i].role = "assistant" => stage[rows[s][i].run] = "over"

RowsDistinct ==
    \A s \in Session : \A i, j \in 1..Len(rows[s]) :
        rows[s][i].run = rows[s][j].run /\ rows[s][i].role = rows[s][j].role => i = j

WholeRows == \A s \in Session : Whole(s) => Consecutive(rows[s])

\* Where a message of a run is on its way, its number is the next one; once
\* the prompt is saved it is the last message until the reply is; and the
\* history was all before it.
CurrentRun(r) ==
    /\ stage[r] \in {"numbered", "replying"} => number[r] = Len(rows[owner[r]])
    /\ stage[r] \in {"saved", "model", "asking", "writing", "answered", "replying"} =>
          AskedLast(rows[owner[r]], r)
    /\ stage[r] \in {"model", "asking", "writing"} => history[r] = Recent(Front(rows[owner[r]]))

Current == active # 0 /\ Whole(owner[active]) => CurrentRun(active)

ChatInv == ChatTypeOK /\ RunsOver /\ RowsOwned /\ RowsDistinct /\ WholeRows /\ Current

LEMMA ChatRanges ==
    ASSUME ChatTypeOK
    PROVE  /\ sent \in Nat /\ sent <= MaxSends /\ MaxSends \in Nat
           /\ \A r \in Chat : r \in Nat /\ r >= 1
           /\ 1..sent \subseteq Chat /\ \A r \in Chat : r <= sent => r \in 1..sent
           /\ \A s \in Session : /\ rows[s] \in Seq(Row) /\ Len(rows[s]) \in Nat
                                 /\ DOMAIN rows[s] = 1..Len(rows[s])
                                 /\ \A i \in 1..Len(rows[s]) :
                                       /\ rows[s][i] \in Row /\ rows[s][i].run \in 0..MaxSends
                                       /\ rows[s][i].run # 0 => rows[s][i].run \in Chat
                                       /\ rows[s][i].role \in {"user", "assistant"}
                                       /\ rows[s][i].number \in Nat
           /\ \A r \in Chat : owner[r] \in Session
<1>1. /\ sent \in 0..MaxSends /\ rows \in [Session -> Seq(Row)] /\ owner \in [Chat -> Session]
  BY DEF ChatTypeOK
<1>2. MaxSends \in Nat
  BY ChatAssumption
<1>3. \A m \in Row : /\ m.run \in 0..MaxSends /\ (m.run # 0 => m.run \in Chat)
                     /\ m.role \in {"user", "assistant"} /\ m.number \in Nat
  BY <1>2 DEF Row, Chat
<1>4. \A s \in Session : /\ rows[s] \in Seq(Row) /\ Len(rows[s]) \in Nat
                         /\ DOMAIN rows[s] = 1..Len(rows[s])
                         /\ \A i \in 1..Len(rows[s]) : rows[s][i] \in Row
  BY <1>1, LenProperties, ElementOfSeq
<1>. QED  BY <1>1, <1>2, <1>3, <1>4 DEF Chat

\* In a session that is whole, only the active run has anything to do.
LEMMA OnlyActive ==
    ASSUME ChatInv, NEW r \in Chat, stage[r] # "none", stage[r] # "over", Whole(owner[r])
    PROVE  r = active /\ r = sent /\ active # 0
<1>1. /\ r <= sent /\ r \in 1..sent
      /\ r \notin cut /\ r \in Nat /\ r >= 1
  BY ChatRanges DEF ChatInv, RunsOver, Whole
<1>2. r = active
  BY <1>1 DEF ChatInv, RunsOver
<1>. QED  BY <1>1, <1>2 DEF ChatInv, ChatTypeOK

\* The next number is within its range, and in a whole session it is the
\* number of the messages.
LEMMA NextNumbers ==
    ASSUME ChatTypeOK, RowsDistinct, NEW s \in Session
    PROVE  /\ NextNumber(s) \in 0..(2 * MaxSends + 2)
           /\ Consecutive(rows[s]) => NextNumber(s) = Len(rows[s])
<1>. DEFINE n == Len(rows[s])
            P == 1..n
            N == {rows[s][i].number : i \in P}
<1>1. /\ n \in Nat /\ MaxSends \in Nat /\ DOMAIN rows[s] = P
      /\ \A i \in P : rows[s][i].run \in 0..MaxSends /\ rows[s][i].role \in {"user", "assistant"}
  BY ChatRanges
<1>2. NextNumber(s) = Cardinality(N)
  BY <1>1 DEF NextNumber
<1>3. IsFiniteSet(P) /\ Cardinality(P) = n
  <2>1. 1 \in Int /\ n \in Int
    BY <1>1
  <2>2. IsFiniteSet(1..n) /\ Cardinality(1..n) = IF 1 > n THEN 0 ELSE n - 1 + 1
    BY <2>1, FS_Interval
  <2>. QED  BY <1>1, <2>2
<1>4. Cardinality(N) \in Nat /\ Cardinality(N) <= n
  <2>. DEFINE f == [i \in P |-> rows[s][i].number]
  <2>1. f \in [P -> N] /\ \A x \in N : \E i \in P : f[i] = x
    OBVIOUS
  <2>. HIDE DEF f, N, P
  <2>2. f \in Surjection(P, N)
    BY <2>1, Fun_IsSurj
  <2>3. IsFiniteSet(N) /\ Cardinality(N) <= Cardinality(P)
    BY <1>3, <2>2, FS_Surjection
  <2>. QED  BY <1>3, <2>3, FS_CardinalityType
<1>5. n <= 2 * MaxSends + 2
  <2>. DEFINE K == (0..MaxSends) \X {"user", "assistant"}
              f == [i \in P |-> <<rows[s][i].run, rows[s][i].role>>]
  <2>1. IsFiniteSet(K) /\ Cardinality(K) = (MaxSends + 1) * 2
    <3>1. IsFiniteSet(0..MaxSends) /\ Cardinality(0..MaxSends) = MaxSends + 1
      <4>1. 0 \in Int /\ MaxSends \in Int
        BY <1>1
      <4>2. IsFiniteSet(0..MaxSends) /\ Cardinality(0..MaxSends) = IF 0 > MaxSends THEN 0 ELSE MaxSends - 0 + 1
        BY <4>1, FS_Interval
      <4>. QED  BY <1>1, <4>2
    <3>2. IsFiniteSet({"user", "assistant"}) /\ Cardinality({"user", "assistant"}) = 2
      <4>1. IsFiniteSet({"user"}) /\ Cardinality({"user"}) = 1 /\ "assistant" \notin {"user"}
        BY FS_Singleton
      <4>2. {"user", "assistant"} = {"user"} \cup {"assistant"}
        OBVIOUS
      <4>. QED  BY <4>1, <4>2, FS_AddElement
    <3>. DEFINE A == 0..MaxSends
                B == {"user", "assistant"}
    <3>3. IsFiniteSet(A) /\ IsFiniteSet(B) /\ Cardinality(A) = MaxSends + 1 /\ Cardinality(B) = 2
      BY <3>1, <3>2
    <3>. HIDE DEF A, B
    <3>4. IsFiniteSet(A \X B) /\ Cardinality(A \X B) = (MaxSends + 1) * 2
      BY <3>3, FS_Product
    <3>. QED  BY <3>4 DEF A, B
  <2>2. f \in [P -> K] /\ \A i, j \in P : f[i] = f[j] => i = j
    BY <1>1 DEF RowsDistinct
  <2>. HIDE DEF f, K, P
  <2>3. f \in Injection(P, K)
    BY <2>2, Fun_IsInj
  <2>4. Cardinality(P) <= Cardinality(K)
    BY <2>1, <2>3, FS_Injection
  <2>. QED  BY <1>1, <1>3, <2>1, <2>4
<1>6. ASSUME Consecutive(rows[s])
      PROVE  Cardinality(N) = n
  <2>1. N = 0..(n - 1)
    <3>1. \A i \in P : rows[s][i].number = i - 1
      BY <1>6 DEF Consecutive
    <3>2. \A x \in 0..(n - 1) : x + 1 \in P /\ x = (x + 1) - 1
      BY <1>1
    <3>3. \A i \in P : i - 1 \in 0..(n - 1)
      BY <1>1
    <3>4. \A x \in 0..(n - 1) : x \in N
      BY <3>1, <3>2
    <3>. QED  BY <3>1, <3>3, <3>4
  <2>2. Cardinality(0..(n - 1)) = IF 0 > n - 1 THEN 0 ELSE n - 1 - 0 + 1
    <3>1. 0 \in Int /\ n - 1 \in Int
      BY <1>1
    <3>. HIDE DEF n
    <3>. QED  BY <3>1, FS_Interval
  <2>3. (IF 0 > n - 1 THEN 0 ELSE n - 1 - 0 + 1) = n
    <3>1. n \in Nat
      BY <1>1
    <3>. HIDE DEF n
    <3>. QED  BY <3>1
  <2>. HIDE DEF n, N
  <2>. QED  BY <2>1, <2>2, <2>3
<1>. QED  BY <1>1, <1>2, <1>4, <1>5, <1>6
\* The messages of a session sorted by number.
LEMMA OrderedRows ==
    ASSUME ChatTypeOK, NEW s \in Session
    PROVE  /\ Ordered(s) \in Seq(Row) /\ Len(Ordered(s)) = Len(rows[s])
           /\ Consecutive(rows[s]) => Ordered(s) = rows[s]
           /\ \A i \in 1..Len(rows[s]) : \E k \in 1..Len(rows[s]) : Ordered(s)[k] = rows[s][i]
           /\ \A k, l \in 1..Len(rows[s]) : k <= l => Ordered(s)[k].number <= Ordered(s)[l].number
<1>. DEFINE n == Len(rows[s])
            key == [i \in 1..n |-> rows[s][i].number]
            pick(k) == CHOOSE i \in 1..n : Place(s, i) = k
<1>1. /\ n \in Nat /\ DOMAIN rows[s] = 1..n /\ rows[s] \in Seq(Row)
      /\ \A i \in 1..n : rows[s][i] \in Row /\ rows[s][i].number \in Nat
  BY ChatRanges
<1>2. \A i \in 1..n : Place(s, i) = Cardinality(Upto(key, n, i))
  <2>1. \A i \in 1..n :
            {j \in DOMAIN rows[s] :
                \/ rows[s][j].number < rows[s][i].number
                \/ rows[s][j].number = rows[s][i].number /\ j <= i} = Upto(key, n, i)
    BY <1>1 DEF Upto
  <2>. QED  BY <2>1 DEF Place
<1>3. key \in [1..n -> Nat]
  BY <1>1
<1>. HIDE DEF key
<1>4. \A k \in 1..n : \E i \in 1..n : Place(s, i) = k
  <2>1. \A k \in 1..n : \E i \in 1..n : Cardinality(Upto(key, n, i)) = k
    <3>. HIDE DEF n
    <3>. QED  BY <1>1, <1>3, PlacesFilled
  <2>. QED  BY <1>2, <2>1
<1>5. \A k \in 1..n : pick(k) \in 1..n /\ Place(s, pick(k)) = k
  <2>. HIDE DEF n
  <2>. QED  BY <1>4
<1>6. Ordered(s) = [k \in 1..n |-> rows[s][pick(k)]]
  BY <1>1 DEF Ordered
<1>. HIDE DEF pick
<1>7. Ordered(s) \in [1..n -> Row]
  BY <1>1, <1>5, <1>6
<1>8. Ordered(s) \in Seq(Row)
  <2>. HIDE DEF n
  <2>. QED  BY <1>1, <1>7, SeqDef
<1>a. Len(Ordered(s)) = n
  <2>1. DOMAIN Ordered(s) = 1..n
    BY <1>7
  <2>. HIDE DEF n
  <2>. QED  BY <1>1, <1>8, <2>1, LenProperties
<1>9. ASSUME Consecutive(rows[s])
      PROVE  Ordered(s) = rows[s]
  <2>1. \A i \in 1..n : key[i] = i - 1
    BY <1>9 DEF Consecutive, key
  <2>2. \A i \in 1..n : Place(s, i) = i
    <3>1. \A i \in 1..n : Cardinality(Upto(key, n, i)) = i
      <4>. HIDE DEF n
      <4>. QED  BY <1>1, <2>1, PlacesGapless
    <3>. QED  BY <1>2, <3>1
  <2>3. \A k \in 1..n : pick(k) = k
    BY <1>5, <2>2
  <2>4. Len(Ordered(s)) = n /\ \A k \in 1..n : Ordered(s)[k] = rows[s][k]
    BY <1>6, <1>a, <2>3
  <2>. QED  BY <1>1, <1>8, <2>4, SeqEqual
\* Every message has a place of its own, and a smaller number an earlier one.
<1>b. /\ \A i \in 1..n : Place(s, i) \in 1..n
      /\ \A i, k \in 1..n : Place(s, i) = Place(s, k) => i = k
      /\ \A i, k \in 1..n : key[i] < key[k] => Place(s, i) < Place(s, k)
  <2>1. /\ \A i \in 1..n : Cardinality(Upto(key, n, i)) \in 1..n
        /\ \A i, k \in 1..n :
               Cardinality(Upto(key, n, i)) = Cardinality(Upto(key, n, k)) => i = k
        /\ \A i, k \in 1..n :
               key[i] < key[k] => Cardinality(Upto(key, n, i)) < Cardinality(Upto(key, n, k))
    <3>. HIDE DEF n
    <3>. QED  BY <1>1, <1>3, PlacesFilled
  <2>. QED  BY <1>2, <2>1
<1>10. ASSUME NEW i \in 1..n
       PROVE  \E k \in 1..n : Ordered(s)[k] = rows[s][i]
  <2>1. Place(s, i) \in 1..n /\ pick(Place(s, i)) = i
    BY <1>5, <1>b
  <2>. QED  BY <1>6, <2>1
<1>11. ASSUME NEW k \in 1..n, NEW l \in 1..n, k <= l
       PROVE  Ordered(s)[k].number <= Ordered(s)[l].number
  <2>1. /\ pick(k) \in 1..n /\ pick(l) \in 1..n
        /\ Place(s, pick(k)) = k /\ Place(s, pick(l)) = l
    BY <1>5
  <2>2. ~(key[pick(l)] < key[pick(k)])
    <3>1. key[pick(l)] < key[pick(k)] => l < k
      <4>. HIDE DEF n
      <4>1. key[pick(l)] < key[pick(k)] => Place(s, pick(l)) < Place(s, pick(k))
        BY <1>b, <2>1
      <4>. QED  BY <2>1, <4>1
    <3>. QED  BY <1>1, <1>11, <3>1
  <2>3. /\ key[pick(k)] = rows[s][pick(k)].number /\ key[pick(l)] = rows[s][pick(l)].number
        /\ key[pick(k)] \in Nat /\ key[pick(l)] \in Nat
    BY <1>3, <2>1 DEF key
  <2>. QED  BY <1>6, <2>2, <2>3
<1>. QED  BY <1>8, <1>9, <1>10, <1>11, <1>a

LEMMA ActiveIsRun ==
    ASSUME ChatTypeOK, active # 0
    PROVE  active \in Chat /\ owner[active] \in Session
<1>1. active = sent /\ sent \in 0..MaxSends
  BY DEF ChatTypeOK
<1>2. active \in 1..MaxSends
  BY <1>1, ChatAssumption
<1>. QED  BY <1>2, ChatRanges DEF Chat

LEMMA ChatBegins == ChatInit => ChatInv
<1>. SUFFICES ASSUME ChatInit PROVE ChatInv
  OBVIOUS
<1>1. /\ active = 0 /\ sent = 0 /\ cut = {} /\ cards = {} /\ posts = {} /\ gone = {}
      /\ selected \in Session
      /\ stage = [r \in Chat |-> "none"]
      /\ \A r \in Chat : r \in Nat /\ r >= 1 /\ MaxSends \in Nat
  BY ChatAssumption DEF ChatInit, Chat
<1>2. /\ Before \in Seq(Row) /\ Len(Before) = 2
      /\ Before[1] = [run |-> 0, role |-> "user", number |-> 0]
      /\ Before[2] = [run |-> 0, role |-> "assistant", number |-> 1]
  <2>1. /\ [run |-> 0, role |-> "user", number |-> 0] \in Row
        /\ [run |-> 0, role |-> "assistant", number |-> 1] \in Row
    BY ChatAssumption DEF Row
  <2>. QED  BY <2>1 DEF Before
<1>3. Consecutive(Before)
  BY <1>2 DEF Consecutive, Earlier
<1>4. /\ rows \in [Session -> Seq(Row)]
      /\ \A s \in Session : rows[s] = Before \/ (rows[s] = <<>> /\ Len(rows[s]) = 0)
  BY <1>2 DEF ChatInit
<1>5. ChatTypeOK
  BY <1>1, <1>4, ChatAssumption DEF ChatInit, ChatTypeOK, Stage
<1>6. RowsOwned /\ RowsDistinct
  <2>1. \A i \in 1..2 : i = 1 \/ i = 2
    OBVIOUS
  <2>2. \A i \in 1..Len(Before) : Before[i].run = 0
    BY <1>2, <2>1
  <2>3. \A i, j \in 1..Len(Before) : Before[i].role = Before[j].role => i = j
    BY <1>2, <2>1
  <2>. QED  BY <1>4, <2>2, <2>3 DEF RowsOwned, RowsDistinct
<1>7. WholeRows
  BY <1>3, <1>4 DEF WholeRows, Consecutive
<1>8. RunsOver /\ Current
  BY <1>1 DEF RunsOver, Current
<1>. QED  BY <1>5, <1>6, <1>7, <1>8 DEF ChatInv

\* Steps that touch neither the table nor a handler, and end the page's
\* interest in a run only when it is cut off or over.
LEMMA PageKeeps ==
    ASSUME ChatInv, ChatTypeOK', UNCHANGED <<sent, owner, stage, cards, number, rows, history>>,
           \/ UNCHANGED <<active, cut>>
           \/ active' = 0 /\ cut' = cut /\ (active # 0 => stage[active] = "over")
           \/ active' = 0 /\ active # 0 /\ cut' = cut \cup {active}
    PROVE  ChatInv'
<1>1. /\ \A q \in Chat : q > sent => stage[q] = "none"
      /\ \A q \in Chat : q <= sent /\ q \notin cut /\ q # active => stage[q] = "over"
      /\ active \notin cut /\ cards \subseteq 1..sent
      /\ \A q \in Chat : q # 0
      /\ cut \subseteq 1..sent /\ sent \in Nat
  <2>1. ChatTypeOK /\ RunsOver
    BY DEF ChatInv
  <2>2. \A q \in Chat : q # 0
    BY <2>1, ChatRanges
  <2>. QED  BY <2>1, <2>2, ChatRanges DEF RunsOver, ChatTypeOK
<1>2. RunsOver'
  BY <1>1 DEF RunsOver
<1>3. \A s \in Session : Whole(s)' => Whole(s)
  BY <1>1 DEF Whole
<1>4. RowsOwned' /\ RowsDistinct'
  BY DEF ChatInv, RowsOwned, RowsDistinct
<1>5. WholeRows'
  BY <1>3 DEF ChatInv, WholeRows
<1>6. Current'
  <2>1. CASE active' = 0
    BY <2>1 DEF Current
  <2>2. CASE active' = active /\ cut' = cut
    BY <2>2 DEF ChatInv, Current, CurrentRun, Whole
  <2>. QED  BY <2>1, <2>2
<1>. QED  BY <1>2, <1>4, <1>5, <1>6 DEF ChatInv

\* Steps of a handler that touch nothing else that matters here.
LEMMA HandlerKeeps ==
    ASSUME ChatInv, ChatTypeOK', NEW r \in Chat, NEW t,
           t \in {"model", "asking", "writing", "answered", "over"}, Goto(r, t),
           stage[r] \in {"posted", "model", "asking", "writing", "answered"},
           stage[r] \in {"posted", "answered"} => t = "over",
           UNCHANGED <<sent, owner, active, cut, number, rows, history>>,
           cards' \subseteq cards \cup {r}
    PROVE  ChatInv'
<1>1. /\ \A q \in Chat : q > sent => stage[q] = "none"
      /\ \A q \in Chat : q <= sent /\ q \notin cut /\ q # active => stage[q] = "over"
      /\ active \notin cut /\ cards \subseteq 1..sent
      /\ stage \in [Chat -> Stage]
  BY DEF ChatInv, RunsOver, ChatTypeOK
<1>2. /\ stage'[r] = t /\ \A q \in Chat : q # r => stage'[q] = stage[q]
      /\ r \in 1..sent /\ r <= sent
  BY <1>1, ChatRanges DEF ChatInv, Goto
<1>3. RunsOver'
  <2>1. \A q \in Chat : q <= sent /\ q \notin cut /\ q # active => stage'[q] = "over"
    BY <1>1, <1>2
  <2>2. \A q \in Chat : q > sent => stage'[q] = "none"
    BY <1>1, <1>2
  <2>. QED  BY <1>1, <1>2, <2>1, <2>2 DEF RunsOver
<1>4. RowsOwned'
  <2>. SUFFICES ASSUME NEW s \in Session, NEW i \in 1..Len(rows[s]), rows[s][i].run # 0
                PROVE  /\ rows[s][i].run <= sent /\ owner[rows[s][i].run] = s
                       /\ rows[s][i].role = "user" => stage'[rows[s][i].run] \notin {"none", "posted", "numbered"}
                       /\ rows[s][i].role = "assistant" => stage'[rows[s][i].run] = "over"
    BY DEF RowsOwned
  <2>1. /\ rows[s][i].run \in Chat
        /\ rows[s][i].run <= sent /\ owner[rows[s][i].run] = s
        /\ rows[s][i].role = "user" => stage[rows[s][i].run] \notin {"none", "posted", "numbered"}
        /\ rows[s][i].role = "assistant" => stage[rows[s][i].run] = "over"
    BY ChatRanges DEF ChatInv, RowsOwned
  <2>. QED  BY <1>2, <2>1
<1>5. RowsDistinct' /\ WholeRows'
  BY DEF ChatInv, RowsDistinct, WholeRows, Whole
<1>6. Current'
  <2>. SUFFICES ASSUME active # 0, Whole(owner[active])
                PROVE  CurrentRun(active)'
    BY DEF Current, Whole
  <2>1. CurrentRun(active) /\ active \in Chat
    <3>1. active \in Chat
      BY ActiveIsRun DEF ChatInv
    <3>. QED  BY <3>1 DEF ChatInv, Current
  <2>2. CASE active # r
    BY <1>2, <2>1, <2>2 DEF CurrentRun
  <2>3. CASE active = r
    BY <1>2, <2>1, <2>3 DEF CurrentRun
  <2>. QED  BY <2>2, <2>3
<1>. QED  BY <1>3, <1>4, <1>5, <1>6 DEF ChatInv
LEMMA SendKeeps ==
    ASSUME ChatInv, ChatTypeOK', NEW i \in Intents, SendPrompt(i)
    PROVE  ChatInv'
<1>. DEFINE r == sent + 1
<1>1. /\ active = 0 /\ sent < MaxSends /\ sent' = r /\ active' = r
      /\ owner' = [owner EXCEPT ![r] = selected]
      /\ stage' = [stage EXCEPT ![r] = "posted"]
      /\ UNCHANGED <<cards, cut, number, rows, history>>
  BY DEF SendPrompt, Goto, cardVars, tableVars
<1>2. /\ \A q \in Chat : q > sent => stage[q] = "none"
      /\ \A q \in Chat : q <= sent /\ q \notin cut /\ q # active => stage[q] = "over"
      /\ cards \subseteq 1..sent /\ cut \subseteq 1..sent
      /\ stage \in [Chat -> Stage] /\ owner \in [Chat -> Session]
  BY DEF ChatInv, RunsOver, ChatTypeOK
<1>3. /\ sent \in Nat /\ r \in Nat /\ r \in Chat /\ r \notin cut /\ r \notin 1..sent
      /\ 1..r = 1..sent \cup {r}
      /\ \A q \in Chat : q \in Nat /\ q >= 1
      /\ \A q \in Chat : (q > r => q > sent /\ q # r) /\ (q <= r /\ q # r => q <= sent)
      /\ \A q \in Chat : q <= sent => q # r
  BY <1>1, <1>2, ChatRanges DEF ChatInv, Chat
<1>. HIDE DEF r
<1>4. /\ stage'[r] = "posted" /\ \A q \in Chat : q # r => stage'[q] = stage[q] /\ owner'[q] = owner[q]
  BY <1>1, <1>2, <1>3
<1>5. RunsOver'
  <2>1. \A q \in Chat : q > r => stage'[q] = "none"
    BY <1>2, <1>3, <1>4
  <2>2. \A q \in Chat : q <= r /\ q \notin cut /\ q # r => stage'[q] = "over"
    <3>. SUFFICES ASSUME NEW q \in Chat, q <= r, q \notin cut, q # r
                  PROVE  stage'[q] = "over"
      OBVIOUS
    <3>1. q <= sent /\ q # 0
      BY <1>3
    <3>. QED  BY <1>1, <1>2, <1>4, <3>1
  <2>. QED  BY <1>1, <1>2, <1>3, <2>1, <2>2 DEF RunsOver
<1>6. RowsOwned'
  <2>. SUFFICES ASSUME NEW s \in Session, NEW k \in 1..Len(rows[s]), rows[s][k].run # 0
                PROVE  /\ rows[s][k].run <= r /\ owner'[rows[s][k].run] = s
                       /\ rows[s][k].role = "user" => stage'[rows[s][k].run] \notin {"none", "posted", "numbered"}
                       /\ rows[s][k].role = "assistant" => stage'[rows[s][k].run] = "over"
    BY <1>1 DEF RowsOwned
  <2>. DEFINE q == rows[s][k].run
  <2>1. /\ q \in Chat /\ q <= sent /\ owner[q] = s
        /\ rows[s][k].role = "user" => stage[q] \notin {"none", "posted", "numbered"}
        /\ rows[s][k].role = "assistant" => stage[q] = "over"
    BY ChatRanges DEF ChatInv, RowsOwned
  <2>. HIDE DEF q
  <2>2. q # r /\ q <= r
    <3>1. q # r
      BY <1>3, <2>1
    <3>2. q <= sent + 1
      BY <1>3, <2>1
    <3>. QED  BY <3>1, <3>2 DEF r
  <2>3. stage'[q] = stage[q] /\ owner'[q] = owner[q]
    BY <1>4, <2>1, <2>2
  <2>. QED  BY <2>1, <2>2, <2>3 DEF q
<1>7. RowsDistinct'
  BY <1>1 DEF ChatInv, RowsDistinct
<1>8. \A s \in Session : Whole(s)' => Whole(s)
  <2>. SUFFICES ASSUME NEW s \in Session, Whole(s)', NEW q \in 1..sent, owner[q] = s
                PROVE  q \notin cut
    BY DEF Whole
  <2>1. q \in 1..r /\ q \in Chat /\ q # r
    BY <1>3, ChatRanges DEF ChatInv
  <2>. QED  BY <1>1, <1>4, <2>1 DEF Whole
<1>9. WholeRows'
  BY <1>1, <1>8 DEF ChatInv, WholeRows
<1>10. Current'
  BY <1>1, <1>4 DEF Current, CurrentRun
<1>. QED  BY <1>5, <1>6, <1>7, <1>9, <1>10 DEF ChatInv

\* What SaveMessage, ReadNumber and LoadHistory keep of the runs.
LEMMA RunsKept ==
    ASSUME ChatInv, NEW r \in Chat, NEW t, stage' = [stage EXCEPT ![r] = t], stage[r] \notin {"none", "over"},
           UNCHANGED <<sent, active, cut, cards>>
    PROVE  RunsOver'
<1>1. /\ \A q \in Chat : q > sent => stage[q] = "none"
      /\ \A q \in Chat : q <= sent /\ q \notin cut /\ q # active => stage[q] = "over"
      /\ active \notin cut /\ cards \subseteq 1..sent
      /\ stage \in [Chat -> Stage]
  BY DEF ChatInv, RunsOver, ChatTypeOK
<1>2. /\ \A q \in Chat : q # r => stage'[q] = stage[q]
      /\ ~(r > sent) /\ ~(r \notin cut /\ r # active)
  BY <1>1, ChatRanges DEF ChatInv
<1>. QED  BY <1>1, <1>2 DEF RunsOver

LEMMA ReadKeeps ==
    ASSUME ChatInv, ChatTypeOK', NEW r \in Chat, ReadNumber(r)
    PROVE  ChatInv'
<1>1. PICK t \in {"numbered", "replying"} :
          /\ stage' = [stage EXCEPT ![r] = t]
          /\ t = "numbered" => stage[r] = "posted"
          /\ t = "replying" => stage[r] = "answered"
  BY DEF ReadNumber, Goto
<1>2. /\ number' = [number EXCEPT ![r] = NextNumber(owner[r])]
      /\ UNCHANGED <<selected, active, sent, owner, intent, cards, clicked, posts, cut, rows, history>>
  BY DEF ReadNumber, pageVars, promptVars, cardVars
<1>3. /\ stage[r] \in {"posted", "answered"} /\ stage \in [Chat -> Stage] /\ number' \in [Chat -> Nat]
      /\ number \in [Chat -> 0..(2 * MaxSends + 2)]
      /\ stage'[r] = t /\ \A q \in Chat : q # r => stage'[q] = stage[q]
      /\ number'[r] = NextNumber(owner[r]) /\ \A q \in Chat : q # r => number'[q] = number[q]
  <2>1. stage \in [Chat -> Stage] /\ number \in [Chat -> 0..(2 * MaxSends + 2)]
        /\ number' \in [Chat -> 0..(2 * MaxSends + 2)] /\ MaxSends \in Nat
    BY ChatAssumption DEF ChatInv, ChatTypeOK
  <2>. QED  BY <1>1, <1>2, <2>1
<1>4. RunsOver'
  BY <1>1, <1>2, <1>3, RunsKept
<1>5. RowsOwned'
  <2>. SUFFICES ASSUME NEW s \in Session, NEW i \in 1..Len(rows[s]), rows[s][i].run # 0
                PROVE  /\ rows[s][i].run <= sent /\ owner[rows[s][i].run] = s
                       /\ rows[s][i].role = "user" => stage'[rows[s][i].run] \notin {"none", "posted", "numbered"}
                       /\ rows[s][i].role = "assistant" => stage'[rows[s][i].run] = "over"
    BY <1>2 DEF RowsOwned
  <2>1. /\ rows[s][i].run \in Chat
        /\ rows[s][i].run <= sent /\ owner[rows[s][i].run] = s
        /\ rows[s][i].role \in {"user", "assistant"}
        /\ rows[s][i].role = "user" => stage[rows[s][i].run] \notin {"none", "posted", "numbered"}
        /\ rows[s][i].role = "assistant" => stage[rows[s][i].run] = "over"
    BY ChatRanges DEF ChatInv, RowsOwned
  <2>2. CASE rows[s][i].run # r
    BY <1>3, <2>1, <2>2
  <2>3. CASE rows[s][i].run = r
    BY <1>1, <1>3, <2>1, <2>3
  <2>. QED  BY <2>2, <2>3
<1>6. RowsDistinct' /\ WholeRows'
  BY <1>2 DEF ChatInv, RowsDistinct, WholeRows, Whole
<1>7. Current'
  <2>. SUFFICES ASSUME active # 0, Whole(owner[active])
                PROVE  CurrentRun(active)'
    BY <1>2 DEF Current, Whole
  <2>1. CurrentRun(active) /\ active \in Chat
    <3>1. active \in Chat
      BY ActiveIsRun DEF ChatInv
    <3>. QED  BY <3>1 DEF ChatInv, Current
  <2>2. CASE active # r
    BY <1>2, <1>3, <2>1, <2>2 DEF CurrentRun
  <2>3. CASE active = r
    <3>1. owner[r] \in Session /\ Consecutive(rows[owner[r]])
      BY <2>3, ChatRanges DEF ChatInv, WholeRows
    <3>2. number'[r] = Len(rows[owner[r]])
      BY <1>3, <3>1, NextNumbers DEF ChatInv
    <3>3. t = "replying" => AskedLast(rows[owner[r]], r)
      BY <1>1, <2>1, <2>3 DEF CurrentRun
    <3>. QED  BY <1>1, <1>2, <1>3, <2>3, <3>2, <3>3 DEF CurrentRun
  <2>. QED  BY <2>2, <2>3
<1>. QED  BY <1>4, <1>5, <1>6, <1>7 DEF ChatInv

LEMMA LoadKeeps ==
    ASSUME ChatInv, ChatTypeOK', NEW r \in Chat, LoadHistory(r)
    PROVE  ChatInv'
<1>1. /\ stage[r] = "saved" /\ stage' = [stage EXCEPT ![r] = "model"]
      /\ history' = [history EXCEPT ![r] = Recent(Front(Ordered(owner[r])))]
      /\ UNCHANGED <<active, sent, owner, cards, cut, rows, number>>
  BY DEF LoadHistory, Goto, pageVars, promptVars, cardVars
<1>2. /\ stage \in [Chat -> Stage] /\ history \in [Chat -> Seq(Row)]
      /\ stage'[r] = "model" /\ \A q \in Chat : q # r => stage'[q] = stage[q]
      /\ history'[r] = Recent(Front(Ordered(owner[r]))) /\ \A q \in Chat : q # r => history'[q] = history[q]
  <2>1. stage \in [Chat -> Stage] /\ history \in [Chat -> Seq(Row)]
    BY DEF ChatInv, ChatTypeOK
  <2>. QED  BY <1>1, <2>1
<1>3. RunsOver'
  BY <1>1, RunsKept
<1>4. RowsOwned'
  <2>. SUFFICES ASSUME NEW s \in Session, NEW i \in 1..Len(rows[s]), rows[s][i].run # 0
                PROVE  /\ rows[s][i].run <= sent /\ owner[rows[s][i].run] = s
                       /\ rows[s][i].role = "user" => stage'[rows[s][i].run] \notin {"none", "posted", "numbered"}
                       /\ rows[s][i].role = "assistant" => stage'[rows[s][i].run] = "over"
    BY <1>1 DEF RowsOwned
  <2>1. /\ rows[s][i].run \in Chat
        /\ rows[s][i].run <= sent /\ owner[rows[s][i].run] = s
        /\ rows[s][i].role = "user" => stage[rows[s][i].run] \notin {"none", "posted", "numbered"}
        /\ rows[s][i].role = "assistant" => stage[rows[s][i].run] = "over"
    BY ChatRanges DEF ChatInv, RowsOwned
  <2>2. CASE rows[s][i].run # r
    BY <1>2, <2>1, <2>2
  <2>3. CASE rows[s][i].run = r
    BY <1>1, <1>2, <2>1, <2>3
  <2>. QED  BY <2>2, <2>3
<1>5. RowsDistinct' /\ WholeRows'
  BY <1>1 DEF ChatInv, RowsDistinct, WholeRows, Whole
<1>6. Current'
  <2>. SUFFICES ASSUME active # 0, Whole(owner[active])
                PROVE  CurrentRun(active)'
    BY <1>1 DEF Current, Whole
  <2>1. CurrentRun(active) /\ active \in Chat
    <3>1. active \in Chat
      BY ActiveIsRun DEF ChatInv
    <3>. QED  BY <3>1 DEF ChatInv, Current
  <2>2. CASE active # r
    BY <1>1, <1>2, <2>1, <2>2 DEF CurrentRun
  <2>3. CASE active = r
    <3>1. owner[r] \in Session /\ Consecutive(rows[owner[r]])
      BY <2>3, ChatRanges DEF ChatInv, WholeRows
    <3>2. Ordered(owner[r]) = rows[owner[r]]
      BY <3>1, OrderedRows DEF ChatInv
    <3>. QED  BY <1>1, <1>2, <2>1, <2>3, <3>2 DEF CurrentRun
  <2>. QED  BY <2>2, <2>3
<1>. QED  BY <1>3, <1>4, <1>5, <1>6 DEF ChatInv
\* A message and its place after it is inserted.
LEMMA InsertedLast ==
    ASSUME NEW q \in Seq(Row), NEW m \in Row
    PROVE  /\ Append(q, m) \in Seq(Row) /\ Len(q) \in Nat /\ Len(Append(q, m)) = Len(q) + 1
           /\ \A i \in 1..Len(q) : Append(q, m)[i] = q[i]
           /\ Append(q, m)[Len(q) + 1] = m
           /\ \A i \in 1..(Len(q) + 1) : i \in 1..Len(q) \/ i = Len(q) + 1
BY AppendProperties, LenProperties

LEMMA SaveKeeps ==
    ASSUME ChatInv, ChatTypeOK', NEW r \in Chat, SaveMessage(r)
    PROVE  ChatInv'
<1>. DEFINE o == owner[r]
            saved == rows[o]
            n == Len(saved)
<1>1. PICK role \in {"user", "assistant"}, t \in {"saved", "over"} :
          /\ stage' = [stage EXCEPT ![r] = t]
          /\ rows' = [rows EXCEPT ![o] = Append(@, [run |-> r, role |-> role, number |-> number[r]])]
          /\ role = "user" => t = "saved" /\ stage[r] = "numbered"
          /\ role = "assistant" => t = "over" /\ stage[r] = "replying"
  BY DEF SaveMessage, Goto, Insert
<1>. DEFINE m == [run |-> r, role |-> role, number |-> number[r]]
            more == Append(saved, m)
<1>2. UNCHANGED <<selected, active, sent, owner, intent, cards, clicked, posts, cut, history>>
  BY DEF SaveMessage, pageVars, promptVars, cardVars
<1>3. /\ stage[r] \in {"numbered", "replying"}
      /\ stage'[r] = t /\ \A q \in Chat : q # r => stage'[q] = stage[q]
      /\ number[r] \in 0..(2 * MaxSends + 2)
      /\ stage \in [Chat -> Stage] /\ rows \in [Session -> Seq(Row)]
  BY <1>1 DEF ChatInv, ChatTypeOK
<1>4. /\ o \in Session /\ saved \in Seq(Row) /\ m \in Row /\ r \in Nat /\ r <= sent
      /\ m.run = r /\ m.role = role /\ m.number = number[r] /\ sent \in Nat
  <2>1. ChatTypeOK
    BY DEF ChatInv
  <2>2. o \in Session /\ saved \in Seq(Row) /\ r \in Nat /\ sent \in Nat
    BY <2>1, ChatRanges
  <2>3. m \in Row /\ m.run = r /\ m.role = role /\ m.number = number[r]
    BY <1>3 DEF Row, Chat
  <2>4. ~(r > sent)
    BY <1>3 DEF ChatInv, RunsOver
  <2>. QED  BY <2>2, <2>3, <2>4
<1>. HIDE DEF o, m
<1>5. /\ n \in Nat /\ Len(more) = n + 1 /\ \A i \in 1..n : more[i] = saved[i]
      /\ more[n + 1] = m /\ \A i \in 1..(n + 1) : i \in 1..n \/ i = n + 1
  BY <1>4, InsertedLast
<1>6. rows'[o] = more /\ \A s \in Session : s # o => rows'[s] = rows[s]
  BY <1>1, <1>3, <1>4 DEF m
<1>. HIDE DEF more
<1>7. \A s \in Session : \A i \in 1..Len(rows[s]) : rows[s][i].run # 0 =>
          /\ rows[s][i].run \in Chat /\ rows[s][i].run <= sent /\ owner[rows[s][i].run] = s
          /\ rows[s][i].role \in {"user", "assistant"}
          /\ rows[s][i].role = "user" => stage[rows[s][i].run] \notin {"none", "posted", "numbered"}
          /\ rows[s][i].role = "assistant" => stage[rows[s][i].run] = "over"
  BY ChatRanges DEF ChatInv, RowsOwned
<1>8. \A i \in 1..n : /\ saved[i].run \in Nat /\ saved[i].run <= sent
                      /\ saved[i].run = r => saved[i].role = "user" /\ role = "assistant"
  <2>. SUFFICES ASSUME NEW i \in 1..n
                PROVE  /\ saved[i].run \in Nat /\ saved[i].run <= sent
                       /\ saved[i].run = r => saved[i].role = "user" /\ role = "assistant"
    OBVIOUS
  <2>1. /\ saved[i].run \in 0..MaxSends /\ r # 0 /\ 0 <= sent
        /\ saved[i].run # 0 =>
              /\ saved[i].run <= sent /\ saved[i].role \in {"user", "assistant"}
              /\ saved[i].role = "user" => stage[saved[i].run] \notin {"none", "posted", "numbered"}
              /\ saved[i].role = "assistant" => stage[saved[i].run] = "over"
    BY <1>4, <1>7, ChatRanges DEF ChatInv
  <2>2. ASSUME saved[i].run = r
        PROVE  saved[i].role = "user" /\ role = "assistant"
    BY <1>1, <1>3, <2>1, <2>2
  <2>. QED  BY <2>1, <2>2
<1>9. RunsOver'
  BY <1>1, <1>2, <1>3, RunsKept
<1>10. RowsOwned'
  <2>. SUFFICES ASSUME NEW s \in Session, NEW i \in 1..Len(rows'[s]), rows'[s][i].run # 0
                PROVE  /\ rows'[s][i].run <= sent /\ owner[rows'[s][i].run] = s
                       /\ rows'[s][i].role = "user" => stage'[rows'[s][i].run] \notin {"none", "posted", "numbered"}
                       /\ rows'[s][i].role = "assistant" => stage'[rows'[s][i].run] = "over"
    BY <1>2 DEF RowsOwned
  <2>1. CASE i \in 1..Len(rows[s]) /\ rows'[s][i] = rows[s][i]
    <3>1. /\ rows[s][i].run \in Chat /\ rows[s][i].run <= sent /\ owner[rows[s][i].run] = s
          /\ rows[s][i].role \in {"user", "assistant"}
          /\ rows[s][i].role = "user" => stage[rows[s][i].run] \notin {"none", "posted", "numbered"}
          /\ rows[s][i].role = "assistant" => stage[rows[s][i].run] = "over"
      BY <1>7, <2>1
    <3>2. CASE rows[s][i].run # r
      BY <1>3, <2>1, <3>1, <3>2
    <3>3. CASE rows[s][i].run = r
      BY <1>3, <2>1, <3>1, <3>3
    <3>. QED  BY <3>2, <3>3
  <2>2. CASE s = o /\ i = n + 1
    <3>1. rows'[s][i] = m
      BY <1>5, <1>6, <2>2
    <3>. QED  BY <1>1, <1>3, <1>4, <2>2, <3>1 DEF o
  <2>3. s # o => i \in 1..Len(rows[s]) /\ rows'[s][i] = rows[s][i]
    BY <1>6
  <2>4. s = o => (i \in 1..n /\ rows'[s][i] = rows[s][i]) \/ i = n + 1
    BY <1>5, <1>6
  <2>. QED  BY <2>1, <2>2, <2>3, <2>4
<1>11. RowsDistinct'
  <2>. SUFFICES ASSUME NEW s \in Session, NEW i \in 1..Len(rows'[s]), NEW j \in 1..Len(rows'[s]),
                       rows'[s][i].run = rows'[s][j].run, rows'[s][i].role = rows'[s][j].role
                PROVE  i = j
    BY DEF RowsDistinct
  <2>1. CASE s # o
    BY <1>6, <2>1 DEF ChatInv, RowsDistinct
  <2>2. CASE s = o
    <3>1. i \in 1..(n + 1) /\ j \in 1..(n + 1) /\ more[i].run = more[j].run /\ more[i].role = more[j].role
      BY <1>5, <1>6, <2>2
    <3>2. CASE i \in 1..n /\ j \in 1..n
      <4>1. saved[i].run = saved[j].run /\ saved[i].role = saved[j].role
        BY <1>5, <3>1, <3>2
      <4>2. RowsDistinct
        BY DEF ChatInv
      <4>. QED  BY <1>4, <3>2, <4>1, <4>2 DEF RowsDistinct
    <3>3. ASSUME NEW k \in 1..n, more[k].run = m.run, more[k].role = m.role
          PROVE  FALSE
      BY <1>4, <1>5, <1>8, <3>3
    <3>. QED  BY <1>5, <3>1, <3>2, <3>3
  <2>. QED  BY <2>1, <2>2
\* From here on the session of the run is whole, so the run is the active one.
<1>12. ASSUME Whole(o)
       PROVE  /\ r = active /\ r = sent /\ active # 0 /\ Consecutive(saved) /\ number[r] = n
              /\ role = "assistant" => AskedLast(saved, r)
  <2>1. r = active /\ r = sent /\ active # 0
    BY <1>3, <1>12, OnlyActive DEF o
  <2>2. CurrentRun(r)
    BY <1>12, <2>1 DEF ChatInv, Current, o
  <2>3. number[r] = n /\ (role = "assistant" => AskedLast(saved, r))
    BY <1>1, <1>3, <2>2 DEF CurrentRun, o
  <2>. QED  BY <1>4, <1>12, <2>1, <2>3 DEF ChatInv, WholeRows
<1>13. ASSUME Whole(o)
       PROVE  \A i \in 1..n : Earlier(saved[i], m) /\ (role = "user" => saved[i].run < r)
  <2>. SUFFICES ASSUME NEW i \in 1..n
                PROVE  Earlier(saved[i], m) /\ (role = "user" => saved[i].run < r)
    OBVIOUS
  <2>1. /\ saved[i].run \in Nat /\ saved[i].run <= r
        /\ saved[i].run = r => saved[i].role = "user" /\ role = "assistant"
    BY <1>8, <1>12, <1>13, ChatRanges DEF ChatInv
  <2>. QED  BY <1>4, <2>1 DEF Earlier
<1>14. WholeRows'
  <2>. SUFFICES ASSUME NEW s \in Session, Whole(s)
                PROVE  Consecutive(rows'[s])
    BY <1>2 DEF WholeRows, Whole, Consecutive, Earlier
  <2>1. CASE s # o
    BY <1>6, <2>1 DEF ChatInv, WholeRows
  <2>2. CASE s = o
    <3>. SUFFICES ASSUME NEW j \in 1..(n + 1)
                  PROVE  more[j].number = j - 1 /\ \A i \in 1..(j - 1) : Earlier(more[i], more[j])
      BY <1>5, <1>6, <2>2 DEF Consecutive
    <3>1. CASE j \in 1..n
      <4>1. saved[j].number = j - 1 /\ \A i \in 1..(j - 1) : Earlier(saved[i], saved[j])
        BY <1>12, <2>2, <3>1 DEF Consecutive
      <4>2. \A i \in 1..(j - 1) : i \in 1..n
        BY <1>5, <3>1
      <4>. QED  BY <1>5, <3>1, <4>1, <4>2
    <3>2. CASE j = n + 1
      <4>1. more[j] = m /\ m.number = j - 1 /\ j - 1 = n
        BY <1>4, <1>5, <1>12, <2>2, <3>2
      <4>. QED  BY <1>5, <1>13, <2>2, <4>1
    <3>. QED  BY <1>5, <3>1, <3>2
  <2>. QED  BY <2>1, <2>2
<1>15. Current'
  <2>. SUFFICES ASSUME active # 0, Whole(owner[active])
                PROVE  CurrentRun(active)'
    BY <1>2 DEF Current, Whole
  <2>1. CurrentRun(active) /\ active \in Chat /\ owner[active] \in Session
    <3>1. active \in Chat /\ owner[active] \in Session
      BY ActiveIsRun DEF ChatInv
    <3>. QED  BY <3>1 DEF ChatInv, Current
  <2>2. CASE active # r
    <3>1. owner[active] # o
      BY <1>12, <2>2
    <3>2. /\ rows'[owner[active]] = rows[owner[active]] /\ stage'[active] = stage[active]
          /\ number'[active] = number[active] /\ history' = history /\ owner' = owner
      <4>1. number'[active] = number[active]
        BY <2>1, <2>2 DEF SaveMessage, ChatInv, ChatTypeOK
      <4>. QED  BY <1>2, <1>3, <1>6, <2>1, <2>2, <3>1, <4>1
    <3>3. active' = active
      BY <1>2
    <3>. QED  BY <2>1, <3>2, <3>3 DEF CurrentRun, AskedLast
  <2>3. CASE active = r
    <3>1. CASE t = "over"
      BY <1>2, <1>3, <2>3, <3>1 DEF CurrentRun
    <3>2. CASE t = "saved"
      <4>1. role = "user" /\ Whole(o)
        BY <1>1, <2>3, <3>2 DEF o
      <4>2. AskedLast(more, r)
        <5>1. Len(more) - 1 = n /\ Len(more) > 0 /\ more[Len(more)] = m
          BY <1>5
        <5>2. \A i \in 1..n : more[i].run < r
          BY <1>5, <1>13, <4>1
        <5>. QED  BY <1>4, <4>1, <5>1, <5>2 DEF AskedLast
      <4>3. AskedLast(rows'[owner'[r]], r)
        BY <1>2, <1>6, <4>2 DEF o
      <4>. QED  BY <1>2, <1>3, <2>3, <3>2, <4>3 DEF CurrentRun, AskedLast
    <3>. QED  BY <3>1, <3>2
  <2>. QED  BY <2>2, <2>3
<1>. QED  BY <1>9, <1>10, <1>11, <1>14, <1>15 DEF ChatInv
-----------------------------------------------------------------------------
(* Types. *)

\* The part of the types that the page keeps, and the part of the server.
PageTyped ==
    /\ selected \in Session
    /\ sent \in 0..MaxSends
    /\ active \in {0, sent}
    /\ owner \in [Chat -> Session]
    /\ intent \in [Chat -> {"talk", "ask", "yolo"}]
    /\ cards \in SUBSET {r \in Chat : intent[r] = "ask"}
    /\ clicked \in [Chat -> {"none", "allow", "deny"}]
    /\ posts \in SUBSET Chat
    /\ cut \in SUBSET (1..sent)

TableTyped ==
    /\ said \in [Chat -> BOOLEAN]
    /\ number \in [Chat -> 0..(2 * MaxSends + 2)]
    /\ rows \in [Session -> Seq(Row)]
    /\ history \in [Chat -> Seq(Row)]

LEMMA ChatParts ==
    ChatTypeOK <=> PageTyped /\ TableTyped /\ stage \in [Chat -> Stage] /\ gone \subseteq cut
BY DEF ChatTypeOK, PageTyped, TableTyped

LEMMA GotoTyped ==
    ASSUME stage \in [Chat -> Stage], NEW r, NEW t \in Stage, Goto(r, t)
    PROVE  stage' \in [Chat -> Stage]
BY DEF Goto

LEMMA SendsTyped ==
    ASSUME stage \in [Chat -> Stage], NEW r, NEW t \in Stage, Sends(r, t)
    PROVE  stage' \in [Chat -> Stage]
<1>1. "over" \in Stage
  BY DEF Stage
<1>. QED  BY <1>1, GotoTyped DEF Sends

LEMMA PageTypeSteps ==
    ASSUME ChatInv,
           \/ \E i \in Intents : SendPrompt(i)
           \/ CloseChat \/ ChatDone
           \/ \E s \in Session : SelectSession(s)
           \/ \E r \in Chat : \/ \E d \in {"allow", "deny"} : Respond(r, d)
                              \/ DecisionLost(r)
    PROVE  ChatTypeOK'
<1>0. /\ PageTyped /\ TableTyped /\ stage \in [Chat -> Stage] /\ gone \subseteq cut
      /\ cards \subseteq 1..sent
  BY ChatParts DEF ChatInv, RunsOver
<1>. SUFFICES PageTyped' /\ TableTyped' /\ stage' \in [Chat -> Stage] /\ (gone \subseteq cut)'
  BY DEF ChatTypeOK, PageTyped, TableTyped
<1>1. ASSUME NEW i \in Intents, SendPrompt(i)
      PROVE  PageTyped' /\ TableTyped' /\ stage' \in [Chat -> Stage] /\ (gone \subseteq cut)'
  <2>. DEFINE r == sent + 1
  <2>1. /\ sent < MaxSends /\ sent' = r /\ active' = r /\ Goto(r, "posted")
        /\ owner' = [owner EXCEPT ![r] = selected] /\ intent' = [intent EXCEPT ![r] = i]
        /\ UNCHANGED <<selected, cards, clicked, posts, cut, gone, said, number, rows, history>>
    BY <1>1 DEF SendPrompt, cardVars, tableVars
  <2>2. i \in {"talk", "ask", "yolo"} /\ "posted" \in Stage
    BY ChatAssumption DEF Stage
  <2>3. r \in 0..MaxSends /\ 1..sent \subseteq 1..r /\ r \notin 1..sent
    BY <1>0, <2>1, ChatAssumption DEF PageTyped
  <2>4. intent' \in [Chat -> {"talk", "ask", "yolo"}] /\ owner' \in [Chat -> Session]
    BY <1>0, <2>1, <2>2 DEF PageTyped
  <2>. HIDE DEF r
  <2>5. cards \in SUBSET {q \in Chat : intent'[q] = "ask"}
    BY <1>0, <2>1, <2>3 DEF PageTyped
  <2>6. stage' \in [Chat -> Stage]
    BY <1>0, <2>1, <2>2, GotoTyped
  <2>7. PageTyped'
    BY <1>0, <2>1, <2>3, <2>4, <2>5 DEF PageTyped
  <2>8. TableTyped'
    BY <1>0, <2>1 DEF TableTyped
  <2>. QED  BY <1>0, <2>1, <2>6, <2>7, <2>8
<1>2. CASE CloseChat
  <2>1. /\ active # 0 /\ cut' = cut \cup {active} /\ active' = 0
        /\ UNCHANGED <<selected, sent, owner, intent, cards, clicked, posts, stage, gone, said, number, rows, history>>
    BY <1>2 DEF CloseChat, promptVars, cardVars, handlerVars, tableVars
  <2>2. active \in 1..sent
    BY <1>0, <2>1, ChatAssumption DEF PageTyped
  <2>3. cut' \in SUBSET (1..sent) /\ gone \subseteq cut'
    BY <1>0, <2>1, <2>2 DEF PageTyped
  <2>. QED  BY <1>0, <2>1, <2>3 DEF PageTyped, TableTyped
<1>3. CASE ChatDone
  <2>1. /\ active' = 0
        /\ UNCHANGED <<selected, sent, owner, intent, cards, clicked, posts, cut, stage, gone, said, number, rows, history>>
    BY <1>3 DEF ChatDone, promptVars, cardVars, handlerVars, tableVars
  <2>. QED  BY <1>0, <2>1 DEF PageTyped, TableTyped
<1>4. ASSUME NEW s \in Session, SelectSession(s)
      PROVE  PageTyped' /\ TableTyped' /\ stage' \in [Chat -> Stage] /\ (gone \subseteq cut)'
  <2>1. /\ selected' = s
        /\ UNCHANGED <<active, sent, owner, intent, cards, clicked, posts, cut, stage, gone, said, number, rows, history>>
    BY <1>4 DEF SelectSession, promptVars, cardVars, handlerVars, tableVars
  <2>. QED  BY <1>0, <2>1 DEF PageTyped, TableTyped
<1>5. ASSUME NEW r \in Chat, NEW d \in {"allow", "deny"}, Respond(r, d)
      PROVE  PageTyped' /\ TableTyped' /\ stage' \in [Chat -> Stage] /\ (gone \subseteq cut)'
  <2>1. /\ clicked' = [clicked EXCEPT ![r] = d] /\ posts' = posts \cup {r}
        /\ UNCHANGED <<selected, active, sent, owner, intent, cards, cut, stage, gone, said, number, rows, history>>
    BY <1>5 DEF Respond, promptVars, handlerVars, tableVars
  <2>. QED  BY <1>0, <2>1 DEF PageTyped, TableTyped
<1>6. ASSUME NEW r \in Chat, DecisionLost(r)
      PROVE  PageTyped' /\ TableTyped' /\ stage' \in [Chat -> Stage] /\ (gone \subseteq cut)'
  <2>1. /\ posts' = posts \ {r}
        /\ UNCHANGED <<selected, active, sent, owner, intent, cards, clicked, cut, stage, gone, said, number, rows, history>>
    BY <1>6 DEF DecisionLost, promptVars, handlerVars, tableVars
  <2>. QED  BY <1>0, <2>1 DEF PageTyped, TableTyped
<1>. QED  BY <1>1, <1>2, <1>3, <1>4, <1>5, <1>6

LEMMA ServerTypeSteps ==
    ASSUME ChatInv, NEW r \in Chat, Refuse(r) \/ ServerStep(r) \/ Decide(r) \/ StreamCancelled(r)
    PROVE  ChatTypeOK'
<1>0. /\ PageTyped /\ TableTyped /\ stage \in [Chat -> Stage] /\ gone \subseteq cut
      /\ ChatTypeOK /\ RowsDistinct /\ RunsOver /\ owner[r] \in Session /\ number[r] \in 0..(2 * MaxSends + 2)
  BY ChatParts, ChatRanges DEF ChatInv, TableTyped
<1>. SUFFICES PageTyped' /\ TableTyped' /\ stage' \in [Chat -> Stage] /\ (gone \subseteq cut)'
  BY DEF ChatTypeOK, PageTyped, TableTyped
<1>a. \A t \in {"posted", "numbered", "saved", "model", "asking", "writing", "answered", "replying", "over"} :
          t \in Stage
  BY DEF Stage
\* The variables of the page, and those of the table, when a step leaves them.
<1>b. ASSUME UNCHANGED pageVars PROVE PageTyped' /\ cut' = cut
  BY <1>0, <1>b DEF PageTyped, pageVars, promptVars, cardVars
<1>c. ASSUME UNCHANGED <<said, tableVars>> PROVE TableTyped'
  BY <1>0, <1>c DEF TableTyped, tableVars
<1>1. CASE Refuse(r)
  BY <1>0, <1>1, <1>a, <1>b, <1>c, GotoTyped DEF Refuse
<1>2. CASE ReadNumber(r)
  <2>1. stage' \in [Chat -> Stage]
    BY <1>0, <1>2, <1>a, GotoTyped DEF ReadNumber
  <2>2. number' \in [Chat -> 0..(2 * MaxSends + 2)]
    BY <1>0, <1>2, NextNumbers DEF ReadNumber, TableTyped
  <2>. QED  BY <1>0, <1>2, <1>b, <2>1, <2>2 DEF ReadNumber, TableTyped
<1>3. CASE SaveMessage(r)
  <2>1. stage' \in [Chat -> Stage]
    BY <1>0, <1>3, <1>a, GotoTyped DEF SaveMessage
  <2>2. rows' \in [Session -> Seq(Row)]
    <3>1. PICK role \in {"user", "assistant"} : Insert(r, role)
      BY <1>3 DEF SaveMessage
    <3>2. [run |-> r, role |-> role, number |-> number[r]] \in Row
      BY <1>0 DEF Row, Chat
    <3>. QED  BY <1>0, <3>1, <3>2 DEF Insert, TableTyped
  <2>3. number' \in [Chat -> 0..(2 * MaxSends + 2)]
    BY <1>0, <1>3, ChatAssumption DEF SaveMessage, TableTyped
  <2>. QED  BY <1>0, <1>3, <1>b, <2>1, <2>2, <2>3 DEF SaveMessage, TableTyped
<1>4. CASE LoadHistory(r)
  <2>1. stage' \in [Chat -> Stage]
    BY <1>0, <1>4, <1>a, GotoTyped DEF LoadHistory
  <2>2. Recent(Front(Ordered(owner[r]))) \in Seq(Row)
    BY <1>0, OrderedRows, FrontDrops, RecentDrops
  <2>. QED  BY <1>0, <1>4, <1>b, <2>1, <2>2 DEF LoadHistory, TableTyped
<1>5. CASE Token(r)
  <2>1. stage' \in [Chat -> Stage]
    BY <1>0, <1>5, <1>a, SendsTyped DEF Token
  <2>. QED  BY <1>0, <1>5, <1>b, <2>1 DEF Token, TableTyped, tableVars
<1>6. CASE ModelEnds(r)
  <2>1. intent[r] \in {"talk", "ask", "yolo"}
    BY <1>0 DEF PageTyped
  <2>2. \E t \in {"answered", "asking", "writing"} : Sends(r, t)
    BY <1>6, <2>1 DEF ModelEnds
  <2>3. stage' \in [Chat -> Stage]
    BY <1>0, <1>a, <2>2, SendsTyped
  <2>4. cards' = IF intent[r] = "ask" /\ r \notin cut THEN cards \cup {r} ELSE cards
    BY <1>6 DEF ModelEnds
  <2>5. UNCHANGED <<selected, active, sent, owner, intent, clicked, posts, cut, gone, said, number, rows, history>>
    BY <1>6 DEF ModelEnds, promptVars, tableVars
  <2>6. PageTyped'
    BY <1>0, <2>4, <2>5 DEF PageTyped
  <2>. QED  BY <1>0, <2>3, <2>5, <2>6 DEF TableTyped
<1>7. CASE ModelFails(r)
  BY <1>0, <1>7, <1>a, <1>b, <1>c, SendsTyped DEF ModelFails
<1>8. CASE PermissionExpires(r)
  BY <1>0, <1>8, <1>a, <1>b, <1>c, GotoTyped DEF PermissionExpires
<1>9. CASE FileWritten(r)
  BY <1>0, <1>9, <1>a, <1>b, <1>c, SendsTyped DEF FileWritten
<1>10. CASE NoReply(r)
  BY <1>0, <1>10, <1>a, <1>b, <1>c, GotoTyped DEF NoReply
<1>11. CASE Decide(r)
  <2>1. stage' \in [Chat -> Stage]
    BY <1>0, <1>11, <1>a, GotoTyped DEF Decide
  <2>2. /\ posts' = posts \ {r}
        /\ UNCHANGED <<selected, active, sent, owner, intent, cards, clicked, cut, gone, said, number, rows, history>>
    BY <1>11 DEF Decide, promptVars, tableVars
  <2>. QED  BY <1>0, <2>1, <2>2 DEF PageTyped, TableTyped
<1>12. CASE StreamCancelled(r)
  <2>1. stage' \in [Chat -> Stage]
    BY <1>0, <1>12, <1>a, GotoTyped DEF StreamCancelled
  <2>2. gone' \subseteq cut
    BY <1>0, <1>12 DEF StreamCancelled
  <2>. QED  BY <1>12, <1>b, <1>c, <2>1, <2>2 DEF StreamCancelled
<1>. QED
  BY <1>1, <1>2, <1>3, <1>4, <1>5, <1>6, <1>7, <1>8, <1>9, <1>10, <1>11, <1>12 DEF ServerStep

LEMMA ChatInvStep == ChatInv /\ [ChatNext]_ChatVars => ChatInv'
<1>. SUFFICES ASSUME ChatInv, [ChatNext]_ChatVars PROVE ChatInv'
  OBVIOUS
<1>1. CASE \E i \in Intents : SendPrompt(i)
  BY <1>1, PageTypeSteps, SendKeeps
<1>2. CASE CloseChat
  <2>1. ChatTypeOK'
    BY <1>2, PageTypeSteps
  <2>. QED  BY <1>2, <2>1, PageKeeps DEF CloseChat, promptVars, cardVars, handlerVars, tableVars
<1>3. CASE ChatDone
  <2>1. ChatTypeOK'
    BY <1>3, PageTypeSteps
  <2>. QED  BY <1>3, <2>1, PageKeeps DEF ChatDone, promptVars, cardVars, handlerVars, tableVars
<1>4. CASE \E s \in Session : SelectSession(s)
  <2>1. ChatTypeOK'
    BY <1>4, PageTypeSteps
  <2>. QED  BY <1>4, <2>1, PageKeeps DEF SelectSession, promptVars, cardVars, handlerVars, tableVars
<1>5. ASSUME NEW r \in Chat, (\E d \in {"allow", "deny"} : Respond(r, d)) \/ DecisionLost(r)
      PROVE  ChatInv'
  <2>1. ChatTypeOK'
    BY <1>5, PageTypeSteps
  <2>. QED  BY <1>5, <2>1, PageKeeps DEF Respond, DecisionLost, promptVars, handlerVars, tableVars
<1>6. ASSUME NEW r \in Chat, Refuse(r) \/ ServerStep(r) \/ Decide(r) \/ StreamCancelled(r)
      PROVE  ChatInv'
  <2>0. ChatTypeOK' /\ cards \subseteq cards \cup {r}
    BY <1>6, ServerTypeSteps
  <2>. USE DEF pageVars, promptVars, cardVars, tableVars
  <2>1. CASE Refuse(r)
    BY <2>0, <2>1, HandlerKeeps DEF Refuse
  <2>2. CASE ReadNumber(r)
    BY <2>0, <2>2, ReadKeeps
  <2>3. CASE SaveMessage(r)
    BY <2>0, <2>3, SaveKeeps
  <2>4. CASE LoadHistory(r)
    BY <2>0, <2>4, LoadKeeps
  <2>5. CASE Token(r)
    <3>1. Goto(r, "model") \/ Goto(r, "over")
      BY <2>5 DEF Token, Sends
    <3>. QED  BY <2>0, <2>5, <3>1, HandlerKeeps DEF Token
  <2>6. CASE ModelEnds(r)
    <3>1. intent[r] \in {"talk", "ask", "yolo"}
      BY DEF ChatInv, ChatTypeOK
    <3>2. PICK t \in {"answered", "asking", "writing", "over"} : Goto(r, t)
      BY <2>6, <3>1 DEF ModelEnds, Sends
    <3>3. stage[r] = "model" /\ cards' \subseteq cards \cup {r}
          /\ UNCHANGED <<sent, owner, active, cut, number, rows, history>>
      BY <2>6 DEF ModelEnds
    <3>. QED  BY <2>0, <3>2, <3>3, HandlerKeeps
  <2>7. CASE ModelFails(r)
    <3>1. Goto(r, "answered") \/ Goto(r, "over")
      BY <2>7 DEF ModelFails, Sends
    <3>. QED  BY <2>0, <2>7, <3>1, HandlerKeeps DEF ModelFails
  <2>8. CASE PermissionExpires(r)
    BY <2>0, <2>8, HandlerKeeps DEF PermissionExpires
  <2>9. CASE FileWritten(r)
    <3>1. Goto(r, "answered") \/ Goto(r, "over")
      BY <2>9 DEF FileWritten, Sends
    <3>. QED  BY <2>0, <2>9, <3>1, HandlerKeeps DEF FileWritten
  <2>10. CASE NoReply(r)
    BY <2>0, <2>10, HandlerKeeps DEF NoReply
  <2>11. CASE Decide(r)
    <3>1. UNCHANGED <<sent, owner, active, cut, number, rows, history, cards>>
      BY <2>11 DEF Decide
    <3>2. CASE stage[r] # "asking"
      <4>1. UNCHANGED stage
        BY <2>11, <3>2 DEF Decide
      <4>. QED  BY <2>0, <3>1, <4>1, PageKeeps
    <3>3. CASE stage[r] = "asking"
      <4>1. Goto(r, "writing") \/ Goto(r, "answered")
        BY <2>11, <3>3 DEF Decide
      <4>. QED  BY <2>0, <3>1, <3>3, <4>1, HandlerKeeps
    <3>. QED  BY <3>2, <3>3
  <2>12. CASE StreamCancelled(r)
    <3>1. UNCHANGED <<sent, owner, active, cut, number, rows, history, cards>>
      BY <2>12 DEF StreamCancelled
    <3>2. CASE stage[r] # "asking"
      <4>1. UNCHANGED stage
        BY <2>12, <3>2 DEF StreamCancelled
      <4>. QED  BY <2>0, <3>1, <4>1, PageKeeps
    <3>3. CASE stage[r] = "asking"
      <4>1. Goto(r, "over")
        BY <2>12, <3>3 DEF StreamCancelled
      <4>. QED  BY <2>0, <3>1, <3>3, <4>1, HandlerKeeps
    <3>. QED  BY <3>2, <3>3
  <2>. QED
    BY <1>6, <2>1, <2>2, <2>3, <2>4, <2>5, <2>6, <2>7, <2>8, <2>9, <2>10, <2>11, <2>12 DEF ServerStep
<1>7. CASE UNCHANGED ChatVars
  <2>1. UNCHANGED <<selected, active, sent, owner, intent, cards, clicked, posts, cut, stage, gone, said, number, rows, history>>
    BY <1>7 DEF ChatVars, pageVars, promptVars, cardVars, handlerVars, tableVars
  <2>2. ChatTypeOK'
    BY <2>1 DEF ChatInv, ChatTypeOK
  <2>. QED  BY <2>1, <2>2, PageKeeps
<1>. QED  BY <1>1, <1>2, <1>3, <1>4, <1>5, <1>6, <1>7 DEF ChatNext

\* The page and the server stay within their types; for the numbers of
\* messages that is the bound on how many a session can hold.
THEOREM ChatTyped == ChatSpec => []ChatTypeOK
<1>1. ChatInv => ChatTypeOK
  BY DEF ChatInv
<1>. QED  BY <1>1, ChatBegins, ChatInvStep, PTL DEF ChatSpec

\* In a session that is whole, what the model is given is the end of what
\* was saved before the prompt.
LEMMA ExactNow ==
    ASSUME ChatInv, NEW r \in Chat, UpTo(r) \cap cut = {},
           stage[r] \in {"model", "asking", "writing"}
    PROVE  Exact(r)
<1>. DEFINE saved == rows[owner[r]]
            n == Len(saved) - 1
            front == Front(saved)
            given == history[r]
<1>1. /\ r <= sent /\ r \in Nat /\ r >= 1 /\ sent \in Nat
      /\ owner[r] \in Session /\ saved \in Seq(Row) /\ Len(saved) \in Nat
      /\ DOMAIN saved = 1..Len(saved) /\ \A i \in 1..Len(saved) : saved[i].run \in Nat
  <2>1. ~(r > sent)
    BY DEF ChatInv, RunsOver
  <2>2. \A q \in 0..MaxSends : q \in Nat
    BY ChatAssumption
  <2>. QED  BY <2>1, <2>2, ChatRanges DEF ChatInv
<1>2. r \notin cut
  BY <1>1 DEF UpTo
<1>3. r = active /\ active # 0
  BY <1>1, <1>2 DEF ChatInv, RunsOver
<1>4. r = sent
  BY <1>3 DEF ChatInv, ChatTypeOK
<1>5. Whole(owner[r])
  BY <1>4 DEF Whole, UpTo
<1>6. AskedLast(saved, r) /\ given = Recent(front)
  BY <1>3, <1>5 DEF ChatInv, Current, CurrentRun
<1>7. Consecutive(saved)
  BY <1>1, <1>5 DEF ChatInv, WholeRows
<1>. HIDE DEF saved
<1>8. n \in Nat /\ front \in Seq(Row) /\ Len(front) = n /\ \A i \in 1..n : front[i] = saved[i]
  <2>1. Len(saved) > 0
    BY <1>6 DEF AskedLast
  <2>2. Front(saved) \in Seq(Row) /\ Len(Front(saved)) = n /\ \A i \in 1..n : Front(saved)[i] = saved[i]
    BY <1>1, <2>1, FrontDrops
  <2>. QED  BY <1>1, <2>1, <2>2
<1>a. Len(saved) = n + 1
  BY <1>1
<1>. HIDE DEF front, n
<1>9. /\ given \in Seq(Row) /\ Len(given) = IF n > HistoryLimit THEN HistoryLimit ELSE n
      /\ \A i \in 1..Len(given) : given[i] = front[n - Len(given) + i]
  <2>1. /\ Recent(front) \in Seq(Row)
        /\ Len(Recent(front)) = IF Len(front) > HistoryLimit THEN HistoryLimit ELSE Len(front)
        /\ \A i \in 1..Len(Recent(front)) : Recent(front)[i] = front[Len(front) - Len(Recent(front)) + i]
    BY <1>8, RecentDrops
  <2>. HIDE DEF given
  <2>. QED  BY <1>6, <1>8, <2>1
<1>. HIDE DEF given
<1>10. /\ Len(given) \in Nat /\ Len(given) <= n /\ DOMAIN given = 1..Len(given)
  BY <1>8, <1>9, LenProperties, ChatAssumption
<1>11. \A i \in DOMAIN given : given[i] = saved[n - Len(given) + i]
  <2>1. \A i \in 1..Len(given) : n - Len(given) + i \in 1..n
    BY <1>8, <1>10
  <2>. QED  BY <1>8, <1>9, <1>10, <2>1
<1>12. \A i \in DOMAIN saved : saved[i].run < r <=> i <= n
  <2>1. saved[n + 1].run = r /\ \A i \in 1..n : saved[i].run < r
    BY <1>6, <1>8, <1>a DEF AskedLast
  <2>2. ASSUME NEW i \in 1..Len(saved)
        PROVE  saved[i].run < r <=> i <= n
    <3>1. i \in 1..n \/ (i = n + 1 /\ ~(i <= n))
      BY <1>8, <1>a
    <3>2. CASE i \in 1..n
      BY <1>8, <2>1, <3>2
    <3>3. CASE i = n + 1 /\ ~(i <= n)
      BY <1>1, <2>1, <3>3
    <3>. QED  BY <3>1, <3>2, <3>3
  <2>. QED  BY <1>1, <2>2
<1>13. ASSUME NEW i \in 1..n, NEW j \in 1..n, i < j
       PROVE  saved[i].run < saved[j].run \/ (saved[i].run = saved[j].run /\ saved[i].role = "user")
  <2>1. i \in 1..(j - 1) /\ j \in 1..Len(saved)
    BY <1>8, <1>13, <1>a
  <2>. QED  BY <1>7, <2>1 DEF Consecutive, Earlier
<1>14. n \in 0..Len(saved)
  BY <1>8, <1>a
<1>15. /\ Len(given) = IF n > HistoryLimit THEN HistoryLimit ELSE n
       /\ \A i, j \in 1..n : i < j =>
              saved[i].run < saved[j].run \/ (saved[i].run = saved[j].run /\ saved[i].role = "user")
  BY <1>9, <1>13
<1>. QED  BY <1>11, <1>12, <1>14, <1>15 DEF Exact, saved, given

-----------------------------------------------------------------------------
(***************************************************************************)
(* Sessions in which runs were cut off.  There several handlers number and *)
(* save messages at once, two messages may get one number, and the rows    *)
(* are no longer sorted.  What is left: numbers have no gaps, so that the  *)
(* next one is above all in use; and a run that the page still follows is  *)
(* the newest, so that no message of such a run comes in behind a newer    *)
(* prompt.  KeptRun follows a prompt from its number to the history.       *)
(***************************************************************************)

Numbers(s) == {rows[s][i].number : i \in DOMAIN rows[s]}

Gapless ==
    \A s \in Session : \E k \in Nat :
        /\ Numbers(s) = 0..(k - 1)
        /\ \A r \in Chat : owner[r] = s /\ stage[r] \in {"numbered", "replying"} => number[r] <= k

KeptRun(r) ==
    /\ stage[r] = "numbered" => \A m \in Settled(r) : m.number < number[r]
    /\ stage[r] = "saved" => \E p \in ToSet(rows[owner[r]]) :
          p.run = r /\ \A m \in Settled(r) : m.number < p.number
    /\ stage[r] \in {"model", "asking", "writing"} => Recalled(r)

KeptInv == Gapless /\ \A r \in Chat : KeptRun(r)

LEMMA CountUpTo ==
    ASSUME NEW k \in Nat
    PROVE  Cardinality(0..(k - 1)) = k
<1>1. 0 \in Int /\ k - 1 \in Int
  OBVIOUS
<1>2. Cardinality(0..(k - 1)) = IF 0 > k - 1 THEN 0 ELSE k - 1 - 0 + 1
  BY <1>1, FS_Interval
<1>. QED  BY <1>2

\* A message of a session is a row of it.
LEMMA SettledRow ==
    ASSUME ChatTypeOK, NEW r \in Chat, NEW m \in Settled(r)
    PROVE  /\ \E i \in 1..Len(rows[owner[r]]) : rows[owner[r]][i] = m
           /\ m.number \in Nat /\ m.run < r /\ m.run \notin cut /\ m.run \in 0..MaxSends
<1>1. /\ DOMAIN rows[owner[r]] = 1..Len(rows[owner[r]])
      /\ \A i \in 1..Len(rows[owner[r]]) :
             rows[owner[r]][i].number \in Nat /\ rows[owner[r]][i].run \in 0..MaxSends
  BY ChatRanges
<1>. QED  BY <1>1 DEF Settled, ToSet

\* A run keeps what it has as long as no message comes in before it.
LEMMA RunStays ==
    ASSUME NEW r \in Chat, KeptRun(r),
           stage'[r] = "numbered" => stage[r] = "numbered" /\ number'[r] = number[r],
           stage'[r] = "saved" => stage[r] = "saved",
           stage'[r] \in {"model", "asking", "writing"} =>
               stage[r] \in {"model", "asking", "writing"} /\ history'[r] = history[r],
           stage'[r] \in {"numbered", "saved", "model", "asking", "writing"} =>
               Settled(r)' \subseteq Settled(r) /\ ToSet(rows[owner[r]]) \subseteq ToSet(rows[owner[r]])'
    PROVE  KeptRun(r)'
<1>1. CASE stage'[r] = "numbered"
  BY <1>1 DEF KeptRun
<1>2. CASE stage'[r] = "saved"
  BY <1>2 DEF KeptRun
<1>3. CASE stage'[r] \in {"model", "asking", "writing"}
  BY <1>3 DEF KeptRun, Recalled
<1>4. CASE stage'[r] \notin {"numbered", "saved", "model", "asking", "writing"}
  BY <1>4 DEF KeptRun
<1>. QED  BY <1>1, <1>2, <1>3, <1>4

\* The steps that leave the table alone.
Quiet ==
    /\ UNCHANGED <<number, rows, history>> /\ cut \subseteq cut'
    /\ \A q \in Chat :
          \/ stage'[q] \in {"posted", "answered", "over"}
          \/ owner'[q] = owner[q] /\ stage'[q] = stage[q]
          \/ /\ owner'[q] = owner[q]
             /\ {stage[q], stage'[q]} \subseteq {"model", "asking", "writing"}

LEMMA QuietKeeps == KeptInv /\ Quiet => KeptInv'
<1>. SUFFICES ASSUME KeptInv, Quiet PROVE KeptInv'
  OBVIOUS
<1>1. Gapless'
  <2>. SUFFICES ASSUME NEW s \in Session
                PROVE  \E k \in Nat :
                          /\ Numbers(s)' = 0..(k - 1)
                          /\ \A r \in Chat : owner'[r] = s /\ stage'[r] \in {"numbered", "replying"}
                                => number'[r] <= k
    BY DEF Gapless
  <2>1. PICK k \in Nat :
            /\ Numbers(s) = 0..(k - 1)
            /\ \A r \in Chat : owner[r] = s /\ stage[r] \in {"numbered", "replying"} => number[r] <= k
    BY DEF KeptInv, Gapless
  <2>2. Numbers(s)' = Numbers(s)
    BY DEF Quiet, Numbers
  <2>3. \A r \in Chat : owner'[r] = s /\ stage'[r] \in {"numbered", "replying"} => number'[r] <= k
    BY <2>1 DEF Quiet
  <2>. QED  BY <2>1, <2>2, <2>3
<1>2. ASSUME NEW r \in Chat
      PROVE  KeptRun(r)'
  <2>1. owner'[r] = owner[r] => /\ Settled(r)' \subseteq Settled(r)
                                /\ ToSet(rows[owner[r]]) \subseteq ToSet(rows[owner[r]])'
    BY DEF Quiet, Settled
  <2>2. KeptRun(r)
    BY DEF KeptInv
  <2>. QED  BY <2>1, <2>2, RunStays DEF Quiet
<1>. QED  BY <1>1, <1>2 DEF KeptInv

LEMMA QuietGoto ==
    ASSUME ChatTypeOK, NEW r \in Chat, NEW t, Goto(r, t), UNCHANGED <<owner, cut, number, rows, history>>,
           \/ t \in {"answered", "over"}
           \/ {stage[r], t} \subseteq {"model", "asking", "writing"}
    PROVE  Quiet
<1>1. stage \in [Chat -> Stage]
  BY DEF ChatTypeOK
<1>2. stage'[r] = t /\ \A q \in Chat : q # r => stage'[q] = stage[q]
  BY <1>1 DEF Goto
<1>. QED  BY <1>2 DEF Quiet

LEMMA QuietStay ==
    ASSUME UNCHANGED <<owner, stage, number, rows, history>>, cut \subseteq cut'
    PROVE  Quiet
BY DEF Quiet

LEMMA QuietSteps ==
    ASSUME ChatTypeOK,
           \/ \E i \in Intents : SendPrompt(i)
           \/ CloseChat \/ ChatDone
           \/ \E s \in Session : SelectSession(s)
           \/ \E r \in Chat : \/ \E d \in {"allow", "deny"} : Respond(r, d)
                              \/ DecisionLost(r) \/ Refuse(r) \/ Decide(r) \/ StreamCancelled(r)
                              \/ Token(r) \/ ModelEnds(r) \/ ModelFails(r)
                              \/ PermissionExpires(r) \/ FileWritten(r) \/ NoReply(r)
           \/ UNCHANGED ChatVars
    PROVE  Quiet
<1>. USE DEF pageVars, promptVars, cardVars, tableVars, handlerVars
<1>1. ASSUME NEW i \in Intents, SendPrompt(i) PROVE Quiet
  <2>1. /\ owner' = [owner EXCEPT ![sent + 1] = selected]
        /\ stage' = [stage EXCEPT ![sent + 1] = "posted"]
        /\ UNCHANGED <<cut, number, rows, history>>
    BY <1>1 DEF SendPrompt, Goto
  <2>2. stage \in [Chat -> Stage] /\ owner \in [Chat -> Session]
    BY DEF ChatTypeOK
  <2>. QED  BY <2>1, <2>2 DEF Quiet
<1>2. CASE CloseChat
  BY <1>2, QuietStay DEF CloseChat
<1>3. CASE ChatDone
  BY <1>3, QuietStay DEF ChatDone
<1>4. ASSUME NEW s \in Session, SelectSession(s) PROVE Quiet
  BY <1>4, QuietStay DEF SelectSession
<1>5. ASSUME NEW r \in Chat, (\E d \in {"allow", "deny"} : Respond(r, d)) \/ DecisionLost(r) PROVE Quiet
  BY <1>5, QuietStay DEF Respond, DecisionLost
<1>6. ASSUME NEW r \in Chat, Refuse(r) PROVE Quiet
  BY <1>6, QuietGoto DEF Refuse
<1>7. ASSUME NEW r \in Chat, Decide(r) PROVE Quiet
  <2>1. UNCHANGED <<owner, cut, number, rows, history>>
    BY <1>7 DEF Decide
  <2>2. UNCHANGED stage \/ (stage[r] = "asking" /\ (Goto(r, "writing") \/ Goto(r, "answered")))
    BY <1>7 DEF Decide
  <2>. QED  BY <2>1, <2>2, QuietGoto, QuietStay
<1>8. ASSUME NEW r \in Chat, StreamCancelled(r) PROVE Quiet
  BY <1>8, QuietGoto, QuietStay DEF StreamCancelled
<1>9. ASSUME NEW r \in Chat, Token(r) PROVE Quiet
  <2>1. stage[r] = "model" /\ (Goto(r, "model") \/ Goto(r, "over"))
    BY <1>9 DEF Token, Sends
  <2>. QED  BY <1>9, <2>1, QuietGoto DEF Token
<1>10. ASSUME NEW r \in Chat, ModelEnds(r) PROVE Quiet
  <2>1. intent[r] \in {"talk", "ask", "yolo"}
    BY DEF ChatTypeOK
  <2>2. PICK t \in {"answered", "asking", "writing", "over"} : Goto(r, t)
    BY <1>10, <2>1 DEF ModelEnds, Sends
  <2>3. stage[r] = "model" /\ UNCHANGED <<owner, cut, number, rows, history>>
    BY <1>10 DEF ModelEnds
  <2>. QED  BY <2>2, <2>3, QuietGoto
<1>11. ASSUME NEW r \in Chat, ModelFails(r) \/ FileWritten(r) PROVE Quiet
  <2>1. Goto(r, "answered") \/ Goto(r, "over")
    BY <1>11 DEF ModelFails, FileWritten, Sends
  <2>. QED  BY <1>11, <2>1, QuietGoto DEF ModelFails, FileWritten
<1>12. ASSUME NEW r \in Chat, PermissionExpires(r) \/ NoReply(r) PROVE Quiet
  BY <1>12, QuietGoto DEF PermissionExpires, NoReply
<1>13. CASE UNCHANGED ChatVars
  BY <1>13, QuietStay DEF ChatVars
<1>. QED
  BY <1>1, <1>2, <1>3, <1>4, <1>5, <1>6, <1>7, <1>8, <1>9, <1>10, <1>11, <1>12, <1>13

\* A prompt is numbered above every message there is.
LEMMA ReadKept ==
    ASSUME ChatInv, KeptInv, NEW r \in Chat, ReadNumber(r)
    PROVE  KeptInv'
<1>1. PICK t \in {"numbered", "replying"} : stage' = [stage EXCEPT ![r] = t]
  BY DEF ReadNumber, Goto
<1>2. /\ number' = [number EXCEPT ![r] = NextNumber(owner[r])]
      /\ UNCHANGED <<sent, owner, cut, rows, history>>
  BY DEF ReadNumber, pageVars, promptVars
<1>3. /\ ChatTypeOK /\ stage \in [Chat -> Stage] /\ number \in [Chat -> 0..(2 * MaxSends + 2)]
      /\ owner[r] \in Session
  BY ChatRanges DEF ChatInv, ChatTypeOK
<1>4. /\ stage'[r] = t /\ number'[r] = NextNumber(owner[r])
      /\ \A q \in Chat : q # r => stage'[q] = stage[q] /\ number'[q] = number[q]
  BY <1>1, <1>2, <1>3
<1>5. Gapless'
  <2>. SUFFICES ASSUME NEW s \in Session
                PROVE  \E k \in Nat :
                          /\ Numbers(s)' = 0..(k - 1)
                          /\ \A q \in Chat : owner[q] = s /\ stage'[q] \in {"numbered", "replying"}
                                => number'[q] <= k
    BY <1>2 DEF Gapless
  <2>1. PICK k \in Nat :
            /\ Numbers(s) = 0..(k - 1)
            /\ \A q \in Chat : owner[q] = s /\ stage[q] \in {"numbered", "replying"} => number[q] <= k
    BY DEF KeptInv, Gapless
  <2>2. Numbers(s)' = Numbers(s)
    BY <1>2 DEF Numbers
  <2>3. owner[r] = s => number'[r] = k
    BY <1>4, <2>1, CountUpTo DEF NextNumber, Numbers
  <2>. QED  BY <1>4, <2>1, <2>2, <2>3
<1>6. ASSUME NEW q \in Chat
      PROVE  KeptRun(q)'
  <2>1. KeptRun(q) /\ Settled(q)' = Settled(q) /\ ToSet(rows[owner[q]])' = ToSet(rows[owner[q]])
    BY <1>2 DEF KeptInv, Settled
  <2>2. CASE q # r
    BY <1>2, <1>4, <2>1, <2>2, RunStays
  <2>3. CASE q = r
    <3>1. PICK k \in Nat : Numbers(owner[r]) = 0..(k - 1)
      BY <1>3 DEF KeptInv, Gapless
    <3>2. number'[r] = k
      BY <1>4, <3>1, CountUpTo DEF NextNumber, Numbers
    <3>3. ASSUME NEW m \in Settled(r)
          PROVE  m.number < k
      <4>1. m.number \in Numbers(owner[r])
        BY DEF Settled, ToSet, Numbers
      <4>. QED  BY <3>1, <4>1
    <3>. QED  BY <1>1, <1>4, <2>1, <2>3, <3>2, <3>3 DEF KeptRun
  <2>. QED  BY <2>2, <2>3
<1>. QED  BY <1>5, <1>6 DEF KeptInv

\* A message that is saved comes from the newest run or from one that was
\* cut off: it comes in before no prompt of another run.
LEMMA SaveKept ==
    ASSUME ChatInv, KeptInv, NEW r \in Chat, SaveMessage(r)
    PROVE  KeptInv'
<1>. DEFINE o == owner[r]
            saved == rows[o]
            n == Len(saved)
<1>1. PICK role \in {"user", "assistant"}, t \in {"saved", "over"} :
          /\ stage' = [stage EXCEPT ![r] = t]
          /\ rows' = [rows EXCEPT ![o] = Append(@, [run |-> r, role |-> role, number |-> number[r]])]
          /\ role = "user" => t = "saved" /\ stage[r] = "numbered"
          /\ role = "assistant" => t = "over" /\ stage[r] = "replying"
  BY DEF SaveMessage, Goto, Insert
<1>. DEFINE m == [run |-> r, role |-> role, number |-> number[r]]
            more == Append(saved, m)
<1>2. /\ UNCHANGED <<sent, owner, active, cut, history>> /\ number' = [number EXCEPT ![r] = 0]
  BY DEF SaveMessage, pageVars, promptVars
<1>3. /\ stage[r] \in {"numbered", "replying"}
      /\ number \in [Chat -> 0..(2 * MaxSends + 2)] /\ number[r] \in Nat
      /\ stage \in [Chat -> Stage] /\ rows \in [Session -> Seq(Row)]
      /\ o \in Session /\ saved \in Seq(Row) /\ m \in Row /\ r \in Nat
      /\ m.run = r /\ m.number = number[r]
  <2>1. ChatTypeOK /\ MaxSends \in Nat
    BY ChatAssumption DEF ChatInv
  <2>2. /\ number \in [Chat -> 0..(2 * MaxSends + 2)] /\ number[r] \in 0..(2 * MaxSends + 2) /\ number[r] \in Nat
        /\ stage \in [Chat -> Stage] /\ rows \in [Session -> Seq(Row)]
    BY <2>1 DEF ChatTypeOK
  <2>3. o \in Session /\ saved \in Seq(Row) /\ r \in Nat
    BY <2>1, ChatRanges
  <2>4. m \in Row /\ m.run = r /\ m.number = number[r]
    BY <2>2 DEF Row, Chat
  <2>. QED  BY <1>1, <2>2, <2>3, <2>4
<1>4. /\ stage'[r] = t
      /\ \A q \in Chat : q # r => stage'[q] = stage[q] /\ number'[q] = number[q]
  BY <1>1, <1>2, <1>3
<1>. HIDE DEF o, m
<1>5. /\ n \in Nat /\ Len(more) = n + 1 /\ \A i \in 1..n : more[i] = saved[i]
      /\ more[n + 1] = m /\ \A i \in 1..(n + 1) : i \in 1..n \/ i = n + 1
      /\ DOMAIN more = 1..(n + 1) /\ DOMAIN saved = 1..n
  BY <1>3, InsertedLast, LenProperties
<1>6. rows'[o] = more /\ \A s \in Session : s # o => rows'[s] = rows[s]
  BY <1>1, <1>3 DEF m
<1>7. /\ ToSet(more) = ToSet(saved) \cup {m}
      /\ {more[i].number : i \in DOMAIN more} = {saved[i].number : i \in DOMAIN saved} \cup {number[r]}
  <2>. HIDE DEF saved, more, n
  <2>1. \A i \in 1..n : i \in 1..(n + 1)
    BY <1>5
  <2>2. n + 1 \in 1..(n + 1)
    BY <1>5
  <2>3. ToSet(more) = ToSet(saved) \cup {m}
    BY <1>5, <2>1, <2>2 DEF ToSet
  <2>4. {more[i].number : i \in DOMAIN more} = {saved[i].number : i \in DOMAIN saved} \cup {m.number}
    BY <1>5, <2>1, <2>2
  <2>. QED  BY <1>3, <2>3, <2>4
<1>. HIDE DEF more
<1>8. Gapless'
  <2>. SUFFICES ASSUME NEW s \in Session
                PROVE  \E k \in Nat :
                          /\ Numbers(s)' = 0..(k - 1)
                          /\ \A q \in Chat : owner[q] = s /\ stage'[q] \in {"numbered", "replying"}
                                => number'[q] <= k
    BY <1>2 DEF Gapless
  <2>1. PICK k \in Nat :
            /\ Numbers(s) = 0..(k - 1)
            /\ \A q \in Chat : owner[q] = s /\ stage[q] \in {"numbered", "replying"} => number[q] <= k
    BY DEF KeptInv, Gapless
  <2>2. \A q \in Chat : owner[q] = s /\ stage'[q] \in {"numbered", "replying"}
            => number'[q] <= k /\ number'[q] \in Nat
    <3>1. t \notin {"numbered", "replying"}
      OBVIOUS
    <3>2. \A q \in Chat : number[q] \in Nat
      BY <1>3, ChatAssumption
    <3>. QED  BY <1>4, <2>1, <3>1, <3>2
  <2>3. CASE s # o
    <3>1. Numbers(s)' = Numbers(s)
      BY <1>6, <2>3 DEF Numbers
    <3>. QED  BY <2>1, <2>2, <3>1
  <2>4. CASE s = o
    <3>1. Numbers(s)' = 0..(k - 1) \cup {number[r]}
      <4>1. rows'[s] = more /\ rows[s] = saved
        BY <1>6, <2>4
      <4>2. Numbers(s)' = {more[i].number : i \in DOMAIN more}
        BY <4>1 DEF Numbers
      <4>3. Numbers(s) = {saved[i].number : i \in DOMAIN saved}
        BY <4>1 DEF Numbers
      <4>. QED  BY <1>7, <2>1, <4>2, <4>3
    <3>2. number[r] <= k
      BY <1>3, <2>1, <2>4 DEF o
    <3>3. CASE number[r] = k
      <4>1. 0..(k - 1) \cup {k} = 0..((k + 1) - 1) /\ k + 1 \in Nat
        OBVIOUS
      <4>2. \A q \in Chat : owner[q] = s /\ stage'[q] \in {"numbered", "replying"} => number'[q] <= k + 1
        BY <2>2
      <4>. QED  BY <3>1, <3>3, <4>1, <4>2
    <3>4. CASE number[r] < k
      <4>1. 0..(k - 1) \cup {number[r]} = 0..(k - 1)
        BY <1>3, <3>4
      <4>. QED  BY <2>2, <3>1, <4>1
    <3>. QED  BY <1>3, <3>2, <3>3, <3>4
  <2>. QED  BY <2>3, <2>4
<1>9. ASSUME NEW q \in Chat
      PROVE  KeptRun(q)'
  <2>1. KeptRun(q)
    BY DEF KeptInv
  <2>2. ToSet(rows[owner[q]]) \subseteq ToSet(rows[owner[q]])'
    <3>1. owner[q] \in Session
      BY ChatRanges DEF ChatInv
    <3>2. CASE owner[q] = o
      BY <1>2, <1>6, <1>7, <3>2
    <3>3. CASE owner[q] # o
      BY <1>2, <1>6, <3>1, <3>3
    <3>. QED  BY <3>2, <3>3
  \* The message of r would have to be one of a run that was not cut off and
  \* is older than q.
  <2>3. ASSUME stage'[q] # "none", NEW x \in Settled(q)'
        PROVE  x \in Settled(q)
    <3>1. x \in ToSet(rows'[owner[q]]) /\ x.run < q /\ x.run \notin cut
      BY <1>2, <2>3 DEF Settled
    <3>2. CASE owner[q] # o
      <4>1. owner[q] \in Session
        BY ChatRanges DEF ChatInv
      <4>. QED  BY <1>6, <3>1, <3>2, <4>1 DEF Settled
    <3>3. CASE owner[q] = o /\ x # m
      BY <1>6, <1>7, <3>1, <3>3 DEF Settled
    <3>4. CASE x = m
      <4>1. r < q /\ r \notin cut
        BY <1>3, <3>1, <3>4
      <4>2. r = active /\ ~(q > sent) /\ q \in Nat /\ sent \in Nat
        <5>1. ChatTypeOK /\ RunsOver
          BY DEF ChatInv
        <5>2. q \in Nat /\ sent \in Nat /\ r \in Nat
          BY <5>1, ChatRanges
        <5>3. stage[q] # "none"
          BY <1>3, <1>4, <2>3
        <5>4. ~(q > sent) /\ ~(r > sent)
          BY <1>3, <5>1, <5>3 DEF RunsOver
        <5>5. r = active
          BY <1>3, <4>1, <5>1, <5>2, <5>4 DEF RunsOver
        <5>. QED  BY <5>2, <5>4, <5>5
      <4>3. active = 0 \/ active = sent
        BY DEF ChatInv, ChatTypeOK
      <4>4. r # 0
        BY ChatRanges DEF ChatInv
      <4>. QED  BY <1>3, <4>1, <4>2, <4>3, <4>4
    <3>. QED  BY <3>2, <3>3, <3>4
  <2>4. CASE q # r
    BY <1>2, <1>4, <2>1, <2>2, <2>3, <2>4, RunStays
  <2>5. CASE q = r /\ t = "saved"
    <3>1. stage[r] = "numbered"
      BY <1>1, <2>5
    <3>2. \A x \in Settled(r)' : x.number < number[r]
      BY <1>4, <2>1, <2>3, <2>5, <3>1 DEF KeptRun
    <3>3. m \in ToSet(rows[owner[r]])' /\ m.run = r /\ m.number = number[r]
      BY <1>2, <1>3, <1>6, <1>7 DEF o
    <3>. QED  BY <1>4, <2>5, <3>2, <3>3 DEF KeptRun
  <2>6. CASE q = r /\ t = "over"
    BY <1>4, <2>6 DEF KeptRun
  <2>. QED  BY <2>4, <2>5, <2>6
<1>. QED  BY <1>8, <1>9 DEF KeptInv

\* The prompt is behind every message it has to be behind; the last of the
\* list is dropped, and of the rest the newest are kept.
LEMMA LoadKept ==
    ASSUME ChatInv, KeptInv, NEW r \in Chat, LoadHistory(r)
    PROVE  KeptInv'
<1>. DEFINE list == Ordered(owner[r])
            n == Len(rows[owner[r]])
            given == Recent(Front(list))
<1>1. /\ stage[r] = "saved" /\ stage' = [stage EXCEPT ![r] = "model"]
      /\ history' = [history EXCEPT ![r] = given]
      /\ UNCHANGED <<owner, cut, rows, number>>
  BY DEF LoadHistory, Goto, pageVars, promptVars
<1>2. /\ ChatTypeOK /\ stage \in [Chat -> Stage] /\ history \in [Chat -> Seq(Row)]
      /\ owner[r] \in Session /\ n \in Nat
  BY ChatRanges DEF ChatInv, ChatTypeOK
<1>3. /\ stage'[r] = "model" /\ history'[r] = given
      /\ \A q \in Chat : q # r => stage'[q] = stage[q] /\ history'[q] = history[q]
  BY <1>1, <1>2
<1>4. Gapless'
  <2>1. \A s \in Session : Numbers(s)' = Numbers(s)
    BY <1>1 DEF Numbers
  <2>2. \A q \in Chat : stage'[q] \in {"numbered", "replying"} => stage[q] = stage'[q]
    BY <1>3
  <2>3. Gapless
    BY DEF KeptInv
  <2>. QED  BY <1>1, <2>1, <2>2, <2>3 DEF Gapless
<1>5. \A q \in Chat : Settled(q)' = Settled(q) /\ ToSet(rows[owner[q]])' = ToSet(rows[owner[q]])
  BY <1>1 DEF Settled
<1>6. ASSUME NEW q \in Chat, q # r
      PROVE  KeptRun(q)'
  <2>1. KeptRun(q)
    BY DEF KeptInv
  <2>. QED  BY <1>1, <1>3, <1>5, <1>6, <2>1, RunStays
<1>7. /\ list \in Seq(Row) /\ Len(list) = n
      /\ \A i \in 1..n : \E k \in 1..n : list[k] = rows[owner[r]][i]
      /\ \A k, l \in 1..n : k <= l => list[k].number <= list[l].number
  BY <1>2, OrderedRows
<1>8. PICK p \in ToSet(rows[owner[r]]) : \A m \in Settled(r) : m.number < p.number
  BY <1>1 DEF KeptInv, KeptRun
<1>. HIDE DEF list
<1>9. PICK b \in 1..n : list[b] = p
  <2>1. \E i \in 1..n : rows[owner[r]][i] = p
    BY <1>2, <1>8, ChatRanges DEF ToSet
  <2>. QED  BY <1>7, <2>1
<1>10. /\ Front(list) \in Seq(Row) /\ Len(Front(list)) = n - 1 /\ n - 1 \in Nat
       /\ \A i \in 1..(n - 1) : Front(list)[i] = list[i]
  <2>1. n > 0 /\ n \in Nat
    BY <1>2, <1>9
  <2>. HIDE DEF n
  <2>2. Front(list) \in Seq(Row) /\ Len(Front(list)) = n - 1 /\ \A i \in 1..(n - 1) : Front(list)[i] = list[i]
    BY <1>7, <2>1, FrontDrops
  <2>. QED  BY <2>1, <2>2
<1>11. /\ given \in Seq(Row)
       /\ Len(given) = IF n - 1 > HistoryLimit THEN HistoryLimit ELSE n - 1
       /\ \A i \in 1..Len(given) : given[i] = Front(list)[n - 1 - Len(given) + i]
  BY <1>10, RecentDrops
<1>. HIDE DEF given, n
<1>. DEFINE h == Len(given)
<1>12. /\ h \in Nat /\ h <= n - 1 /\ DOMAIN given = 1..h
       /\ h < n - 1 => h = HistoryLimit
       /\ \A i \in 1..h : n - 1 - h + i \in 1..(n - 1) /\ given[i] = list[n - 1 - h + i]
  <2>1. h \in Nat /\ DOMAIN given = 1..h
    BY <1>11, LenProperties
  <2>2. h <= n - 1 /\ (h < n - 1 => h = HistoryLimit)
    BY <1>2, <1>11, ChatAssumption
  <2>3. \A i \in 1..h : n - 1 - h + i \in 1..(n - 1)
    <3>. HIDE DEF h
    <3>. QED  BY <1>2, <2>1, <2>2
  <2>4. \A i \in 1..h : given[i] = list[n - 1 - h + i]
    BY <1>10, <1>11, <2>3
  <2>. QED  BY <2>1, <2>2, <2>3, <2>4
<1>13. ASSUME NEW m \in Settled(r), m \notin ToSet(given)
       PROVE  h = HistoryLimit /\ \A x \in ToSet(given) : x.number >= m.number
  <2>1. PICK a \in 1..n : list[a] = m
    <3>1. \E i \in 1..n : rows[owner[r]][i] = m
      BY <1>2, SettledRow DEF n
    <3>. QED  BY <1>7, <3>1
  <2>2. m.number \in Nat /\ m.number < p.number /\ p.number \in Nat
    <3>1. p.number \in Nat
      BY <1>2, <1>8, ChatRanges DEF ToSet
    <3>. QED  BY <1>2, <1>8, <3>1, SettledRow
  <2>3. a < b /\ a \in 1..(n - 1)
    <3>1. ~(b <= a)
      <4>1. b <= a => list[b].number <= list[a].number
        BY <1>7
      <4>2. list[b].number = p.number /\ list[a].number = m.number
        BY <1>9, <2>1
      <4>. QED  BY <2>2, <4>1, <4>2
    <3>. QED  BY <1>2, <1>9, <2>1, <3>1
  <2>4. a <= n - 1 - h
    <3>. SUFFICES ASSUME ~(a <= n - 1 - h) PROVE FALSE
      OBVIOUS
    <3>. DEFINE i == a - (n - 1 - h)
    <3>1. i \in 1..h /\ n - 1 - h + i = a
      <4>. HIDE DEF h
      <4>. QED  BY <1>2, <1>12, <2>3
    <3>2. given[i] = m
      BY <1>12, <2>1, <3>1
    <3>. HIDE DEF i, h
    <3>. QED  BY <1>12, <1>13, <3>1, <3>2 DEF ToSet
  <2>5. h < n - 1
    <3>. HIDE DEF h
    <3>. QED  BY <1>2, <1>12, <2>3, <2>4
  <2>6. ASSUME NEW x \in ToSet(given)
        PROVE  x.number >= m.number
    <3>1. PICK i \in 1..h : given[i] = x
      BY <1>12 DEF ToSet
    <3>2. n - 1 - h + i \in 1..n /\ a <= n - 1 - h + i
      <4>. HIDE DEF h
      <4>. QED  BY <1>2, <1>12, <2>3, <2>4
    <3>3. list[a].number <= list[n - 1 - h + i].number
      BY <1>7, <2>1, <3>2
    <3>4. x = list[n - 1 - h + i] /\ x \in Row
      BY <1>11, <1>12, <3>1, ElementOfSeq
    <3>5. x.number \in Nat
      BY <3>4, ChatAssumption DEF Row
    <3>. QED  BY <2>1, <2>2, <3>3, <3>4, <3>5
  <2>. QED  BY <1>12, <2>5, <2>6
<1>14. KeptRun(r)'
  BY <1>3, <1>5, <1>13 DEF KeptRun, Recalled
<1>. QED  BY <1>4, <1>6, <1>14 DEF KeptInv

LEMMA KeptBegins == ChatInit => KeptInv
<1>. SUFFICES ASSUME ChatInit PROVE KeptInv
  OBVIOUS
<1>1. stage = [r \in Chat |-> "none"]
      /\ \A s \in Session : rows[s] = Before \/ rows[s] = <<>>
  BY DEF ChatInit
<1>2. \A r \in Chat : KeptRun(r)
  BY <1>1 DEF KeptRun
<1>3. ASSUME NEW s \in Session
      PROVE  Numbers(s) = 0..(0 - 1) \/ Numbers(s) = 0..(2 - 1)
  <2>1. CASE rows[s] = <<>>
    <3>1. Numbers(s) = {}
      BY <2>1 DEF Numbers
    <3>. QED  BY <3>1
  <2>2. CASE rows[s] = Before
    <3>1. DOMAIN Before = 1..2 /\ Before[1].number = 0 /\ Before[2].number = 1
      BY DEF Before
    <3>2. Numbers(s) = {0, 1}
      BY <2>2, <3>1 DEF Numbers
    <3>. QED  BY <3>2
  <2>. QED  BY <1>1, <2>1, <2>2
<1>4. Gapless
  BY <1>1, <1>3 DEF Gapless
<1>. QED  BY <1>2, <1>4 DEF KeptInv

LEMMA KeptStep == ChatInv /\ KeptInv /\ [ChatNext]_ChatVars => KeptInv'
<1>. SUFFICES ASSUME ChatInv, KeptInv, [ChatNext]_ChatVars PROVE KeptInv'
  OBVIOUS
<1>1. ChatTypeOK
  BY DEF ChatInv
<1>2. ASSUME NEW r \in Chat, ReadNumber(r) \/ SaveMessage(r) \/ LoadHistory(r)
      PROVE  KeptInv'
  BY <1>2, ReadKept, SaveKept, LoadKept
<1>3. ASSUME Quiet
      PROVE  KeptInv'
  BY <1>3, QuietKeeps
<1>. QED  BY <1>1, <1>2, <1>3, QuietSteps DEF ChatNext, ServerStep

LEMMA HistoryNow == ChatInv /\ KeptInv => HistoryExact
BY ExactNow DEF KeptInv, KeptRun, HistoryExact

\* What a model is given: in a session none of whose runs was cut off exactly
\* the newest messages of the earlier runs, and in any session every message
\* of an earlier run that was not cut off, but for the ones that as many as
\* the limit, none of them older, leave no room for.
THEOREM HistoryIsExact == ChatSpec => []HistoryExact
BY ChatBegins, ChatInvStep, KeptBegins, KeptStep, HistoryNow, PTL DEF ChatSpec

=============================================================================
