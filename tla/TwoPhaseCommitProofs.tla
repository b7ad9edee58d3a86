------------------------ MODULE TwoPhaseCommitProofs ------------------------
(***************************************************************************)
(* Theorems about TwoPhaseCommit, for any set of participants and any set  *)
(* of clients that abort.                                                  *)
(***************************************************************************)
EXTENDS TwoPhaseCommit, TLAPS

USE ParticipantAssumption DEF Thread, Aborter

(***************************************************************************)
(* Types.                                                                  *)
(***************************************************************************)
\* Answering a message keeps the types.
LEMMA AnswerType ==
    ASSUME TypeOK, NEW m \in net, NEW type, Answer(m, type),
           type \in {"PREPARE_OK", "PREPARE_ABORT", "COMMIT_OK", "ABORT_OK"}
    PROVE  net' \subseteq Message /\ m.participant \in Participant
BY DEF TypeOK, Answer, Msg, Message

\* Sending adds well-formed messages.
LEMMA SendType ==
    ASSUME TypeOK, NEW S \in SUBSET Participant, NEW th \in Thread, NEW type,
           type \in {"PREPARE", "COMMIT", "ABORT"}, Send(type, S, th)
    PROVE  net' \subseteq Message
BY DEF TypeOK, Send, Msg, Message

\* Every step keeps the types.
LEMMA TypeStep == TypeOK /\ [Next]_vars => TypeOK'
<1> SUFFICES ASSUME TypeOK, [Next]_vars PROVE TypeOK'
  OBVIOUS
<1> USE DEF Goto, local, coordinator
<1>1. CASE CommitCheck
  BY <1>1 DEF CommitCheck, TypeOK, Place
<1>2. CASE PrepareSend
  <2>1. net' \subseteq Message
    BY <1>2, SendType DEF PrepareSend
  <2>2. QED
    BY <1>2, <2>1 DEF PrepareSend, TypeOK, Place, DistributedTransactionState
<1>3. CASE PrepareSucceeds \/ PrepareRefused \/ PrepareTimeout
  BY <1>3 DEF PrepareSucceeds, PrepareRefused, PrepareTimeout, TypeOK, Place
<1>4. CASE CommitSend
  <2>1. net' \subseteq Message
    BY <1>4, SendType DEF CommitSend
  <2>2. QED
    BY <1>4, <2>1 DEF CommitSend, TypeOK, Place, DistributedTransactionState
<1>5. CASE CommitAcknowledged \/ CommitTimeout
  BY <1>5 DEF CommitAcknowledged, CommitTimeout, CommitFinish, TypeOK, Place,
              DistributedTransactionState
<1>6. CASE TimeoutFound
  BY <1>6 DEF TimeoutFound, TypeOK, Place
<1>7. ASSUME NEW th \in Client, ClientAborts(th) PROVE TypeOK'
  BY <1>7 DEF ClientAborts, TypeOK, Place
<1>8. ASSUME NEW th \in Thread, AbortPhase(th) PROVE TypeOK'
  <2>1. net' \subseteq Message
    BY <1>8, SendType DEF AbortPhase
  <2>2. QED
    BY <1>8, <2>1 DEF AbortPhase, TypeOK, Place, DistributedTransactionState
<1>9. ASSUME NEW th \in Thread, AbortFinish(th) PROVE TypeOK'
  BY <1>9 DEF AbortFinish, TypeOK, Place, DistributedTransactionState
<1>10. ASSUME NEW m \in net, HandleAnswer(m) PROVE TypeOK'
  <2>1. AnswerState(m.type) \in ParticipantState
    BY <1>10 DEF HandleAnswer, AnswerState, ParticipantState
  <2>2. QED
    BY <1>10, <2>1 DEF HandleAnswer, UpdateParticipantState, TypeOK, Message
<1>11. ASSUME NEW m \in net, HandlePrepare(m) PROVE TypeOK'
  <2>1. net' \subseteq Message /\ m.participant \in Participant
    BY <1>11, AnswerType DEF HandlePrepare, PrepareTransaction, RefuseTransaction
  <2>2. QED
    BY <1>11, <2>1 DEF HandlePrepare, PrepareTransaction, RefuseTransaction, TypeOK, LocalState
<1>12. ASSUME NEW m \in net, HandleCommit(m) PROVE TypeOK'
  <2>1. net' \subseteq Message /\ m.participant \in Participant
    BY <1>12, AnswerType DEF HandleCommit
  <2>2. QED
    BY <1>12, <2>1 DEF HandleCommit, CommitTransaction, LocalCommit, TypeOK, LocalState
<1>13. ASSUME NEW m \in net, HandleAbort(m) PROVE TypeOK'
  <2>1. net' \subseteq Message /\ m.participant \in Participant
    BY <1>13, AnswerType DEF HandleAbort
  <2>2. QED
    BY <1>13, <2>1 DEF HandleAbort, AbortTransaction, TypeOK, LocalState
<1>14. CASE UNCHANGED vars
  BY <1>14 DEF vars, TypeOK
<1>15. QED
  BY <1>1, <1>2, <1>3, <1>4, <1>5, <1>6, <1>7, <1>8, <1>9, <1>10, <1>11, <1>12, <1>13, <1>14
     DEF Next, Committing, Ending, Deliver

\* The coordinator's context, the messages and the participants keep their
\* types.
THEOREM TypeCorrect == Spec => []TypeOK
<1>1. Init => TypeOK
  BY DEF Init, TypeOK, DistributedTransactionState, ParticipantState, LocalState, Place
<1>2. QED
  BY <1>1, TypeStep, PTL DEF Spec

(***************************************************************************)
(* Votes.                                                                  *)
(*                                                                         *)
(* UnanimousCommit is not inductive: the coordinator decides on what it    *)
(* believes of the participants, so the belief, and the answers on the     *)
(* way that feed it, must be backed by votes.                              *)
(***************************************************************************)
VoteInv ==
    /\ \A p \in Participant : pstate[p] = "PREPARED" => p \in voted
    /\ \A m \in net : m.type = "PREPARE_OK" => m.participant \in voted
    /\ pc["committer"] \in {"commit", "commit_wait"} => voted = Participant
    /\ state \in {"COMMITTING", "COMMITTED"} => voted = Participant
    /\ \A m \in net : m.type \in {"COMMIT", "COMMIT_OK"} => voted = Participant

(***************************************************************************)
(* Phases: what was sent tells where the committing thread is.             *)
(***************************************************************************)
PhaseInv ==
    /\ pc["committer"] # "abort_finish"
    /\ pc["committer"] \in {"idle", "prepare"} => voted = {} /\ \A m \in net : m.type # "PREPARE"
    /\ \A m \in net : m.type = "PREPARE" => m.participant \notin voted /\ m.by = "committer"
    /\ \A m \in net : m.type = "COMMIT" => "COMMIT" \in decided /\ m.by = "committer"
    /\ \A m \in net : m.type = "ABORT" => "ABORT" \in decided
    /\ "COMMIT" \in decided => pc["committer"] \in {"commit_wait", "done"}
    /\ Undisturbed /\ "ABORT" \in decided => pc["committer"] = "failed"

(***************************************************************************)
(* Until somebody aborts, a participant that voted holds its transaction   *)
(* prepared, and after the decision it does so until the COMMIT arrives.   *)
(***************************************************************************)
Holds(p) == p \in prepared /\ local_state[p] = "PREPARING"

HoldInv ==
    "ABORT" \notin decided =>
        /\ "COMMIT" \notin decided => \A p \in voted : Holds(p)
        /\ \A m \in net : m.type = "COMMIT" => Holds(m.participant)

\* After a message was answered (Answer), net holds the others and the answer.
LEMMA NetAfterAnswer ==
    ASSUME NEW m, NEW type, Answer(m, type), NEW n \in net'
    PROVE  (n \in net /\ n # m) \/ (n.type = type /\ n.participant = m.participant /\ n.by = m.by)
BY DEF Answer, Msg

\* After a send, net holds what it held and the new messages.
LEMMA NetAfterSend ==
    ASSUME NEW S, NEW type, NEW th, Send(type, S, th), NEW n \in net'
    PROVE  n \in net \/ (n.type = type /\ n.participant \in S /\ n.by = th)
BY DEF Send, Msg

\* Every step keeps votes behind the coordinator's belief and decision.
LEMMA VoteStep == TypeOK /\ VoteInv /\ [Next]_vars => VoteInv'
<1> SUFFICES ASSUME TypeOK, VoteInv, [Next]_vars PROVE VoteInv'
  OBVIOUS
<1> USE DEF Goto, local, coordinator
<1>1. CASE CommitCheck
  BY <1>1 DEF CommitCheck, TypeOK, VoteInv
<1>2. CASE PrepareSend
  <2>1. PICK S \in SUBSET Participant : Send("PREPARE", S, "committer")
    BY <1>2 DEF PrepareSend
  <2>2. \A n \in net' : n \in net \/ n.type = "PREPARE"
    BY <2>1, NetAfterSend
  <2>3. QED
    BY <1>2, <2>2 DEF PrepareSend, TypeOK, VoteInv
<1>3. CASE PrepareSucceeds
  <2>1. voted = Participant
    BY <1>3 DEF PrepareSucceeds, AllParticipantsPrepared, TypeOK, VoteInv
  <2>2. QED
    BY <1>3, <2>1 DEF PrepareSucceeds, TypeOK, VoteInv
<1>4. CASE PrepareRefused \/ PrepareTimeout
  BY <1>4 DEF PrepareRefused, PrepareTimeout, TypeOK, VoteInv
<1>5. CASE CommitSend
  <2>1. \A n \in net' : n \in net \/ n.type = "COMMIT"
    BY <1>5, NetAfterSend DEF CommitSend
  <2>2. voted = Participant /\ voted' = voted
    BY <1>5 DEF CommitSend, VoteInv
  <2>3. QED
    BY <1>5, <2>1, <2>2 DEF CommitSend, TypeOK, VoteInv
<1>6. CASE CommitAcknowledged \/ CommitTimeout
  BY <1>6 DEF CommitAcknowledged, CommitTimeout, CommitFinish, TypeOK, VoteInv
<1>7. CASE TimeoutFound
  BY <1>7 DEF TimeoutFound, TypeOK, VoteInv
<1>8. ASSUME NEW th \in Client, ClientAborts(th) PROVE VoteInv'
  BY <1>8 DEF ClientAborts, TypeOK, VoteInv
<1>9. ASSUME NEW th \in Thread, AbortPhase(th) PROVE VoteInv'
  <2>1. \A n \in net' : n \in net \/ n.type = "ABORT"
    BY <1>9, NetAfterSend DEF AbortPhase
  <2>2. QED
    BY <1>9, <2>1 DEF AbortPhase, TypeOK, VoteInv
<1>10. ASSUME NEW th \in Thread, AbortFinish(th) PROVE VoteInv'
  BY <1>10 DEF AbortFinish, TypeOK, VoteInv
<1>11. ASSUME NEW m \in net, HandleAnswer(m) PROVE VoteInv'
  <2>1. m.participant \in Participant
    BY DEF TypeOK, Message
  <2>2. \A p \in Participant : pstate'[p] = "PREPARED" => p \in voted
    BY <1>11, <2>1 DEF HandleAnswer, UpdateParticipantState, AnswerState, TypeOK, VoteInv
  <2>3. QED
    BY <1>11, <2>2 DEF HandleAnswer, VoteInv
<1>12. ASSUME NEW m \in net, HandlePrepare(m), PrepareTransaction(m) PROVE VoteInv'
  <2>1. \A n \in net' : n \in net \/ (n.type = "PREPARE_OK" /\ n.participant = m.participant)
    BY <1>12, NetAfterAnswer DEF PrepareTransaction
  <2>2. voted' = voted \cup {m.participant} /\ m.participant \in Participant
    BY <1>12 DEF PrepareTransaction, TypeOK, Message
  <2>3. QED
    BY <1>12, <2>1, <2>2 DEF HandlePrepare, TypeOK, VoteInv
<1>13. ASSUME NEW m \in net, HandlePrepare(m), RefuseTransaction(m) PROVE VoteInv'
  <2>1. \A n \in net' : n \in net \/ n.type = "PREPARE_ABORT"
    BY <1>13, NetAfterAnswer DEF RefuseTransaction
  <2>2. QED
    BY <1>13, <2>1 DEF HandlePrepare, RefuseTransaction, VoteInv
<1>14. ASSUME NEW m \in net, HandleCommit(m) PROVE VoteInv'
  <2>1. \A n \in net' : n \in net \/ n.type = "COMMIT_OK"
    BY <1>14, NetAfterAnswer DEF HandleCommit
  <2>2. voted = Participant
    BY <1>14 DEF HandleCommit, VoteInv
  <2>3. QED
    BY <1>14, <2>1, <2>2 DEF HandleCommit, VoteInv
<1>15. ASSUME NEW m \in net, HandleAbort(m) PROVE VoteInv'
  <2>1. \A n \in net' : n \in net \/ n.type = "ABORT_OK"
    BY <1>15, NetAfterAnswer DEF HandleAbort
  <2>2. QED
    BY <1>15, <2>1 DEF HandleAbort, VoteInv
<1>16. CASE UNCHANGED vars
  BY <1>16 DEF vars, VoteInv
<1>17. QED
  BY <1>1, <1>2, <1>3, <1>4, <1>5, <1>6, <1>7, <1>8, <1>9, <1>10, <1>11, <1>12, <1>13, <1>14,
     <1>15, <1>16 DEF Next, Committing, Ending, Deliver, HandlePrepare

\* Whatever interferes, the coordinator commits, and tells anybody to commit,
\* only after every participant has voted for it.
THEOREM CommitIsUnanimous == Spec => []UnanimousCommit
<1>1. Init => VoteInv
  BY DEF Init, VoteInv
<1>2. VoteInv => UnanimousCommit
  BY DEF VoteInv, UnanimousCommit, CommitTraffic
<1>3. QED
  BY <1>1, <1>2, VoteStep, TypeCorrect, PTL DEF Spec

\* A thread that aborts never looks idle again.
LEMMA DisturbedForGood == TypeOK /\ [Next]_vars /\ Undisturbed' => Undisturbed
<1> SUFFICES ASSUME TypeOK, [Next]_vars, Undisturbed', NEW th \in Aborter PROVE pc[th] = "idle"
  BY DEF Undisturbed
<1> pc'[th] = "idle" /\ th # "committer"
  BY DEF Undisturbed
<1> USE DEF Goto, TypeOK, coordinator
<1>1. CASE CommitCheck \/ Committing
  BY <1>1 DEF CommitCheck, Committing, PrepareSend, PrepareSucceeds, PrepareRefused, PrepareTimeout,
              CommitSend, CommitAcknowledged, CommitTimeout, CommitFinish
<1>2. CASE TimeoutFound \/ \E u \in Client : ClientAborts(u)
  BY <1>2 DEF TimeoutFound, ClientAborts
<1>3. CASE \E u \in Thread : Ending(u)
  BY <1>3 DEF Ending, AbortPhase, AbortFinish
<1>4. CASE UNCHANGED pc
  BY <1>4
<1>5. QED
  BY <1>1, <1>2, <1>3, <1>4
     DEF Next, Deliver, HandleAnswer, HandlePrepare, HandleCommit, HandleAbort, vars

\* Every step keeps what was sent in line with the committing thread.
LEMMA PhaseStep == TypeOK /\ PhaseInv /\ [Next]_vars => PhaseInv'
<1> SUFFICES ASSUME TypeOK, PhaseInv, [Next]_vars PROVE PhaseInv'
  OBVIOUS
<1>0. Undisturbed' => Undisturbed
  BY DisturbedForGood
<1> USE DEF Goto, local, coordinator
<1>1. CASE CommitCheck
  BY <1>0, <1>1 DEF CommitCheck, TypeOK, PhaseInv
<1>2. CASE PrepareSend
  <2>1. PICK S \in SUBSET Participant : Send("PREPARE", S, "committer")
    BY <1>2 DEF PrepareSend
  <2>2. \A n \in net' : n \in net \/ (n.type = "PREPARE" /\ n.by = "committer")
    BY <2>1, NetAfterSend
  <2>3. voted = {} /\ voted' = voted /\ decided' = decided
    BY <1>2 DEF PrepareSend, PhaseInv
  <2>4. pc'["committer"] \in {"prepare_wait", "abort"} /\ "COMMIT" \notin decided
    BY <1>2 DEF PrepareSend, TypeOK, PhaseInv
  <2>5. Undisturbed' => "ABORT" \notin decided
    BY <1>0, <1>2 DEF PrepareSend, PhaseInv
  <2>6. QED
    BY <2>2, <2>3, <2>4, <2>5 DEF PhaseInv
<1>3. CASE PrepareSucceeds \/ PrepareRefused \/ PrepareTimeout
  BY <1>0, <1>3 DEF PrepareSucceeds, PrepareRefused, PrepareTimeout, TypeOK, PhaseInv
<1>4. CASE CommitSend
  <2>1. \A n \in net' : n \in net \/ (n.type = "COMMIT" /\ n.by = "committer")
    BY <1>4, NetAfterSend DEF CommitSend
  <2>2. pc'["committer"] = "commit_wait" /\ decided' = decided \cup {"COMMIT"} /\ voted' = voted
    BY <1>4 DEF CommitSend, TypeOK
  <2>3. Undisturbed' => "ABORT" \notin decided'
    BY <1>0, <1>4, <2>2 DEF CommitSend, PhaseInv
  <2>4. QED
    BY <2>1, <2>2, <2>3 DEF PhaseInv
<1>5. CASE CommitAcknowledged \/ CommitTimeout
  BY <1>0, <1>5 DEF CommitAcknowledged, CommitTimeout, CommitFinish, TypeOK, PhaseInv
<1>6. CASE TimeoutFound
  BY <1>0, <1>6 DEF TimeoutFound, TypeOK, PhaseInv
<1>7. ASSUME NEW th \in Client, ClientAborts(th) PROVE PhaseInv'
  BY <1>0, <1>7 DEF ClientAborts, TypeOK, PhaseInv
<1>8. ASSUME NEW th \in Thread, AbortPhase(th) PROVE PhaseInv'
  <2>1. \A n \in net' : n \in net \/ n.type = "ABORT"
    BY <1>8, NetAfterSend DEF AbortPhase
  <2>2. decided' = decided \cup {"ABORT"} /\ voted' = voted
    BY <1>8 DEF AbortPhase
  <2>3. CASE th = "committer"
    <3>1. pc["committer"] = "abort" /\ pc'["committer"] = "failed"
      BY <1>8, <2>3 DEF AbortPhase, TypeOK
    <3>2. QED
      BY <2>1, <2>2, <3>1 DEF PhaseInv
  <2>4. CASE th # "committer"
    <3>1. ~Undisturbed
      BY <1>8, <2>4 DEF AbortPhase, Undisturbed
    <3>2. pc'["committer"] = pc["committer"]
      BY <1>8, <2>4 DEF AbortPhase, TypeOK
    <3>3. QED
      BY <1>0, <2>1, <2>2, <3>1, <3>2 DEF PhaseInv
  <2>5. QED
    BY <2>3, <2>4
<1>9. ASSUME NEW th \in Thread, AbortFinish(th) PROVE PhaseInv'
  <2>1. pc'["committer"] = pc["committer"]
    BY <1>9 DEF AbortFinish, TypeOK, PhaseInv
  <2>2. QED
    BY <1>0, <1>9, <2>1 DEF AbortFinish, PhaseInv
<1>10. ASSUME NEW m \in net, HandleAnswer(m) PROVE PhaseInv'
  BY <1>0, <1>10 DEF HandleAnswer, PhaseInv
<1>11. ASSUME NEW m \in net, HandlePrepare(m), PrepareTransaction(m) PROVE PhaseInv'
  <2>1. \A n \in net' : (n \in net /\ n # m) \/ n.type = "PREPARE_OK"
    BY <1>11, NetAfterAnswer DEF PrepareTransaction
  <2>2. voted' = voted \cup {m.participant} /\ m.type = "PREPARE"
    BY <1>11 DEF PrepareTransaction, HandlePrepare
  <2>3. ASSUME NEW n \in net, n # m, n.type = "PREPARE" PROVE n.participant # m.participant
    BY <2>2, <2>3 DEF PhaseInv, TypeOK, Message
  <2>4. QED
    BY <1>0, <1>11, <2>1, <2>2, <2>3 DEF HandlePrepare, PhaseInv
<1>12. ASSUME NEW m \in net, HandlePrepare(m), RefuseTransaction(m) PROVE PhaseInv'
  <2>1. \A n \in net' : n \in net \/ n.type = "PREPARE_ABORT"
    BY <1>12, NetAfterAnswer DEF RefuseTransaction
  <2>2. QED
    BY <1>0, <1>12, <2>1 DEF HandlePrepare, RefuseTransaction, PhaseInv
<1>13. ASSUME NEW m \in net, HandleCommit(m) PROVE PhaseInv'
  <2>1. \A n \in net' : n \in net \/ n.type = "COMMIT_OK"
    BY <1>13, NetAfterAnswer DEF HandleCommit
  <2>2. QED
    BY <1>0, <1>13, <2>1 DEF HandleCommit, PhaseInv
<1>14. ASSUME NEW m \in net, HandleAbort(m) PROVE PhaseInv'
  <2>1. \A n \in net' : n \in net \/ n.type = "ABORT_OK"
    BY <1>14, NetAfterAnswer DEF HandleAbort
  <2>2. QED
    BY <1>0, <1>14, <2>1 DEF HandleAbort, PhaseInv
<1>15. CASE UNCHANGED vars
  BY <1>0, <1>15 DEF vars, PhaseInv
<1>16. QED
  BY <1>1, <1>2, <1>3, <1>4, <1>5, <1>6, <1>7, <1>8, <1>9, <1>10, <1>11, <1>12, <1>13, <1>14,
     <1>15 DEF Next, Committing, Ending, Deliver, HandlePrepare

\* PhaseInv holds throughout.
THEOREM PhaseCorrect == Spec => []PhaseInv
<1>1. Init => PhaseInv
  BY DEF Init, PhaseInv
<1>2. QED
  BY <1>1, PhaseStep, TypeCorrect, PTL DEF Spec

\* A commit call that nobody interferes with sends COMMIT or ABORT and never
\* both, whichever waits time out.
THEOREM OneDecision == Spec => []SingleDecision
<1>1. PhaseInv => SingleDecision
  BY DEF PhaseInv, SingleDecision
<1>2. QED
  BY <1>1, PhaseCorrect, PTL

\* Every step keeps prepared transactions in place until they are decided.
LEMMA HoldStep == TypeOK /\ VoteInv /\ PhaseInv /\ HoldInv /\ [Next]_vars => HoldInv'
<1> SUFFICES ASSUME TypeOK, VoteInv, PhaseInv, HoldInv, [Next]_vars, "ABORT" \notin decided'
             PROVE  /\ "COMMIT" \notin decided' => \A p \in voted' : Holds(p)'
                    /\ \A n \in net' : n.type = "COMMIT" => Holds(n.participant)'
  BY DEF HoldInv
<1> USE DEF Goto, local, coordinator
<1>1. CASE CommitCheck \/ PrepareSucceeds \/ PrepareRefused \/ PrepareTimeout
           \/ CommitAcknowledged \/ CommitTimeout \/ TimeoutFound
  BY <1>1 DEF CommitCheck, PrepareSucceeds, PrepareRefused, PrepareTimeout, CommitAcknowledged,
              CommitTimeout, CommitFinish, TimeoutFound, HoldInv, Holds
<1>2. CASE PrepareSend
  <2>1. PICK S \in SUBSET Participant : Send("PREPARE", S, "committer")
    BY <1>2 DEF PrepareSend
  <2>2. \A n \in net' : n \in net \/ n.type = "PREPARE"
    BY <2>1, NetAfterSend
  <2>3. QED
    BY <1>2, <2>2 DEF PrepareSend, HoldInv, Holds
<1>3. CASE CommitSend
  <2>1. "COMMIT" \notin decided /\ "ABORT" \notin decided
    BY <1>3 DEF CommitSend, PhaseInv
  <2>2. \A p \in Participant : Holds(p)
    BY <1>3, <2>1 DEF CommitSend, VoteInv, HoldInv
  <2>3. net' \subseteq Message
    BY TypeStep DEF TypeOK
  <2>4. QED
    BY <1>3, <2>2, <2>3 DEF CommitSend, Message, Holds
<1>4. ASSUME NEW th \in Client, ClientAborts(th) PROVE HoldInv'
  BY <1>4 DEF ClientAborts, HoldInv, Holds
<1>5. ASSUME NEW th \in Thread, AbortPhase(th) PROVE FALSE
  BY <1>5 DEF AbortPhase
<1>6. ASSUME NEW th \in Thread, AbortFinish(th) PROVE HoldInv'
  BY <1>6 DEF AbortFinish, HoldInv, Holds
<1>7. ASSUME NEW m \in net, HandleAnswer(m) PROVE HoldInv'
  BY <1>7 DEF HandleAnswer, HoldInv, Holds
<1>8. ASSUME NEW m \in net, HandlePrepare(m) PROVE HoldInv'
  <2>1. m.type = "PREPARE" /\ m.participant \in Participant \ voted
    BY <1>8 DEF HandlePrepare, PhaseInv, TypeOK, Message
  <2>2. \A n \in net : n.type # "COMMIT"
    BY <2>1 DEF VoteInv
  <2>3. \A n \in net' : n.type # "COMMIT"
    BY <1>8, <2>2, NetAfterAnswer DEF HandlePrepare, PrepareTransaction, RefuseTransaction
  <2>4. \A p \in voted : Holds(p) => Holds(p)'
    BY <1>8, <2>1 DEF HandlePrepare, PrepareTransaction, RefuseTransaction, Holds, TypeOK
  <2>5. \A p \in voted' \ voted : Holds(p)'
    BY <1>8, <2>1 DEF HandlePrepare, PrepareTransaction, RefuseTransaction, Holds, TypeOK
  <2>6. decided' = decided
    BY <1>8 DEF HandlePrepare
  <2>7. QED
    BY <2>3, <2>4, <2>5, <2>6 DEF HoldInv
<1>9. ASSUME NEW m \in net, HandleCommit(m) PROVE HoldInv'
  <2>1. "COMMIT" \in decided /\ decided' = decided /\ m.type = "COMMIT" /\ m.by = "committer"
    BY <1>9 DEF HandleCommit, PhaseInv
  <2>2. \A n \in net' : n.type = "COMMIT" => n \in net /\ n # m
    BY <1>9, NetAfterAnswer DEF HandleCommit
  <2>3. ASSUME NEW n \in net, n # m, n.type = "COMMIT" PROVE n.participant # m.participant
    BY <2>1, <2>3 DEF PhaseInv, TypeOK, Message
  <2>4. ASSUME NEW n \in net, n # m, n.type = "COMMIT" PROVE Holds(n.participant)'
    <3>1. Holds(n.participant) /\ n.participant # m.participant
      BY <2>1, <2>3, <2>4 DEF HoldInv
    <3>2. QED
      BY <1>9, <3>1 DEF HandleCommit, CommitTransaction, Holds, TypeOK
  <2>5. QED
    BY <2>1, <2>2, <2>4 DEF HoldInv
<1>10. ASSUME NEW m \in net, HandleAbort(m) PROVE FALSE
  BY <1>10 DEF HandleAbort, PhaseInv
<1>11. CASE UNCHANGED vars
  BY <1>11 DEF vars, HoldInv, Holds
<1>12. QED
  BY <1>1, <1>2, <1>3, <1>4, <1>5, <1>6, <1>7, <1>8, <1>9, <1>10, <1>11
     DEF Next, Committing, Ending, Deliver, HoldInv

\* A COMMIT that nobody interferes with finds the transaction it is about:
\* the participant that voted still holds it prepared when it arrives.
THEOREM CommitMeetsPrepared == Spec => []CommitFindsPrepared
<1>1. Init => VoteInv /\ HoldInv
  BY DEF Init, VoteInv, HoldInv
<1>2. PhaseInv /\ HoldInv => CommitFindsPrepared
  BY DEF PhaseInv, HoldInv, Holds, CommitFindsPrepared
<1>3. QED
  BY <1>1, <1>2, VoteStep, HoldStep, PhaseCorrect, TypeCorrect, PTL DEF Spec
=============================================================================
