--------------------------- MODULE TwoPhaseCommit ---------------------------
(***************************************************************************)
(* DistributedTransactionCoordinator, its participants and the network     *)
(* between them, for one distributed transaction that was begun.           *)
(*                                                                         *)
(* Threads of the coordinator: the caller of                               *)
(* commit_distributed_transaction, callers of                              *)
(* abort_distributed_transaction, the timeout checker and the main loop    *)
(* that handles answers.  They share the transaction's context, whose      *)
(* fields are read and written one mutex at a time; commit and abort are   *)
(* cut between a test and the assignment that relies on it, and before     *)
(* each assignment of the state.  Two more seams change nothing and are    *)
(* closed: between an assignment of the state and the sends or the change  *)
(* of table after it, which no other thread tests together with the state. *)
(* Time is not modelled: a wait may time out at any moment.                *)
(*                                                                         *)
(* Each message is carried by a thread of its own, so messages overtake    *)
(* each other, and none is duplicated.  send_message may drop a message;   *)
(* only the prepare phase looks at its result.  Elsewhere a dropped        *)
(* message is one that stays in net and is never delivered.  A loop of     *)
(* sends is one step: sending reads nothing that changes, so a send that   *)
(* comes later is a delivery that comes later.                             *)
(***************************************************************************)

CONSTANTS
    Participant, \* participants of the transaction
    Client       \* threads that may call abort_distributed_transaction, once

Aborter == Client \cup {"checker"}     \* the checker is timeout_checker_thread_
Thread  == Aborter \cup {"committer"}

\* begin_distributed_transaction refuses an empty list of operations, and
\* every operation names a participant.
ASSUME ParticipantAssumption ==
    /\ Participant # {}
    /\ Client \cap {"checker", "committer"} = {}

VARIABLES
    state,       \* state_ of the coordinator's context
    listed,      \* the coordinator's table that holds the context
    pstate,      \* the context's view of each participant
    pc,          \* where each thread of the coordinator is
    net,         \* messages on the way
    prepared,    \* participants with an entry in their active_transactions_
    local_state, \* each participant's local transaction, NONE unless it is alive
    voted,       \* history: participants that prepared successfully
    decided      \* history: the decisions that were sent

coordinator == <<state, listed, pstate, pc>>
local       == <<prepared, local_state, voted>>
vars        == <<coordinator, net, local, decided>>

DistributedTransactionState ==
    {"ACTIVE", "PREPARING", "COMMITTING", "COMMITTED", "ABORTING", "ABORTED"}
ParticipantState == {"ACTIVE", "PREPARED", "COMMITTED", "ABORTED"}

\* NONE: not begun, or aborted, which nothing tells apart afterwards.
LocalState == {"NONE", "PREPARING", "COMMITTED"}
Place == {"idle", "prepare", "prepare_wait", "commit", "commit_wait", "abort", "abort_finish",
          "failed", "done"}

\* by is the thread whose phase the message belongs to: it tells the ABORTs
\* of several calls apart.
Message == [type : {"PREPARE", "PREPARE_OK", "PREPARE_ABORT", "COMMIT", "COMMIT_OK",
                    "ABORT", "ABORT_OK"},
            participant : Participant, by : Thread]

Msg(type, p, th) == [type |-> type, participant |-> p, by |-> th]
Goto(th, l)      == pc' = [pc EXCEPT ![th] = l]

\* send_message to the participants in S.
Send(type, S, th) == net' = net \cup {Msg(type, p, th) : p \in S}

(***************************************************************************)
(* What the context answers.                                               *)
(***************************************************************************)
\* Variant with a bug: one prepared participant is enough.
AllParticipantsPreparedAny == \E p \in Participant : pstate[p] = "PREPARED"

AllParticipantsPrepared  == \A p \in Participant : pstate[p] = "PREPARED"
AnyParticipantAborted    == \E p \in Participant : pstate[p] = "ABORTED"
AllParticipantsCommitted == \A p \in Participant : pstate[p] = "COMMITTED"

(***************************************************************************)
(* commit_distributed_transaction.                                         *)
(***************************************************************************)
\* The state is tested here and set in the next step.
CommitCheck ==
    /\ pc["committer"] = "idle"
    /\ Goto("committer", IF state = "ACTIVE" THEN "prepare" ELSE "failed")
    /\ UNCHANGED <<state, listed, pstate, net, local, decided>>

\* execute_prepare_phase sends.  A send that fails ends the phase, and the
\* transaction: the participants before it in the list, any of them, have
\* their message.
PrepareSend ==
    /\ pc["committer"] = "prepare"
    /\ state' = "PREPARING"
    /\ \E S \in SUBSET Participant :
           /\ Send("PREPARE", S, "committer")
           /\ Goto("committer", IF S = Participant THEN "prepare_wait" ELSE "abort")
    /\ UNCHANGED <<listed, pstate, local, decided>>

PrepareSucceeds ==
    /\ pc["committer"] = "prepare_wait"
    /\ AllParticipantsPrepared
    /\ Goto("committer", "commit")
    /\ UNCHANGED <<state, listed, pstate, net, local, decided>>

PrepareRefused ==
    /\ pc["committer"] = "prepare_wait"
    /\ AnyParticipantAborted
    /\ Goto("committer", "abort")
    /\ UNCHANGED <<state, listed, pstate, net, local, decided>>

PrepareTimeout ==
    /\ pc["committer"] = "prepare_wait"
    /\ Goto("committer", "abort")
    /\ UNCHANGED <<state, listed, pstate, net, local, decided>>

\* The state is overwritten whatever another thread made of it.  A COMMIT
\* that is lost is noticed and not sent again.
CommitSend ==
    /\ pc["committer"] = "commit"
    /\ state' = "COMMITTING"
    /\ Send("COMMIT", Participant, "committer")
    /\ decided' = decided \cup {"COMMIT"}
    /\ Goto("committer", "commit_wait")
    /\ UNCHANGED <<listed, pstate, local>>

\* The context becomes COMMITTED and moves to completed_transactions_.
CommitFinish ==
    /\ state' = "COMMITTED"
    /\ listed' = "completed"
    /\ Goto("committer", "done")
    /\ UNCHANGED <<pstate, net, local, decided>>

CommitAcknowledged ==
    /\ pc["committer"] = "commit_wait"
    /\ AllParticipantsCommitted
    /\ CommitFinish

\* Variant with a bug: the wait for acknowledgements has no end.
CommitTimeoutWaits ==
    /\ pc["committer"] = "commit_wait"
    /\ AllParticipantsCommitted
    /\ CommitFinish

\* Variant with a bug: a commit that is not acknowledged in time is aborted.
CommitTimeoutAborts ==
    /\ pc["committer"] = "commit_wait"
    /\ Goto("committer", "abort")
    /\ UNCHANGED <<state, listed, pstate, net, local, decided>>

\* The timeout counts as success.
CommitTimeout ==
    /\ pc["committer"] = "commit_wait"
    /\ CommitFinish

(***************************************************************************)
(* abort_distributed_transaction, and the abort phase of a failed commit.  *)
(***************************************************************************)
\* The checker looks at the table and not at the state.
TimeoutFound ==
    /\ pc["checker"] = "idle" /\ listed = "active"
    /\ Goto("checker", "abort")
    /\ UNCHANGED <<state, listed, pstate, net, local, decided>>

\* A client may abort at any time; a completed transaction is found too.
ClientAborts(th) ==
    /\ pc[th] = "idle"
    /\ Goto(th, "abort")
    /\ UNCHANGED <<state, listed, pstate, net, local, decided>>

\* After a failed commit the transaction stays in active_transactions_.
AbortPhase(th) ==
    /\ pc[th] = "abort"
    /\ state' = "ABORTING"
    /\ Send("ABORT", Participant, th)
    /\ decided' = decided \cup {"ABORT"}
    /\ Goto(th, IF th = "committer" THEN "failed" ELSE "abort_finish")
    /\ UNCHANGED <<listed, pstate, local>>

\* The context becomes ABORTED and moves to completed_transactions_.
AbortFinish(th) ==
    /\ pc[th] = "abort_finish"
    /\ state' = "ABORTED"
    /\ listed' = "completed"
    /\ Goto(th, "done")
    /\ UNCHANGED <<pstate, net, local, decided>>

(***************************************************************************)
(* The coordinator's main loop.                                            *)
(***************************************************************************)
\* Variant with a bug: the type of the message is kept as the state.
AnswerStateRaw(type) == type

AnswerState(type) ==
    CASE type = "PREPARE_OK"                    -> "PREPARED"
      [] type = "COMMIT_OK"                     -> "COMMITTED"
      [] type \in {"PREPARE_ABORT", "ABORT_OK"} -> "ABORTED"

\* The answer that arrives last wins, whatever it answers.
UpdateParticipantState(p, s) == pstate' = [pstate EXCEPT ![p] = s]

HandleAnswer(m) ==
    /\ m.type \in {"PREPARE_OK", "PREPARE_ABORT", "COMMIT_OK", "ABORT_OK"}
    /\ net' = net \ {m}
    /\ UpdateParticipantState(m.participant, AnswerState(m.type))
    /\ UNCHANGED <<state, listed, pc, local, decided>>

(***************************************************************************)
(* A participant's main loop.                                              *)
(***************************************************************************)
\* m is consumed and answered to the coordinator.
Answer(m, type) == net' = (net \ {m}) \cup {Msg(type, m.participant, m.by)}

\* Variant with a bug: the local transaction is not kept for the commit.
PrepareTransactionUnsaved(m) ==
    /\ local_state' = [local_state EXCEPT ![m.participant] = "PREPARING"]
    /\ voted' = voted \cup {m.participant}
    /\ Answer(m, "PREPARE_OK")
    /\ UNCHANGED prepared

PrepareTransaction(m) ==
    /\ local_state' = [local_state EXCEPT ![m.participant] = "PREPARING"]
    /\ prepared' = prepared \cup {m.participant}
    /\ voted' = voted \cup {m.participant}
    /\ Answer(m, "PREPARE_OK")

\* Refused before a local transaction began, or after: then it is aborted.
RefuseTransaction(m) ==
    /\ local_state' = [local_state EXCEPT ![m.participant] = "NONE"]
    /\ Answer(m, "PREPARE_ABORT")
    /\ UNCHANGED <<prepared, voted>>

HandlePrepare(m) ==
    /\ m.type = "PREPARE"
    /\ PrepareTransaction(m) \/ RefuseTransaction(m)
    /\ UNCHANGED <<coordinator, decided>>

\* TransactionManager::commit_transaction refuses a transaction that is not
\* ACTIVE, and prepare left it PREPARING.
LocalCommit(s) == IF s = "ACTIVE" THEN "COMMITTED" ELSE s

CommitTransaction(m) ==
    /\ local_state' = IF m.participant \in prepared
                      THEN [local_state EXCEPT ![m.participant] = LocalCommit(@)]
                      ELSE local_state
    /\ prepared' = prepared \ {m.participant}

\* COMMIT_OK is sent whatever the local commit returned.
HandleCommit(m) ==
    /\ m.type = "COMMIT"
    /\ CommitTransaction(m)
    /\ Answer(m, "COMMIT_OK")
    /\ UNCHANGED <<coordinator, voted, decided>>

\* An ABORT that overtakes its PREPARE finds nothing to abort.
AbortTransaction(m) ==
    /\ local_state' = IF m.participant \in prepared
                      THEN [local_state EXCEPT ![m.participant] = "NONE"]
                      ELSE local_state
    /\ prepared' = prepared \ {m.participant}

HandleAbort(m) ==
    /\ m.type = "ABORT"
    /\ AbortTransaction(m)
    /\ Answer(m, "ABORT_OK")
    /\ UNCHANGED <<coordinator, voted, decided>>

(***************************************************************************)
(* Specification.                                                          *)
(***************************************************************************)
Init ==
    /\ state = "ACTIVE" /\ listed = "active"
    /\ pstate = [p \in Participant |-> "ACTIVE"]
    /\ pc = [th \in Thread |-> "idle"]
    /\ net = {}
    /\ prepared = {}
    /\ local_state = [p \in Participant |-> "NONE"]
    /\ voted = {} /\ decided = {}

\* What commit_distributed_transaction does once it is called.
Committing ==
    \/ PrepareSend \/ PrepareSucceeds \/ PrepareRefused \/ PrepareTimeout
    \/ CommitSend \/ CommitAcknowledged \/ CommitTimeout

Ending(th) == AbortPhase(th) \/ AbortFinish(th)

Deliver(m) == HandleAnswer(m) \/ HandlePrepare(m) \/ HandleCommit(m) \/ HandleAbort(m)

Next ==
    \/ CommitCheck \/ Committing \/ TimeoutFound
    \/ \E th \in Client : ClientAborts(th)
    \/ \E th \in Thread : Ending(th)
    \/ \E m \in net : Deliver(m)

Spec == Init /\ [][Next]_vars

\* A call that was made goes on, and the timeout checker looks at the table
\* every second.  Nobody has to call, and no message has to arrive.
Fairness ==
    /\ WF_vars(Committing \/ Ending("committer"))
    /\ WF_vars(TimeoutFound \/ Ending("checker"))

FairSpec == Spec /\ Fairness

(***************************************************************************)
(* Properties.                                                             *)
(***************************************************************************)
\* State, messages and the participants' tables keep their types.
TypeOK ==
    /\ state \in DistributedTransactionState
    /\ listed \in {"active", "completed"}
    /\ pstate \in [Participant -> ParticipantState]
    /\ pc \in [Thread -> Place]
    /\ net \subseteq Message
    /\ prepared \subseteq Participant
    /\ local_state \in [Participant -> LocalState]
    /\ voted \subseteq Participant
    /\ decided \subseteq {"COMMIT", "ABORT"}

CommitTraffic == {m \in net : m.type \in {"COMMIT", "COMMIT_OK"}}

\* The coordinator decides to commit, and says so to anybody, only when every
\* participant has executed its operations and voted for it, however answers
\* overtake each other and abort calls interfere (execute_prepare_phase).
UnanimousCommit ==
    state \in {"COMMITTING", "COMMITTED"} \/ CommitTraffic # {} => voted = Participant

\* Nobody but the committing thread has acted on the transaction.
Undisturbed == \A th \in Aborter : pc[th] = "idle"

\* Left alone, commit_distributed_transaction sends one decision: COMMIT to
\* some participants and ABORT to others never happens (the timeouts of the
\* two phases).
SingleDecision == Undisturbed => ~({"COMMIT", "ABORT"} \subseteq decided)

\* Left alone, a COMMIT finds the transaction it is about: the participant
\* still holds it, prepared, when the message arrives (commit_transaction
\* looks it up in active_transactions_).
CommitFindsPrepared ==
    Undisturbed => \A m \in net : m.type = "COMMIT" =>
                       m.participant \in prepared /\ local_state[m.participant] = "PREPARING"

\* A call of commit_distributed_transaction returns, whatever messages are
\* lost or late and whatever other threads do to the transaction.
CommitReturns ==
    pc["committer"] \notin {"idle", "failed", "done"} ~> pc["committer"] \in {"failed", "done"}

\* Every distributed transaction leaves active_transactions_ in the end: one
\* that nobody commits, and one whose commit failed, by way of the timeout
\* checker (check_transaction_timeouts).
EveryTransactionEnds == <>(listed = "completed")

\* Nobody waits for ever: neither the caller of a commit nor the table of active
\* transactions.
CommitsEnd == CommitReturns /\ EveryTransactionEnds

\* When every participant has acknowledged the commit and nobody interfered,
\* every participant has committed its local transaction.
CommittedEverywhere ==
    Undisturbed /\ AllParticipantsCommitted =>
        \A p \in Participant : local_state[p] = "COMMITTED"
=============================================================================
