-------------------------------- MODULE Raft --------------------------------
(***************************************************************************)
(* A cluster of RaftNode objects (src/raft/) over SimpleRaftNetwork, which *)
(* drops messages and delivers each of the others in a thread of its own,  *)
(* in any order.  Nothing is persisted: persist_state is empty.            *)
(*                                                                         *)
(* state_mutex_ is not recursive.  handle_request_vote, the two reply      *)
(* handlers and the retry after a refused append lock it twice, and the    *)
(* node's threads stop (wedged).  C++ leaves a second lock undefined: this *)
(* is what libstdc++ does with it.  In a behaviour with reentrant = TRUE   *)
(* the second lock succeeds, the other outcome, and the one a repair of    *)
(* those calls would give.                                                 *)
(*                                                                         *)
(* The main loop handles messages, elections and client requests one after *)
(* the other; while it waits for a client's entry to commit it handles     *)
(* none.  Heartbeats come from a thread of their own.                      *)
(***************************************************************************)
EXTENDS Integers, Sequences, FiniteSets, FiniteSetsExt, SequencesExt

CONSTANTS Servers,        \* nodes that may form a cluster
          MaxTerm,        \* bound on terms
          MaxLog,         \* bound on log lengths
          MaxWork,        \* bound on messages in flight and entries of the longest log together
          Nobody          \* an empty voted_for_

VARIABLES reentrant,      \* see above; constant in a behaviour
          cluster,        \* config_.cluster_nodes; constant in a behaviour
          term, votedFor, role, votes,
          log,            \* log_: the terms of the entries; entry i has index i
          commit, applied,
          nextIndex,      \* leader -> follower -> next_index_
          matchIndex,     \* leader -> follower -> match_index_
          waiting,        \* index process_client_request waits for, or 0
          replies,        \* history: results given to clients
          wedged,         \* nodes whose main loop waits for a lock it holds
          network,        \* messages in flight
          elected         \* history: <<term, node>> of every leader

config == <<reentrant, cluster>>
election == <<term, votedFor, role, votes, elected>>
entries == <<log, commit, applied>>
leading == <<nextIndex, matchIndex>>
client == <<waiting, replies>>
rvars == <<reentrant, cluster, election, entries, leading, client, wedged, network>>

\* get_majority_count.
Majority == Cardinality(cluster) \div 2 + 1

\* get_log_term: 0 for the index 0 and for an index past the end.
TermAt(i, n) == IF n \in DOMAIN log[i] THEN log[i][n] ELSE 0
LastIndex(i) == Len(log[i])
LastTerm(i) == TermAt(i, LastIndex(i))

\* The loop of node i runs and is free.
Runs(i) == i \notin wedged /\ waiting[i] = 0

Requests(i, kind, body) ==
  {[kind |-> kind, from |-> i, to |-> j, body |-> body] : j \in cluster \ {i}}

\* send_append_entries to j.
AppendTo(i, j, next) ==
  [kind |-> "append", from |-> i, to |-> j,
   body |-> [term |-> term[i], prev |-> next - 1, prevTerm |-> TermAt(i, next - 1),
             new |-> SubSeq(log[i], next, LastIndex(i)), commit |-> commit[i]]]

Reply(m, kind, body) == [kind |-> kind, from |-> m.to, to |-> m.from, body |-> body]

Longest == Max({Len(log[i]) : i \in Servers})

\* should_drop_message: what is sent may be lost.
Send(old, sent) ==
  \E lost \in SUBSET sent :
    /\ network' = old \union (sent \ lost)
    /\ Cardinality(network') + Longest <= MaxWork

\* The thread blocks on its own lock before the handler changes anything.
Wedge(m) ==
  /\ wedged' = wedged \union {m.to}
  /\ network' = network \ {m}
  /\ UNCHANGED <<config, election, entries, leading, client>>

\* become_leader; the detached thread's heartbeats are Heartbeat steps.
BecomeLeader(i, t) ==
  /\ role' = [role EXCEPT ![i] = "LEADER"]
  /\ elected' = elected \union {<<t, i>>}
  /\ nextIndex' = [nextIndex EXCEPT ![i] = [j \in cluster \ {i} |-> LastIndex(i) + 1]]
  /\ matchIndex' = [matchIndex EXCEPT ![i] = [j \in cluster \ {i} |-> 0]]

\* The main loop sees an election timeout: start_election with become_candidate.
StartElection(i) ==
  /\ Runs(i) /\ role[i] # "LEADER" /\ term[i] < MaxTerm
  /\ term' = [term EXCEPT ![i] = @ + 1]
  /\ votedFor' = [votedFor EXCEPT ![i] = i]
  /\ votes' = [votes EXCEPT ![i] = {i}]
  /\ IF Majority = 1
       THEN BecomeLeader(i, term[i] + 1)
       ELSE /\ role' = [role EXCEPT ![i] = "CANDIDATE"]
            /\ UNCHANGED <<elected, leading>>
  /\ Send(network, Requests(i, "vote", [term |-> term[i] + 1, last |-> LastIndex(i),
                                        lastTerm |-> LastTerm(i)]))
  /\ UNCHANGED <<config, entries, client, wedged>>

\* is_log_up_to_date.
UpToDate(i, last, lastTerm) ==
  IF lastTerm # LastTerm(i) THEN lastTerm > LastTerm(i) ELSE last >= LastIndex(i)

\* A vote whoever was voted for before.
CanVoteAgain(i, m, stepsDown) == UpToDate(i, m.body.last, m.body.lastTerm)

CanVote(i, m, stepsDown) ==
  /\ stepsDown \/ votedFor[i] \in {Nobody, m.from}
  /\ UpToDate(i, m.body.last, m.body.lastTerm)

\* The rest of handle_request_vote, once the node has stepped down if the
\* request has a higher term.
Vote(m, higher) ==
  LET i == m.to
      grants == m.body.term >= term[i] /\ CanVote(i, m, higher)
  IN /\ term' = [term EXCEPT ![i] = IF higher THEN m.body.term ELSE @]
     /\ role' = [role EXCEPT ![i] = IF higher THEN "FOLLOWER" ELSE @]
     /\ votes' = [votes EXCEPT ![i] = IF higher THEN {} ELSE @]
     /\ votedFor' = [votedFor EXCEPT ![i] = IF grants THEN m.from
                                            ELSE IF higher THEN Nobody ELSE @]
     /\ Send(network \ {m}, {Reply(m, "voted", [term |-> term'[i], granted |-> grants])})
     /\ UNCHANGED <<config, elected, entries, leading, client, wedged>>

\* The lock released before become_follower.
HandleRequestVoteUnlocked(m) ==
  /\ m.kind = "vote" /\ Runs(m.to)
  /\ Vote(m, m.body.term > term[m.to])

\* handle_request_vote: become_follower locks state_mutex_ again.
HandleRequestVote(m) ==
  /\ m.kind = "vote" /\ Runs(m.to)
  /\ LET higher == m.body.term > term[m.to]
     IN IF higher /\ ~reentrant THEN Wedge(m) ELSE Vote(m, higher)

\* become_follower, called by a reply handler.
StepDown(i, m) ==
  IF ~reentrant THEN Wedge(m)
  ELSE /\ term' = [term EXCEPT ![i] = m.body.term]
       /\ votedFor' = [votedFor EXCEPT ![i] = Nobody]
       /\ role' = [role EXCEPT ![i] = "FOLLOWER"]
       /\ votes' = [votes EXCEPT ![i] = {}]
       /\ network' = network \ {m}
       /\ UNCHANGED <<config, elected, entries, leading, client, wedged>>

Ignore(m) ==
  /\ network' = network \ {m}
  /\ UNCHANGED <<config, election, entries, leading, client, wedged>>

\* An answer that the candidacy it was meant for has outlived.
Stale(i, m) == role[i] # "CANDIDATE" \/ m.body.term < term[i]

\* handle_request_vote_reply.
HandleRequestVoteReply(m) ==
  LET i == m.to
      voters == votes[i] \union {m.from}
  IN /\ m.kind = "voted" /\ Runs(i)
     /\ IF Stale(i, m) THEN Ignore(m)
        ELSE IF m.body.term > term[i] THEN StepDown(i, m)
        ELSE IF ~m.body.granted THEN Ignore(m)
        ELSE /\ votes' = [votes EXCEPT ![i] = voters]
             /\ IF Cardinality(voters) >= Majority
                  THEN BecomeLeader(i, term[i])
                  ELSE UNCHANGED <<role, elected, leading>>
             /\ network' = network \ {m}
             /\ UNCHANGED <<config, term, votedFor, entries, client, wedged>>

\* append_log_entries: everything from the first new index on is replaced.
Appended(old, prev, new) == IF new = <<>> THEN old ELSE SubSeq(old, 1, prev) \o new

\* Only the length of the log is compared.
ConsistentByLength(i, b) == b.prev <= LastIndex(i)

\* The log consistency check of handle_append_entries.
Consistent(i, b) == b.prev = 0 \/ (b.prev <= LastIndex(i) /\ TermAt(i, b.prev) = b.prevTerm)

\* handle_append_entries.  A heartbeat, too, reports the follower's own last
\* index as matched.
HandleAppendEntries(m) ==
  LET i == m.to
      b == m.body
      stale == b.term < term[i]
      fits == Consistent(i, b)
      newLog == IF ~stale /\ fits THEN Appended(log[i], b.prev, b.new) ELSE log[i]
  IN /\ m.kind = "append" /\ Runs(i)
     /\ IF stale THEN UNCHANGED <<term, votedFor, role>>
        ELSE /\ term' = [term EXCEPT ![i] = b.term]
             /\ votedFor' = [votedFor EXCEPT ![i] = IF b.term > term[i] THEN Nobody ELSE @]
             /\ role' = [role EXCEPT ![i] = "FOLLOWER"]
     /\ log' = [log EXCEPT ![i] = newLog]
     /\ commit' = [commit EXCEPT ![i] = IF ~stale /\ fits /\ b.commit > @
                                        THEN Min({b.commit, Len(newLog)}) ELSE @]
     /\ Send(network \ {m}, {Reply(m, "appended",
                [term |-> term'[i], success |-> ~stale /\ fits,
                 match |-> IF stale THEN 0 ELSE Len(newLog)])})
     /\ UNCHANGED <<config, votes, elected, applied, leading, client, wedged>>

\* update_commit_index: the median of the leader's last index and the matches
\* it holds, when that entry is of its own term.
CommitIndex(i, matched) ==
  LET count == Cardinality(DOMAIN matched) + 1
      reached(n) == Cardinality({j \in DOMAIN matched : matched[j] >= n})
                      + (IF LastIndex(i) >= n THEN 1 ELSE 0)
      candidates == {n \in 0..(MaxLog + 1) : n = 0 \/ reached(n) >= (count - 1) \div 2 + 1}
      new == Max(candidates)
  IN IF new > commit[i] /\ TermAt(i, new) = term[i] THEN new ELSE commit[i]

\* handle_append_entries_reply.  A refusal lowers next_index_ and sends again,
\* under the lock that is held.
HandleAppendEntriesReply(m) ==
  LET i == m.to
      j == m.from
      matched == [matchIndex[i] EXCEPT ![j] = m.body.match]
      lower == Max({1, nextIndex[i][j] - 1})
  IN /\ m.kind = "appended" /\ Runs(i)
     /\ IF role[i] # "LEADER" \/ m.body.term < term[i] THEN Ignore(m)
        ELSE IF m.body.term > term[i] THEN StepDown(i, m)
        ELSE IF m.body.success
        THEN /\ matchIndex' = [matchIndex EXCEPT ![i] = matched]
             /\ nextIndex' = [nextIndex EXCEPT ![i][j] = m.body.match + 1]
             /\ commit' = [commit EXCEPT ![i] = CommitIndex(i, matched)]
             /\ network' = network \ {m}
             /\ UNCHANGED <<config, election, log, applied, client, wedged>>
        ELSE /\ nextIndex' = [nextIndex EXCEPT ![i][j] = lower]
             /\ IF ~reentrant
                  THEN wedged' = wedged \union {i} /\ network' = network \ {m}
                  ELSE Send(network \ {m}, {AppendTo(i, j, lower)}) /\ UNCHANGED wedged
             /\ UNCHANGED <<config, election, entries, matchIndex, client>>

\* heartbeat_loop: send_heartbeats takes the lock once for every follower.
Heartbeat(i, j) ==
  /\ i \notin wedged /\ role[i] = "LEADER" /\ j \in DOMAIN nextIndex[i]
  /\ Send(network, {AppendTo(i, j, nextIndex[i][j])})
  /\ UNCHANGED <<config, election, entries, leading, client, wedged>>

\* process_client_request appends and sends; the wait for the commit follows.
ClientRequest(i) ==
  /\ Runs(i) /\ role[i] = "LEADER" /\ LastIndex(i) < MaxLog
  /\ Cardinality(network) + LastIndex(i) < MaxWork
  /\ log' = [log EXCEPT ![i] = Append(@, term[i])]
  /\ waiting' = [waiting EXCEPT ![i] = LastIndex(i) + 1]
  /\ UNCHANGED <<config, election, commit, applied, leading, replies, wedged, network>>

\* The wait ends when the entry is committed, when the node leads no more, or
\* after two seconds.
ClientAnswer(i) ==
  /\ waiting[i] > 0
  /\ replies' = replies \union {IF commit[i] >= waiting[i] THEN "SUCCESS"
                                ELSE IF role[i] # "LEADER" THEN "NOT_LEADER" ELSE "TIMEOUT"}
  /\ waiting' = [waiting EXCEPT ![i] = 0]
  /\ UNCHANGED <<config, election, entries, leading, wedged, network>>

\* apply_committed_entries: stops at a missing entry, which stays passed.
ApplyCommittedEntries(i) ==
  LET missing == {n \in (applied[i] + 1)..commit[i] : n > LastIndex(i)}
  IN /\ Runs(i) /\ applied[i] < commit[i]
     /\ applied' = [applied EXCEPT ![i] = IF missing = {} THEN commit[i] ELSE Min(missing)]
     /\ UNCHANGED <<config, election, log, commit, leading, client, wedged, network>>

RInit ==
  /\ reentrant \in BOOLEAN /\ cluster \in (SUBSET Servers) \ {{}}
  /\ term = [i \in Servers |-> 0] /\ votedFor = [i \in Servers |-> Nobody]
  /\ role = [i \in Servers |-> "FOLLOWER"] /\ votes = [i \in Servers |-> {}]
  /\ log = [i \in Servers |-> <<>>] /\ commit = [i \in Servers |-> 0]
  /\ applied = [i \in Servers |-> 0]
  /\ nextIndex = [i \in Servers |-> <<>>] /\ matchIndex = [i \in Servers |-> <<>>]
  /\ waiting = [i \in Servers |-> 0] /\ replies = {}
  /\ wedged = {} /\ network = {} /\ elected = {}

Receive(m) ==
  \/ HandleRequestVote(m) \/ HandleRequestVoteReply(m)
  \/ HandleAppendEntries(m) \/ HandleAppendEntriesReply(m)

RNext ==
  \/ \E m \in network : Receive(m)
  \/ \E i \in cluster : StartElection(i) \/ ClientRequest(i) \/ ClientAnswer(i)
                          \/ ApplyCommittedEntries(i)
  \/ \E i, j \in cluster : Heartbeat(i, j)

RSpec == RInit /\ [][RNext]_rvars

-----------------------------------------------------------------------------
RTypeOK ==
  /\ term \in [Servers -> 0..MaxTerm]
  /\ votedFor \in [Servers -> Servers \union {Nobody}]
  /\ role \in [Servers -> {"FOLLOWER", "CANDIDATE", "LEADER"}]
  /\ \A i \in Servers : votes[i] \subseteq Servers /\ LastIndex(i) <= MaxLog
  /\ waiting \in [Servers -> 0..MaxLog] /\ wedged \subseteq Servers

\* With the lock as it is no cluster of two or more nodes ever has a leader: a
\* vote needs a receiver that is in the candidate's term and has not voted, and
\* whoever is moved to a term by another node wedges.
NoLeaderAsBuilt == ~reentrant /\ Cardinality(cluster) > 1 => elected = {}

\* At most one leader in a term, whatever is lost or reordered, when the lock is
\* reentrant.  (Nodes keep their votes; they have no restart.)
ElectionSafety == \A a, b \in elected : a[1] = b[1] => a[2] = b[2]

\* Two logs that have an entry of the same term at an index agree up to it.
LogMatching ==
  \A i, j \in Servers : \A n \in DOMAIN log[i] \cap DOMAIN log[j] :
    log[i][n] = log[j][n] => SubSeq(log[i], 1, n) = SubSeq(log[j], 1, n)

\* With the lock as it is no client is ever told SUCCESS, not even by the leader
\* of a cluster of one: nothing but a follower's answer moves commit_index_.
ClientsTimeOut == ~reentrant => "SUCCESS" \notin replies

\* A vote, once given in a term, is never given to another node in that term.
VoteIsKept ==
  [][\A i \in Servers : term'[i] = term[i] /\ votedFor[i] # Nobody => votedFor'[i] = votedFor[i]]_rvars

\* What a leader holds committed is on a majority of the nodes.  It is not,
\* with a reentrant lock: a follower's stale entries count as matched, and a
\* new entry of the leader at their index is committed on the leader alone.
CommittedOnMajority ==
  \A i \in Servers : role[i] = "LEADER" =>
    \A n \in DOMAIN log[i] : n <= commit[i] =>
      Cardinality({j \in Servers : TermAt(j, n) = log[i][n]}) >= Majority

\* With the lock as it is nothing is ever committed: no leader, no SUCCESS.
NothingCommitsAsBuilt == NoLeaderAsBuilt /\ ClientsTimeOut

\* What Raft promises of terms and logs, over a network that loses and reorders.
RaftSafety == RTypeOK /\ ElectionSafety /\ LogMatching
=============================================================================
