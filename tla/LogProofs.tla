------------------------------ MODULE LogProofs ------------------------------
(***************************************************************************)
(* What the logs and what is rebuilt from them keep, for every bound: the  *)
(* safety of Raft's elections and of its logs over a network that loses    *)
(* and reorders, and that nothing is ever committed with the lock as it is *)
(* built; that checkpoints can be relied on; that replay and recovery from *)
(* the segmented log are exact.                                            *)
(***************************************************************************)
EXTENDS MCLogs, DataProofs

\* Finitely many servers, none of them the empty voted_for_.
RaftConstants ==
  /\ IsFiniteSet(Servers) /\ Nobody \notin Servers
  /\ MaxTerm \in Nat /\ MaxLog \in Nat

(***************************************************************************)
(* Types.                                                                  *)
(***************************************************************************)
\* What a message of each kind carries.
MessageOK(m) ==
  /\ m.from \in cluster /\ m.to \in cluster /\ m.from # m.to
  /\ m.kind \in {"vote", "voted", "append", "appended"}
  /\ m.body.term \in 0..MaxTerm
  /\ m.kind = "append" =>
       /\ m.body.prev \in Nat /\ m.body.new \in Seq(Nat)
       /\ m.body.new # <<>> => m.body.prev + Len(m.body.new) <= MaxLog
  /\ m.kind = "appended" => m.body.match \in Nat

NodesOK ==
  /\ cluster \subseteq Servers
  /\ term \in [Servers -> 0..MaxTerm]
  /\ votedFor \in [Servers -> Servers \union {Nobody}]
  /\ role \in [Servers -> {"FOLLOWER", "CANDIDATE", "LEADER"}]
  /\ votes \in [Servers -> SUBSET cluster]
  /\ log \in [Servers -> Seq(Nat)]
  /\ \A i \in Servers : Len(log[i]) <= MaxLog
  /\ waiting \in [Servers -> 0..MaxLog] /\ wedged \subseteq Servers
  /\ DOMAIN nextIndex = Servers
  /\ \A i \in Servers : role[i] = "LEADER" => nextIndex[i] \in [cluster \ {i} -> Nat \ {0}]

MessagesOK == \A m \in network : MessageOK(m)

RaftTypes == NodesOK /\ MessagesOK

\* Nothing enters the network that is not sent.
LEMMA SendAdds ==
  ASSUME NEW old, NEW sent, Send(old, sent)
  PROVE  network' \subseteq old \union sent
  BY DEF Send

\* A step that sends only well-formed messages keeps the network well-formed.
LEMMA MessagesStep ==
  ASSUME MessagesOK, cluster' = cluster,
         \A m \in network' : m \in network \/ MessageOK(m)
  PROVE  MessagesOK'
  BY DEF MessagesOK, MessageOK

\* The larger of two numbers.
LEMMA MaxOfTwo ==
  ASSUME NEW a \in Int, NEW b \in Int
  PROVE  Max({a, b}) = IF a >= b THEN a ELSE b
<1> DEFINE m == IF a >= b THEN a ELSE b
<1>1. m \in {a, b} /\ \A y \in {a, b} : m >= y
  OBVIOUS
<1>2. \A x \in {a, b} : (\A y \in {a, b} : x >= y) => x = m
  OBVIOUS
<1> HIDE DEF m
<1>3. Max({a, b}) = m
  BY <1>1, <1>2 DEF Max
<1> QED
  BY <1>3 DEF m

\* What send_append_entries sends.
LEMMA AppendToOK ==
  ASSUME RaftConstants, NodesOK, NEW i \in cluster, NEW j \in cluster \ {i}, NEW n \in Nat \ {0}
  PROVE  /\ MessageOK(AppendTo(i, j, n))
         /\ AppendTo(i, j, n).body.new # <<>> =>
              /\ n <= Len(log[i])
              /\ AppendTo(i, j, n).body.new = SubSeq(log[i], n, Len(log[i]))
              /\ Len(AppendTo(i, j, n).body.new) = Len(log[i]) - n + 1
              /\ \A k \in 1..(Len(log[i]) - n + 1) : AppendTo(i, j, n).body.new[k] = log[i][n + k - 1]
<1> DEFINE new == SubSeq(log[i], n, Len(log[i]))
<1>1. i \in Servers /\ log[i] \in Seq(Nat) /\ Len(log[i]) \in Nat /\ Len(log[i]) <= MaxLog
  BY DEF NodesOK
<1>2. /\ new \in Seq(Nat)
      /\ new # <<>> => /\ n <= Len(log[i]) /\ Len(new) = Len(log[i]) - n + 1
                       /\ \A k \in 1..(Len(log[i]) - n + 1) : new[k] = log[i][n + k - 1]
  BY <1>1, SMTT(60)
<1>3. term[i] \in 0..MaxTerm /\ n - 1 \in Nat
  BY <1>1 DEF NodesOK
<1>4. /\ AppendTo(i, j, n).body.new = new /\ AppendTo(i, j, n).body.prev = n - 1
      /\ AppendTo(i, j, n).body.term = term[i]
      /\ AppendTo(i, j, n).kind = "append" /\ AppendTo(i, j, n).from = i /\ AppendTo(i, j, n).to = j
  BY DEF AppendTo, LastIndex
<1> HIDE DEF new
<1>5. new # <<>> => n - 1 + Len(new) <= MaxLog
  BY <1>1, <1>2 DEF RaftConstants
<1>6. MessageOK(AppendTo(i, j, n))
  BY <1>2, <1>3, <1>4, <1>5 DEF MessageOK
<1> QED
  BY <1>2, <1>4, <1>6 DEF new

\* The configuration never changes.
LEMMA ConfigStays ==
  ASSUME [RNext]_rvars
  PROVE  cluster' = cluster /\ reentrant' = reentrant
<1>1. ASSUME NEW m, Receive(m)
      PROVE  cluster' = cluster /\ reentrant' = reentrant
  BY <1>1 DEF Receive, HandleRequestVote, HandleRequestVoteReply, HandleAppendEntries,
              HandleAppendEntriesReply, Wedge, Vote, Ignore, StepDown, config
<1>2. ASSUME NEW i, StartElection(i) \/ ClientRequest(i) \/ ClientAnswer(i) \/ ApplyCommittedEntries(i)
      PROVE  cluster' = cluster /\ reentrant' = reentrant
  BY <1>2 DEF StartElection, ClientRequest, ClientAnswer, ApplyCommittedEntries, config
<1>3. ASSUME NEW i, NEW j, Heartbeat(i, j)
      PROVE  cluster' = cluster /\ reentrant' = reentrant
  BY <1>3 DEF Heartbeat, config
<1> QED
  BY <1>1, <1>2, <1>3 DEF RNext, rvars

\* What append_log_entries leaves of a log.
LEMMA AppendedOK ==
  ASSUME NEW old \in Seq(Nat), NEW prev \in Nat, prev <= Len(old), NEW new \in Seq(Nat), new # <<>>
  PROVE  /\ Appended(old, prev, new) \in Seq(Nat)
         /\ Len(Appended(old, prev, new)) = prev + Len(new)
         /\ \A n \in 1..prev : Appended(old, prev, new)[n] = old[n]
         /\ \A k \in 1..Len(new) : Appended(old, prev, new)[prev + k] = new[k]
<1> DEFINE s == SubSeq(old, 1, prev)
<1>1. s \in Seq(Nat) /\ Len(s) = prev /\ \A n \in 1..prev : s[n] = old[n]
  OBVIOUS
<1>2. Appended(old, prev, new) = s \o new
  BY DEF Appended
<1> HIDE DEF s
<1>3. s \o new \in Seq(Nat) /\ Len(s \o new) = Len(s) + Len(new)
  BY <1>1, ConcatProperties, Zenon
<1>4. \A n \in 1..prev : (s \o new)[n] = old[n]
  BY <1>1
<1>5. \A k \in 1..Len(new) : (s \o new)[prev + k] = new[k]
  BY <1>1
<1> QED
  BY <1>1, <1>2, <1>3, <1>4, <1>5

\* The log handle_append_entries leaves: the old one or, after the check of
\* the previous entry, its prefix with the entries sent.
NewLog(m) ==
  IF ~(m.body.term < term[m.to]) /\ Consistent(m.to, m.body)
  THEN Appended(log[m.to], m.body.prev, m.body.new) ELSE log[m.to]

\* append_log_entries leaves a log of entries that have terms.
LEMMA NewLogOK ==
  ASSUME RaftTypes, NEW m \in network, HandleAppendEntries(m)
  PROVE  /\ log' = [log EXCEPT ![m.to] = NewLog(m)]
         /\ \/ NewLog(m) = log[m.to]
            \/ /\ m.body.new # <<>> /\ m.body.prev <= Len(log[m.to])
               /\ m.body.term >= term[m.to]
               /\ m.body.prev > 0 => log[m.to][m.body.prev] = m.body.prevTerm
               /\ NewLog(m) = Appended(log[m.to], m.body.prev, m.body.new)
<1>1. m.to \in Servers /\ log[m.to] \in Seq(Nat) /\ term[m.to] \in Nat /\ m.body.term \in Nat
      /\ m.body.prev \in Nat
  BY DEF RaftTypes, NodesOK, MessagesOK, MessageOK, HandleAppendEntries
<1>2. log' = [log EXCEPT ![m.to] = NewLog(m)]
  BY <1>1 DEF HandleAppendEntries, NewLog
<1>3. NewLog(m) # log[m.to] => /\ m.body.new # <<>> /\ m.body.term >= term[m.to] /\ Consistent(m.to, m.body)
                               /\ NewLog(m) = Appended(log[m.to], m.body.prev, m.body.new)
  BY <1>1 DEF NewLog, Appended
<1>4. Consistent(m.to, m.body) => /\ m.body.prev <= Len(log[m.to])
                                  /\ m.body.prev > 0 => log[m.to][m.body.prev] = m.body.prevTerm
  BY <1>1 DEF Consistent, TermAt, LastIndex
<1> QED
  BY <1>2, <1>3, <1>4

\* The answers the two handlers send, if they are not lost.
LEMMA VoteSends ==
  ASSUME NEW m \in network, NEW higher, Vote(m, higher)
  PROVE  \E y : /\ network' \subseteq network \union {y}
                /\ y.kind = "voted" /\ y.from = m.to /\ y.to = m.from /\ y.body.term = term'[m.to]
                /\ y.body.granted = (m.body.term >= term[m.to] /\ CanVote(m.to, m, higher))
<1> DEFINE g == m.body.term >= term[m.to] /\ CanVote(m.to, m, higher)
           y == Reply(m, "voted", [term |-> term'[m.to], granted |-> g])
<1>1. Send(network \ {m}, {y})
  BY DEF Vote
<1> HIDE DEF g
<1>2. /\ y.kind = "voted" /\ y.from = m.to /\ y.to = m.from /\ y.body.term = term'[m.to]
      /\ y.body.granted = g
  BY DEF Reply
<1>3. network' \subseteq network \union {y}
  BY <1>1, SendAdds
<1> HIDE DEF y
<1> QED
  BY <1>2, <1>3 DEF g

\* handle_append_entries sends its answer and nothing else.
LEMMA AppendSends ==
  ASSUME NEW m \in network, HandleAppendEntries(m)
  PROVE  \E y : /\ network' \subseteq network \union {y}
                /\ y.kind = "appended" /\ y.from = m.to /\ y.to = m.from /\ y.body.term = term'[m.to]
                /\ y.body.match \in {0, Len(NewLog(m))}
<1> DEFINE s == ~(m.body.term < term[m.to]) /\ Consistent(m.to, m.body)
           n == IF m.body.term < term[m.to] THEN 0 ELSE Len(NewLog(m))
           y == Reply(m, "appended", [term |-> term'[m.to], success |-> s, match |-> n])
<1>1. Send(network \ {m}, {y})
  BY DEF HandleAppendEntries, NewLog
<1>2. n \in {0, Len(NewLog(m))}
  OBVIOUS
<1> HIDE DEF s, n
<1>3. /\ y.kind = "appended" /\ y.from = m.to /\ y.to = m.from /\ y.body.term = term'[m.to]
      /\ y.body.match = n
  BY DEF Reply
<1>4. network' \subseteq network \union {y}
  BY <1>1, SendAdds
<1> HIDE DEF y
<1> QED
  BY <1>2, <1>3, <1>4

\* A refused append lowers next_index_, never below one.
LEMMA LowerOK ==
  ASSUME NEW n \in Nat \ {0}
  PROVE  Max({1, n - 1}) \in Nat \ {0}
  BY MaxOfTwo

\* Every step keeps the types.
LEMMA TypesStep ==
  ASSUME RaftConstants, RaftTypes, [RNext]_rvars
  PROVE  RaftTypes'
<1> USE DEF config, election, entries, leading, client
<1>0. cluster' = cluster
  BY ConfigStays
<1>1. ASSUME NEW m \in network, Wedge(m)
      PROVE  RaftTypes'
  <2>1. m.to \in Servers
    BY DEF RaftTypes, NodesOK, MessagesOK, MessageOK
  <2>2. NodesOK'
    BY <1>1, <2>1 DEF Wedge, RaftTypes, NodesOK
  <2> QED
    BY <1>1, <1>0, <2>2, MessagesStep DEF Wedge, RaftTypes
<1>2. ASSUME NEW m \in network, Ignore(m)
      PROVE  RaftTypes'
  <2>2. NodesOK'
    BY <1>2 DEF Ignore, RaftTypes, NodesOK
  <2> QED
    BY <1>0, <1>2, <2>2, MessagesStep DEF Ignore, RaftTypes
<1>3. ASSUME NEW m \in network, StepDown(m.to, m)
      PROVE  RaftTypes'
  <2>1. CASE ~reentrant
    BY <1>1, <1>3, <2>1 DEF StepDown
  <2>2. CASE reentrant
    <3>1. m.to \in Servers /\ m.body.term \in 0..MaxTerm
      BY DEF RaftTypes, NodesOK, MessagesOK, MessageOK
    <3>2. NodesOK'
      BY <1>3, <2>2, <3>1 DEF StepDown, RaftTypes, NodesOK
    <3> QED
      BY <1>3, <1>0, <2>2, <3>2, MessagesStep DEF StepDown, RaftTypes
  <2> QED
    BY <2>1, <2>2
<1>4. ASSUME NEW m \in network, HandleRequestVote(m)
      PROVE  RaftTypes'
  <2> DEFINE higher == m.body.term > term[m.to]
  <2>1. CASE higher /\ ~reentrant
    BY <1>1, <1>4, <2>1 DEF HandleRequestVote
  <2>2. CASE ~(higher /\ ~reentrant)
    <3>1. m.to \in cluster /\ m.from \in cluster /\ m.to # m.from /\ m.body.term \in 0..MaxTerm
          /\ cluster \subseteq Servers
      BY DEF RaftTypes, NodesOK, MessagesOK, MessageOK
    <3>2. Vote(m, higher)
      BY <1>4, <2>2 DEF HandleRequestVote
    <3> HIDE DEF higher
    <3>3. NodesOK'
      BY <3>1, <3>2 DEF Vote, RaftTypes, NodesOK
    <3>4. PICK y : /\ network' \subseteq network \union {y}
                   /\ y.kind = "voted" /\ y.from = m.to /\ y.to = m.from /\ y.body.term = term'[m.to]
      BY <3>2, VoteSends
    <3>5. term'[m.to] \in 0..MaxTerm
      BY <3>1, <3>3 DEF NodesOK
    <3>6. MessageOK(y)
      BY <3>1, <3>4, <3>5 DEF MessageOK
    <3> QED
      BY <1>0, <3>3, <3>4, <3>6, MessagesStep DEF RaftTypes
  <2> QED
    BY <2>1, <2>2
<1>5. ASSUME NEW m \in network, HandleRequestVoteReply(m)
      PROVE  RaftTypes'
  <2>1. CASE Ignore(m)
    BY <1>2, <2>1
  <2>2. CASE StepDown(m.to, m)
    BY <1>3, <2>2
  <2>3. CASE /\ votes' = [votes EXCEPT ![m.to] = votes[m.to] \union {m.from}]
             /\ BecomeLeader(m.to, term[m.to]) \/ UNCHANGED <<role, elected, leading>>
             /\ network' = network \ {m}
             /\ UNCHANGED <<config, term, votedFor, entries, client, wedged>>
    <3>1. m.to \in Servers /\ m.from \in cluster /\ cluster \subseteq Servers
      BY DEF RaftTypes, NodesOK, MessagesOK, MessageOK
    <3>2. votes' \in [Servers -> SUBSET cluster]
      BY <2>3, <3>1 DEF RaftTypes, NodesOK
    <3>3. /\ role' \in [Servers -> {"FOLLOWER", "CANDIDATE", "LEADER"}] /\ DOMAIN nextIndex' = Servers
          /\ \A i \in Servers : role'[i] = "LEADER" => nextIndex'[i] \in [cluster \ {i} -> Nat \ {0}]
      <4>1. LastIndex(m.to) + 1 \in Nat \ {0}
        BY <3>1 DEF RaftTypes, NodesOK, LastIndex
      <4>2. CASE BecomeLeader(m.to, term[m.to])
        BY <3>1, <4>1, <4>2 DEF RaftTypes, NodesOK, BecomeLeader
      <4>3. CASE UNCHANGED <<role, elected, leading>>
        BY <4>3 DEF RaftTypes, NodesOK
      <4> QED
        BY <2>3, <4>2, <4>3
    <3>4. NodesOK'
      BY <2>3, <3>2, <3>3, <1>0 DEF RaftTypes, NodesOK
    <3> QED
      BY <1>0, <2>3, <3>4, MessagesStep DEF RaftTypes
  <2> QED
    BY <1>5, <2>1, <2>2, <2>3 DEF HandleRequestVoteReply
<1>6. ASSUME NEW m \in network, HandleAppendEntries(m)
      PROVE  RaftTypes'
  <2>1. m.to \in cluster /\ m.from \in cluster /\ m.to # m.from /\ m.body.term \in 0..MaxTerm
        /\ cluster \subseteq Servers /\ m.body.prev \in Nat /\ m.body.new \in Seq(Nat)
        /\ (m.body.new # <<>> => m.body.prev + Len(m.body.new) <= MaxLog)
    BY <1>6 DEF RaftTypes, NodesOK, MessagesOK, MessageOK, HandleAppendEntries
  <2>2. NewLog(m) \in Seq(Nat) /\ Len(NewLog(m)) <= MaxLog
    <3>1. log[m.to] \in Seq(Nat) /\ Len(log[m.to]) <= MaxLog
      BY <2>1 DEF RaftTypes, NodesOK
    <3>2. CASE NewLog(m) = log[m.to]
      BY <3>1, <3>2
    <3>3. CASE NewLog(m) # log[m.to]
      <4>1. /\ m.body.new # <<>> /\ m.body.prev <= Len(log[m.to])
            /\ NewLog(m) = Appended(log[m.to], m.body.prev, m.body.new)
        BY <1>6, <3>3, NewLogOK
      <4>2. Len(Appended(log[m.to], m.body.prev, m.body.new)) = m.body.prev + Len(m.body.new)
        BY <2>1, <3>1, <4>1, AppendedOK
      <4>3. Appended(log[m.to], m.body.prev, m.body.new) \in Seq(Nat)
        BY <2>1, <3>1, <4>1, AppendedOK
      <4> QED
        BY <2>1, <4>1, <4>2, <4>3
    <3> QED
      BY <3>2, <3>3
  <2>3. log' = [log EXCEPT ![m.to] = NewLog(m)]
    BY <1>6, NewLogOK
  <2>4. log' \in [Servers -> Seq(Nat)] /\ \A i \in Servers : Len(log'[i]) <= MaxLog
    BY <2>1, <2>2, <2>3 DEF RaftTypes, NodesOK
  <2>5. /\ term' \in [Servers -> 0..MaxTerm]
        /\ votedFor' \in [Servers -> Servers \union {Nobody}]
        /\ role' \in [Servers -> {"FOLLOWER", "CANDIDATE", "LEADER"}]
        /\ \A i \in Servers : role'[i] = "LEADER" => role[i] = "LEADER"
    <3>1. CASE UNCHANGED <<term, votedFor, role>>
      BY <3>1 DEF RaftTypes, NodesOK
    <3>2. CASE /\ term' = [term EXCEPT ![m.to] = m.body.term]
               /\ votedFor' = [votedFor EXCEPT ![m.to] = IF m.body.term > term[m.to] THEN Nobody ELSE @]
               /\ role' = [role EXCEPT ![m.to] = "FOLLOWER"]
      BY <2>1, <3>2 DEF RaftTypes, NodesOK
    <3> QED
      BY <1>6, <3>1, <3>2 DEF HandleAppendEntries
  <2>6. UNCHANGED <<cluster, votes, nextIndex, waiting, wedged>>
    BY <1>6 DEF HandleAppendEntries
  <2>7. NodesOK'
    BY <2>4, <2>5, <2>6 DEF RaftTypes, NodesOK
  <2>8. PICK y : /\ network' \subseteq network \union {y}
                 /\ y.kind = "appended" /\ y.from = m.to /\ y.to = m.from /\ y.body.term = term'[m.to]
                 /\ y.body.match \in {0, Len(NewLog(m))}
    BY <1>6, AppendSends
  <2>9. term'[m.to] \in 0..MaxTerm
    BY <2>1, <2>5
  <2>10. MessageOK(y)
    BY <2>1, <2>2, <2>8, <2>9 DEF MessageOK
  <2> QED
    BY <1>0, <2>7, <2>8, <2>10, MessagesStep DEF RaftTypes
<1>7. ASSUME NEW m \in network, HandleAppendEntriesReply(m)
      PROVE  RaftTypes'
  <2> DEFINE i == m.to
             j == m.from
             lower == Max({1, nextIndex[i][j] - 1})
  <2>1. i \in cluster /\ j \in cluster /\ i # j /\ cluster \subseteq Servers /\ m.body.match \in Nat
    BY <1>7 DEF RaftTypes, NodesOK, MessagesOK, MessageOK, HandleAppendEntriesReply
  <2>2. CASE Ignore(m)
    BY <1>2, <2>2
  <2>3. CASE StepDown(i, m)
    BY <1>3, <2>3
  <2>4. CASE /\ role[i] = "LEADER"
             /\ nextIndex' = [nextIndex EXCEPT ![i][j] = m.body.match + 1]
             /\ network' = network \ {m}
             /\ UNCHANGED <<config, election, log, applied, client, wedged>>
    <3>0. PICK n \in Nat \ {0} : n = m.body.match + 1
      BY <2>1
    <3>1. /\ DOMAIN nextIndex' = Servers
          /\ \A c \in Servers : role[c] = "LEADER" => nextIndex'[c] \in [cluster \ {c} -> Nat \ {0}]
      BY <2>1, <2>4, <3>0 DEF RaftTypes, NodesOK
    <3>2. NodesOK'
      BY <2>4, <3>1 DEF RaftTypes, NodesOK
    <3> QED
      BY <1>0, <2>4, <3>2, MessagesStep DEF RaftTypes
  <2>5. CASE /\ role[i] = "LEADER"
             /\ nextIndex' = [nextIndex EXCEPT ![i][j] = lower]
             /\ IF ~reentrant
                  THEN wedged' = wedged \union {i} /\ network' = network \ {m}
                  ELSE Send(network \ {m}, {AppendTo(i, j, lower)}) /\ UNCHANGED wedged
             /\ UNCHANGED <<config, election, entries, matchIndex, client>>
    <3>1. lower \in Nat \ {0}
      BY <2>1, <2>5, LowerOK, ZenonT(60) DEF RaftTypes, NodesOK
    <3>2. MessageOK(AppendTo(i, j, lower))
      BY <2>1, <3>1, AppendToOK DEF RaftTypes
    <3> HIDE DEF lower
    <3>3. /\ DOMAIN nextIndex' = Servers
          /\ \A c \in Servers : role[c] = "LEADER" => nextIndex'[c] \in [cluster \ {c} -> Nat \ {0}]
      BY <2>1, <2>5, <3>1 DEF RaftTypes, NodesOK
    <3>4. wedged' \subseteq Servers
      BY <2>1, <2>5 DEF RaftTypes, NodesOK
    <3>5. NodesOK'
      BY <2>5, <3>3, <3>4 DEF RaftTypes, NodesOK
    <3>6. \A x \in network' : x \in network \/ x = AppendTo(i, j, lower)
      BY <2>5, SendAdds
    <3> QED
      BY <1>0, <3>2, <3>5, <3>6, MessagesStep DEF RaftTypes
  <2> QED
    BY <1>7, <2>2, <2>3, <2>4, <2>5 DEF HandleAppendEntriesReply
<1>8. ASSUME NEW i \in cluster, StartElection(i)
      PROVE  RaftTypes'
  <2>1. i \in Servers /\ term[i] + 1 \in 0..MaxTerm
    BY <1>8 DEF StartElection, RaftTypes, NodesOK, RaftConstants
  <2>2. /\ role' \in [Servers -> {"FOLLOWER", "CANDIDATE", "LEADER"}] /\ DOMAIN nextIndex' = Servers
        /\ \A c \in Servers : role'[c] = "LEADER" => nextIndex'[c] \in [cluster \ {c} -> Nat \ {0}]
    <3>1. LastIndex(i) + 1 \in Nat \ {0}
      BY <2>1 DEF RaftTypes, NodesOK, LastIndex
    <3>2. CASE BecomeLeader(i, term[i] + 1)
      BY <2>1, <3>1, <3>2 DEF RaftTypes, NodesOK, BecomeLeader
    <3>3. CASE role' = [role EXCEPT ![i] = "CANDIDATE"] /\ UNCHANGED <<elected, leading>>
      BY <2>1, <3>3 DEF RaftTypes, NodesOK
    <3> QED
      BY <1>8, <3>2, <3>3 DEF StartElection
  <2>3. /\ term' = [term EXCEPT ![i] = @ + 1] /\ votedFor' = [votedFor EXCEPT ![i] = i]
        /\ votes' = [votes EXCEPT ![i] = {i}] /\ UNCHANGED <<config, entries, client, wedged>>
    BY <1>8 DEF StartElection
  <2>4. NodesOK'
    BY <2>1, <2>2, <2>3 DEF RaftTypes, NodesOK
  <2>5. PICK b : /\ b.term = term[i] + 1
                 /\ Send(network, Requests(i, "vote", b))
    BY <1>8 DEF StartElection
  <2>6. \A x \in Requests(i, "vote", b) : MessageOK(x)
    BY <2>1, <2>5 DEF MessageOK, Requests
  <2> QED
    BY <1>0, <2>4, <2>5, <2>6, SendAdds, MessagesStep DEF RaftTypes
<1>9. ASSUME NEW i \in cluster, ClientRequest(i)
      PROVE  RaftTypes'
  <2>1. i \in Servers /\ log[i] \in Seq(Nat) /\ Len(log[i]) + 1 \in 0..MaxLog /\ term[i] \in Nat
    BY <1>9 DEF ClientRequest, RaftTypes, NodesOK, RaftConstants, LastIndex
  <2>2. Append(log[i], term[i]) \in Seq(Nat) /\ Len(Append(log[i], term[i])) <= MaxLog
    BY <2>1
  <2>3. log' \in [Servers -> Seq(Nat)] /\ \A c \in Servers : Len(log'[c]) <= MaxLog
    BY <1>9, <2>1, <2>2 DEF ClientRequest, RaftTypes, NodesOK
  <2>4. waiting' \in [Servers -> 0..MaxLog]
    BY <1>9, <2>1 DEF ClientRequest, RaftTypes, NodesOK, LastIndex
  <2>5. NodesOK'
    BY <1>9, <2>3, <2>4 DEF ClientRequest, RaftTypes, NodesOK
  <2> QED
    BY <1>0, <1>9, <2>5, MessagesStep DEF RaftTypes, ClientRequest
<1>10. ASSUME NEW i \in cluster, ClientAnswer(i) \/ ApplyCommittedEntries(i)
       PROVE  RaftTypes'
  <2>1. waiting' \in [Servers -> 0..MaxLog] /\ wedged' = wedged /\ network' = network
    <3>1. CASE ClientAnswer(i)
      BY <3>1 DEF ClientAnswer, RaftTypes, NodesOK, RaftConstants
    <3>2. CASE ApplyCommittedEntries(i)
      BY <3>2 DEF ApplyCommittedEntries, RaftTypes, NodesOK
    <3> QED
      BY <1>10, <3>1, <3>2
  <2>2. UNCHANGED <<cluster, election, log, leading>>
    BY <1>10 DEF ClientAnswer, ApplyCommittedEntries
  <2>3. NodesOK'
    BY <2>1, <2>2 DEF RaftTypes, NodesOK
  <2> QED
    BY <1>0, <2>1, <2>3, MessagesStep DEF RaftTypes
<1>11. ASSUME NEW i \in cluster, NEW j \in cluster, Heartbeat(i, j)
       PROVE  RaftTypes'
  <2>1. j \in cluster \ {i} /\ nextIndex[i][j] \in Nat \ {0}
    BY <1>11 DEF Heartbeat, RaftTypes, NodesOK
  <2>2. MessageOK(AppendTo(i, j, nextIndex[i][j]))
    BY <2>1, AppendToOK DEF RaftTypes
  <2>3. NodesOK'
    BY <1>11 DEF Heartbeat, RaftTypes, NodesOK
  <2>4. \A x \in network' : x \in network \/ x = AppendTo(i, j, nextIndex[i][j])
    BY <1>11, SendAdds DEF Heartbeat
  <2> QED
    BY <1>0, <2>2, <2>3, <2>4, MessagesStep DEF RaftTypes
<1>12. ASSUME UNCHANGED rvars
       PROVE  RaftTypes'
  BY <1>12 DEF rvars, RaftTypes, NodesOK, MessagesOK, MessageOK
<1> QED
  BY <1>4, <1>5, <1>6, <1>7, <1>8, <1>9, <1>10, <1>11, <1>12 DEF RNext, Receive

\* A new cluster is well-typed.
LEMMA TypesInit ==
  ASSUME RaftConstants, RInit
  PROVE  RaftTypes
<1>1. NodesOK
  BY DEF RaftConstants, RInit, NodesOK
<1> QED
  BY <1>1 DEF RInit, RaftTypes, MessagesOK

\* Nodes and messages keep their types.
LEMMA TypesHold ==
  ASSUME RaftConstants
  PROVE  RSpec => []RaftTypes
  BY TypesInit, TypesStep, PTL DEF RSpec

(***************************************************************************)
(* The votes of a node.                                                    *)
(***************************************************************************)
\* A vote, once given in a term, is never given to another node in that term.
THEOREM VotesAreKept ==
  ASSUME RaftConstants
  PROVE  RSpec => VoteIsKept
<1> DEFINE Kept == \A i \in Servers : term'[i] = term[i] /\ votedFor[i] # Nobody
                                        => votedFor'[i] = votedFor[i]
<1>1. ASSUME RaftTypes, [RNext]_rvars
      PROVE  Kept
  <2> USE <1>1 DEF config, election, entries, leading, client
  <2>1. ASSUME votedFor' = votedFor
        PROVE  Kept
    BY <2>1
  <2>2. ASSUME NEW i \in Servers, term'[i] # term[i],
               \A c \in Servers : c # i => votedFor'[c] = votedFor[c]
        PROVE  Kept
    BY <2>2
  <2>3. ASSUME NEW m \in network, Receive(m)
        PROVE  Kept
    <3>1. m.to \in Servers /\ m.body.term \in Nat /\ term[m.to] \in Nat
      BY DEF RaftTypes, NodesOK, MessagesOK, MessageOK
    <3>2. CASE Wedge(m) \/ Ignore(m)
      BY <2>1, <3>2 DEF Wedge, Ignore
    <3>3. ASSUME StepDown(m.to, m), m.body.term > term[m.to]
          PROVE  Kept
      <4>1. CASE Wedge(m)
        BY <2>1, <4>1 DEF Wedge
      <4>2. CASE ~Wedge(m)
        <5>1. /\ term'[m.to] = m.body.term
              /\ \A c \in Servers : c # m.to => votedFor'[c] = votedFor[c]
          BY <3>1, <3>3, <4>2 DEF StepDown, RaftTypes, NodesOK
        <5> QED
          BY <2>2, <3>1, <3>3, <5>1
      <4> QED
        BY <4>1, <4>2
    <3>4. CASE Vote(m, m.body.term > term[m.to])
      <4>1. CASE m.body.term > term[m.to]
        <5>1. term'[m.to] = m.body.term /\ \A c \in Servers : c # m.to => votedFor'[c] = votedFor[c]
          BY <3>1, <3>4, <4>1 DEF Vote, RaftTypes, NodesOK
        <5> QED
          BY <2>2, <3>1, <4>1, <5>1
      <4>2. CASE ~(m.body.term > term[m.to])
        <5>1. \A i \in Servers : \/ votedFor'[i] = votedFor[i]
                                 \/ /\ i = m.to /\ votedFor'[i] = m.from
                                    /\ CanVote(m.to, m, m.body.term > term[m.to])
          BY <3>1, <3>4, <4>2 DEF Vote, RaftTypes, NodesOK
        <5>2. CanVote(m.to, m, m.body.term > term[m.to]) => votedFor[m.to] \in {Nobody, m.from}
          BY <4>2 DEF CanVote
        <5> QED
          BY <5>1, <5>2
      <4> QED
        BY <4>1, <4>2
    <3>5. CASE HandleRequestVoteReply(m)
      <4>1. \/ Ignore(m) \/ votedFor' = votedFor
            \/ m.body.term > term[m.to] /\ StepDown(m.to, m)
        BY <3>5 DEF HandleRequestVoteReply
      <4> QED
        BY <2>1, <3>2, <3>3, <4>1
    <3>6. CASE HandleAppendEntriesReply(m)
      <4>1. \/ Ignore(m) \/ votedFor' = votedFor
            \/ m.body.term > term[m.to] /\ StepDown(m.to, m)
        BY <3>6 DEF HandleAppendEntriesReply
      <4> QED
        BY <2>1, <3>2, <3>3, <4>1
    <3>7. CASE HandleAppendEntries(m)
      <4>1. CASE m.body.term > term[m.to]
        <5>1. term'[m.to] = m.body.term /\ \A c \in Servers : c # m.to => votedFor'[c] = votedFor[c]
          BY <3>1, <3>7, <4>1 DEF HandleAppendEntries, RaftTypes, NodesOK
        <5> QED
          BY <2>2, <3>1, <4>1, <5>1
      <4>2. CASE ~(m.body.term > term[m.to])
        <5>1. \A i \in Servers : votedFor'[i] = votedFor[i]
          BY <3>1, <3>7, <4>2 DEF HandleAppendEntries, RaftTypes, NodesOK
        <5> QED
          BY <5>1
      <4> QED
        BY <4>1, <4>2
    <3> QED
      BY <2>3, <3>2, <3>4, <3>5, <3>6, <3>7 DEF Receive, HandleRequestVote
  <2>4. ASSUME NEW i \in cluster, StartElection(i)
        PROVE  Kept
    <3>1. i \in Servers /\ term[i] + 1 # term[i]
      BY DEF RaftTypes, NodesOK
    <3>2. term'[i] # term[i] /\ \A c \in Servers : c # i => votedFor'[c] = votedFor[c]
      BY <2>4, <3>1 DEF StartElection, RaftTypes, NodesOK
    <3> QED
      BY <2>2, <3>1, <3>2
  <2>5. ASSUME \/ \E i \in cluster : ClientRequest(i) \/ ClientAnswer(i) \/ ApplyCommittedEntries(i)
               \/ \E i, j \in cluster : Heartbeat(i, j)
               \/ UNCHANGED rvars
        PROVE  Kept
    BY <2>1, <2>5 DEF ClientRequest, ClientAnswer, ApplyCommittedEntries, Heartbeat, rvars
  <2> QED
    BY <2>3, <2>4, <2>5 DEF RNext
<1>2. ASSUME RaftTypes, [RNext]_rvars
      PROVE  [Kept]_rvars
  BY <1>1, <1>2
<1> QED
  BY <1>2, TypesHold, PTL DEF RSpec, VoteIsKept

(***************************************************************************)
(* The nodes as they are built: a second lock stops the node.              *)
(***************************************************************************)
\* Only an election of its own moves a node to a term, so in every term it
\* knows it has voted for itself; nobody grants a vote, and in a cluster of
\* one nobody sends.
StuckInv ==
  ~reentrant =>
    /\ \A m \in network : /\ m.kind \notin {"append", "appended"}
                          /\ m.kind = "voted" => ~m.body.granted
                          /\ m.kind = "vote" => m.body.term > 0
    /\ \A i \in Servers : /\ term[i] > 0 => votedFor[i] = i
                          /\ votes[i] \subseteq {i} /\ commit[i] = 0
    /\ DOMAIN commit = Servers
    /\ Cardinality(cluster) > 1 => elected = {} /\ \A i \in Servers : role[i] # "LEADER"
    /\ "SUCCESS" \notin replies

\* In a cluster of two the majority is two, so one vote elects nobody.
LEMMA TwoNodes ==
  ASSUME RaftConstants, NodesOK, NEW i \in cluster, NEW j \in cluster, i # j
  PROVE  Cardinality(cluster) \in Nat /\ Cardinality(cluster) > 1 /\ Majority >= 2
<1>1. IsFiniteSet(cluster)
  BY FS_Subset DEF RaftConstants, NodesOK
<1>2. Cardinality(cluster) \in Nat
  BY <1>1, FS_CardinalityType
<1>3. {i, j} \subseteq cluster
  OBVIOUS
<1>4. Cardinality({i}) = 1 /\ IsFiniteSet({i})
  BY FS_Singleton
<1>5. {i} \union {j} = {i, j} /\ j \notin {i}
  OBVIOUS
<1>6. Cardinality({i, j}) = 2
  BY <1>4, <1>5, FS_AddElement, SMTT(60)
<1>7. Cardinality(cluster) >= 2
  BY <1>1, <1>2, <1>3, <1>6, FS_Subset
<1> QED
  BY <1>2, <1>7 DEF Majority

\* Every step keeps StuckInv.
LEMMA StuckStep ==
  ASSUME RaftConstants, RaftTypes, StuckInv, [RNext]_rvars
  PROVE  StuckInv'
<1> SUFFICES ASSUME ~reentrant PROVE StuckInv'
  BY ConfigStays DEF StuckInv
<1> USE DEF config, election, entries, leading, client
<1>0. cluster' = cluster /\ ~reentrant'
  BY ConfigStays
\* A step that elects nobody, sends no grant and commits nothing.
<1>1. ASSUME \A m \in network' : \/ m \in network
                                 \/ m.kind = "voted" /\ ~m.body.granted
                                 \/ m.kind = "vote" /\ m.body.term > 0,
             \A i \in Servers : /\ (term'[i] = term[i] /\ votedFor'[i] = votedFor[i]) \/ votedFor'[i] = i
                                /\ votes'[i] \subseteq {i},
             \/ UNCHANGED <<elected, role>>
             \/ UNCHANGED elected /\ \A i \in Servers : role'[i] = "CANDIDATE" \/ role'[i] = role[i]
             \/ Cardinality(cluster) <= 1,
             commit' = commit,
             "SUCCESS" \notin replies'
      PROVE  StuckInv'
  <2>1. \A m \in network' : /\ m.kind \notin {"append", "appended"}
                            /\ m.kind = "voted" => ~m.body.granted
                            /\ m.kind = "vote" => m.body.term > 0
    BY <1>1 DEF StuckInv
  <2>2. \A i \in Servers : /\ term'[i] > 0 => votedFor'[i] = i
                           /\ votes'[i] \subseteq {i} /\ commit'[i] = 0
    BY <1>1 DEF StuckInv
  <2>3. Cardinality(cluster) > 1 => elected' = {} /\ \A i \in Servers : role'[i] # "LEADER"
    <3>1. Cardinality(cluster) \in Nat
      BY FS_Subset, FS_CardinalityType DEF RaftConstants, RaftTypes, NodesOK
    <3> QED
      BY <1>1, <3>1 DEF StuckInv
  <2> QED
    BY <1>0, <1>1, <2>1, <2>2, <2>3 DEF StuckInv
<1>2. ASSUME NEW m \in network, Wedge(m) \/ Ignore(m)
      PROVE  StuckInv'
  BY <1>1, <1>2 DEF Wedge, Ignore, StuckInv
<1>3. ASSUME NEW m \in network, HandleRequestVote(m)
      PROVE  StuckInv'
  <2>1. CASE m.body.term > term[m.to]
    BY <1>2, <1>3, <2>1 DEF HandleRequestVote
  <2>2. CASE ~(m.body.term > term[m.to])
    <3>1. m.to \in Servers /\ m.from \in Servers /\ m.from # m.to /\ m.body.term \in Nat
          /\ term[m.to] \in Nat /\ m.body.term > 0
      BY <1>3 DEF RaftTypes, NodesOK, MessagesOK, MessageOK, HandleRequestVote, StuckInv
    <3>2. Vote(m, m.body.term > term[m.to])
      BY <1>3, <2>2 DEF HandleRequestVote
    <3>3. m.body.term >= term[m.to] => votedFor[m.to] = m.to
      BY <2>2, <3>1 DEF StuckInv
    <3>4. ~(m.body.term >= term[m.to] /\ CanVote(m.to, m, m.body.term > term[m.to]))
      BY <2>2, <3>1, <3>3 DEF CanVote, RaftConstants
    <3>5. PICK y : /\ network' \subseteq network \union {y} /\ y.kind = "voted"
                   /\ y.body.granted = (m.body.term >= term[m.to] /\ CanVote(m.to, m, m.body.term > term[m.to]))
      BY <3>2, VoteSends
    <3>6. ~y.body.granted
      BY <3>4, <3>5
    <3>7. \A i \in Servers : term'[i] = term[i] /\ votedFor'[i] = votedFor[i] /\ votes'[i] = votes[i]
                             /\ role'[i] = role[i]
      BY <2>2, <3>2, <3>4 DEF Vote, RaftTypes, NodesOK
    <3>8. UNCHANGED <<elected, commit, replies>>
      BY <3>2 DEF Vote
    <3> QED
      BY <1>1, <3>5, <3>6, <3>7, <3>8 DEF StuckInv
  <2> QED
    BY <2>1, <2>2
<1>4. ASSUME NEW m \in network, HandleRequestVoteReply(m)
      PROVE  StuckInv'
  <2>1. ~m.body.granted
    BY <1>4 DEF StuckInv, HandleRequestVoteReply
  <2> QED
    BY <1>2, <1>4, <2>1 DEF HandleRequestVoteReply, StepDown
<1>5. ASSUME NEW m \in network, HandleAppendEntries(m) \/ HandleAppendEntriesReply(m)
      PROVE  FALSE
  BY <1>5 DEF StuckInv, HandleAppendEntries, HandleAppendEntriesReply
<1>6. ASSUME NEW i \in cluster, StartElection(i)
      PROVE  StuckInv'
  <2>1. i \in Servers /\ term[i] + 1 > 0
    BY DEF RaftTypes, NodesOK
  <2>2. PICK b : b.term = term[i] + 1 /\ Send(network, Requests(i, "vote", b))
    BY <1>6 DEF StartElection
  <2>3. \A m \in network' : m \in network \/ (m.kind = "vote" /\ m.body.term > 0)
    <3>1. \A m \in Requests(i, "vote", b) : m.kind = "vote" /\ m.body = b
      BY DEF Requests
    <3> QED
      BY <2>1, <2>2, <3>1, SendAdds
  <2>4. \A c \in Servers : /\ (term'[c] = term[c] /\ votedFor'[c] = votedFor[c]) \/ votedFor'[c] = c
                           /\ votes'[c] \subseteq {c}
    BY <1>6 DEF StartElection, RaftTypes, NodesOK, StuckInv
  <2>5. \/ UNCHANGED elected /\ \A c \in Servers : role'[c] = "CANDIDATE" \/ role'[c] = role[c]
        \/ Cardinality(cluster) <= 1
    <3>1. Cardinality(cluster) \in Nat
      BY FS_Subset, FS_CardinalityType DEF RaftConstants, RaftTypes, NodesOK
    <3>2. Majority = 1 => Cardinality(cluster) <= 1
      BY <3>1 DEF Majority
    <3> QED
      BY <1>6, <3>2 DEF StartElection, RaftTypes, NodesOK
  <2> QED
    BY <1>1, <1>6, <2>3, <2>4, <2>5 DEF StartElection, StuckInv
<1>7. ASSUME NEW i \in cluster, ClientAnswer(i)
      PROVE  StuckInv'
  <2>1. i \in Servers /\ ~(commit[i] >= waiting[i])
    BY <1>7 DEF RaftTypes, NodesOK, StuckInv, ClientAnswer
  <2> QED
    BY <1>1, <1>7, <2>1 DEF ClientAnswer, StuckInv
<1>8. ASSUME NEW i \in cluster, ClientRequest(i) \/ ApplyCommittedEntries(i)
      PROVE  StuckInv'
  BY <1>1, <1>8 DEF ClientRequest, ApplyCommittedEntries, StuckInv
<1>9. ASSUME NEW i \in cluster, NEW j \in cluster, Heartbeat(i, j)
      PROVE  FALSE
  <2>1. i # j /\ role[i] = "LEADER" /\ i \in Servers
    BY <1>9, ZenonT(60) DEF Heartbeat, RaftTypes, NodesOK
  <2> QED
    BY <2>1, TwoNodes DEF RaftTypes, StuckInv
<1>10. ASSUME UNCHANGED rvars
       PROVE  StuckInv'
  BY <1>10, <1>1 DEF rvars, StuckInv
<1> QED
  BY <1>3, <1>4, <1>5, <1>6, <1>7, <1>8, <1>9, <1>10 DEF RNext, Receive

\* With the lock as it is, in a cluster of any size, no cluster of two or more
\* nodes ever has a leader and no client is ever told SUCCESS.
THEOREM NothingEverCommits ==
  ASSUME RaftConstants
  PROVE  RSpec => []NothingCommitsAsBuilt
<1>1. RInit => StuckInv
  BY DEF RInit, StuckInv
<1>2. RaftTypes /\ StuckInv /\ [RNext]_rvars => StuckInv'
  BY StuckStep
<1>3. StuckInv => NothingCommitsAsBuilt
  BY DEF StuckInv, NothingCommitsAsBuilt, NoLeaderAsBuilt, ClientsTimeOut
<1> QED
  BY <1>1, <1>2, <1>3, TypesHold, PTL DEF RSpec

(***************************************************************************)
(* Elections.  A node forgets its vote when it moves to a later term, so   *)
(* the state alone does not say who elected a past leader.  The invariant  *)
(* speaks of a history of votes instead: V[j][t] is whom j voted for in    *)
(* term t.                                                                 *)
(***************************************************************************)
Ballots == [Servers -> [Nat -> Servers \union {Nobody}]]

Supporters(V, t, i) == {j \in cluster : V[j][t] = i}

\* V ends with the votes the nodes hold; what was granted, counted or won was
\* voted for.
BallotOK(V) ==
  /\ V \in Ballots
  /\ \A i \in Servers : V[i][term[i]] = votedFor[i]
  /\ \A i \in Servers : \A t \in Nat : t > term[i] => V[i][t] = Nobody
  /\ \A m \in network : m.kind = "voted" /\ m.body.granted => V[m.from][m.body.term] = m.to
  /\ \A i \in Servers : role[i] = "CANDIDATE" => \A j \in votes[i] : V[j][term[i]] = i
  /\ \A e \in elected : /\ e[1] \in Nat /\ e[2] \in Servers
                        /\ Cardinality(Supporters(V, e[1], e[2])) >= Majority

\* Who leads was elected in its term, who stands for election was not, and only
\* an elected node sends entries.
LeaderInv ==
  /\ \A t, i : <<t, i>> \in elected => t \in Nat /\ i \in Servers /\ t <= term[i]
  /\ \A i \in Servers : role[i] = "CANDIDATE" => <<term[i], i>> \notin elected
  /\ \A i \in Servers : role[i] = "LEADER" => <<term[i], i>> \in elected
  /\ \A m \in network : m.kind = "append" => <<m.body.term, m.from>> \in elected

ElectInv == LeaderInv /\ (\E V : BallotOK(V)) /\ elected \subseteq Nat \X Servers

\* A majority is more than half of the cluster.
LEMMA MajorityOK ==
  ASSUME RaftConstants, NodesOK
  PROVE  /\ IsFiniteSet(cluster) /\ Cardinality(cluster) \in Nat /\ Majority \in Nat
         /\ 2 * Majority > Cardinality(cluster)
<1>1. IsFiniteSet(cluster)
  BY FS_Subset DEF RaftConstants, NodesOK
<1>2. Cardinality(cluster) \in Nat
  BY <1>1, FS_CardinalityType
<1> QED
  BY <1>1, <1>2 DEF Majority

\* Growing a set of voters in the cluster keeps a majority.
LEMMA MoreVoters ==
  ASSUME RaftConstants, NodesOK, NEW A, NEW B, A \subseteq B, B \subseteq cluster,
         Cardinality(A) >= Majority
  PROVE  Cardinality(B) >= Majority
<1>1. IsFiniteSet(B) /\ IsFiniteSet(A)
  BY MajorityOK, FS_Subset
<1>2. Cardinality(A) \in Nat /\ Cardinality(B) \in Nat /\ Cardinality(A) <= Cardinality(B)
  BY <1>1, FS_Subset, FS_CardinalityType
<1> QED
  BY <1>2, MajorityOK

\* Two majorities share a voter, who voted once: one leader in a term.
LEMMA BallotsElectOne ==
  ASSUME RaftConstants, NodesOK, NEW V, BallotOK(V)
  PROVE  ElectionSafety
<1> SUFFICES ASSUME NEW a \in elected, NEW b \in elected, a[1] = b[1]
             PROVE  a[2] = b[2]
  BY DEF ElectionSafety
<1> DEFINE A == Supporters(V, a[1], a[2])
           B == Supporters(V, b[1], b[2])
<1>1. A \subseteq cluster /\ B \subseteq cluster
  BY DEF Supporters
<1>2. Cardinality(A) >= Majority /\ Cardinality(B) >= Majority
  BY DEF BallotOK
<1>3. Cardinality(A) \in Nat /\ Cardinality(B) \in Nat
  BY <1>1, MajorityOK, FS_Subset, FS_CardinalityType
<1>4. Cardinality(A) + Cardinality(B) > Cardinality(cluster)
  BY <1>2, <1>3, MajorityOK
<1>5. A \cap B # {}
  BY <1>1, <1>4, MajorityOK, FS_MajoritiesIntersect
<1> QED
  BY <1>5 DEF Supporters

\* What a step needs so that U is a history after it.
LEMMA BallotFrame ==
  ASSUME RaftConstants, RaftTypes, cluster' = cluster, NEW V, BallotOK(V), RaftTypes',
         NEW U \in Ballots,
         \A j \in Servers : \A t \in Nat : V[j][t] # Nobody => U[j][t] = V[j][t],
         \A j \in Servers : U[j][term'[j]] = votedFor'[j],
         \A j \in Servers : \A t \in Nat : t > term'[j] => U[j][t] = Nobody,
         \A m \in network' : m.kind = "voted" /\ m.body.granted =>
                               m \in network \/ U[m.from][m.body.term] = m.to,
         \A i \in Servers : role'[i] = "CANDIDATE" =>
           \A j \in votes'[i] : \/ U[j][term'[i]] = i
                                \/ role[i] = "CANDIDATE" /\ j \in votes[i] /\ term'[i] = term[i],
         \A e \in elected' : \/ e \in elected
                             \/ /\ e[1] \in Nat /\ e[2] \in Servers
                                /\ Cardinality(Supporters(U, e[1], e[2])) >= Majority
  PROVE  BallotOK(U)'
<1>1. cluster \subseteq Servers /\ Nobody \notin Servers
  BY DEF RaftConstants, RaftTypes, NodesOK
<1>2. \A m \in network' : m.kind = "voted" /\ m.body.granted => U[m.from][m.body.term] = m.to
  <2> SUFFICES ASSUME NEW m \in network', m.kind = "voted", m.body.granted, m \in network
               PROVE  U[m.from][m.body.term] = m.to
    OBVIOUS
  <2>1. m.from \in Servers /\ m.to \in Servers /\ m.body.term \in Nat
    BY <1>1 DEF RaftTypes, MessagesOK, MessageOK
  <2>2. V[m.from][m.body.term] = m.to
    BY DEF BallotOK
  <2> QED
    BY <1>1, <2>1, <2>2
<1>3. ASSUME NEW i \in Servers, role'[i] = "CANDIDATE", NEW j \in votes'[i]
      PROVE  U[j][term'[i]] = i
  <2> SUFFICES ASSUME role[i] = "CANDIDATE", j \in votes[i], term'[i] = term[i]
               PROVE  U[j][term'[i]] = i
    BY <1>3
  <2>1. j \in Servers /\ term[i] \in Nat
    BY <1>1 DEF RaftTypes, NodesOK
  <2>2. V[j][term[i]] = i
    BY DEF BallotOK
  <2> QED
    BY <1>1, <2>1, <2>2
<1>4. ASSUME NEW e \in elected'
      PROVE  /\ e[1] \in Nat /\ e[2] \in Servers
             /\ Cardinality(Supporters(U, e[1], e[2])) >= Majority
  <2> SUFFICES ASSUME e \in elected
               PROVE  /\ e[1] \in Nat /\ e[2] \in Servers
                      /\ Cardinality(Supporters(U, e[1], e[2])) >= Majority
    BY <1>4
  <2>1. /\ e[1] \in Nat /\ e[2] \in Servers
        /\ Cardinality(Supporters(V, e[1], e[2])) >= Majority
    BY DEF BallotOK
  <2>2. /\ Supporters(V, e[1], e[2]) \subseteq Supporters(U, e[1], e[2])
        /\ Supporters(U, e[1], e[2]) \subseteq cluster
    BY <1>1, <2>1 DEF Supporters
  <2> QED
    BY <2>1, <2>2, MoreVoters DEF RaftTypes
<1> QED
  BY <1>2, <1>3, <1>4 DEF BallotOK, Supporters, Majority

\* A node may vote once in a term, its own or a later one.
LEMMA BallotCast ==
  ASSUME RaftConstants, RaftTypes, RaftTypes', NEW V, BallotOK(V), NEW i \in Servers,
         term'[i] >= term[i], term'[i] = term[i] => votedFor[i] \in {Nobody, votedFor'[i]},
         \A c \in Servers : c # i => term'[c] = term[c] /\ votedFor'[c] = votedFor[c]
  PROVE  \E U \in Ballots :
           /\ \A j \in Servers : \A u \in Nat : V[j][u] # Nobody => U[j][u] = V[j][u]
           /\ \A j \in Servers : U[j][term'[j]] = votedFor'[j]
           /\ \A j \in Servers : \A u \in Nat : u > term'[j] => U[j][u] = Nobody
<1>0. /\ V \in Ballots
      /\ \A c \in Servers : /\ term[c] \in Nat /\ term'[c] \in Nat
                            /\ votedFor'[c] \in Servers \union {Nobody}
  BY DEF BallotOK, RaftTypes, NodesOK
<1>1. PICK t \in Nat, v \in Servers \union {Nobody} : t = term'[i] /\ v = votedFor'[i]
  BY <1>0
<1> DEFINE U == [j \in Servers |-> [u \in Nat |-> IF j = i /\ u = t THEN v ELSE V[j][u]]]
<1>2. U \in Ballots
  BY <1>0 DEF Ballots
<1>3. \A j \in Servers : \A u \in Nat : U[j][u] = IF j = i /\ u = t THEN v ELSE V[j][u]
  OBVIOUS
<1> HIDE DEF U
<1>4. V[i][t] \in {Nobody, v}
  BY <1>0, <1>1 DEF BallotOK
<1>5. \A j \in Servers : \A u \in Nat : V[j][u] # Nobody => U[j][u] = V[j][u]
  BY <1>3, <1>4
<1>6. \A j \in Servers : U[j][term'[j]] = votedFor'[j]
  BY <1>0, <1>1, <1>3 DEF BallotOK
<1>7. \A j \in Servers : \A u \in Nat : u > term'[j] => U[j][u] = Nobody
  BY <1>0, <1>1, <1>3 DEF BallotOK
<1> QED
  BY <1>2, <1>5, <1>6, <1>7

\* What a step needs to keep the leaders in order.
LEMMA LeaderFrame ==
  ASSUME RaftTypes, RaftTypes', LeaderInv, elected \subseteq Nat \X Servers,
         \A i \in Servers : term'[i] >= term[i],
         \/ elected' = elected
         \/ \E i \in Servers : elected' = elected \union {<<term'[i], i>>} /\ role'[i] = "LEADER",
         \A i \in Servers : role'[i] = "CANDIDATE" =>
                              (role[i] = "CANDIDATE" /\ term'[i] = term[i]) \/ term'[i] > term[i],
         \A i \in Servers : role'[i] = "LEADER" =>
                              (role[i] = "LEADER" /\ term'[i] = term[i]) \/ <<term'[i], i>> \in elected',
         \A m \in network' : m.kind = "append" => m \in network \/ <<m.body.term, m.from>> \in elected
  PROVE  LeaderInv' /\ elected' \subseteq Nat \X Servers
<1>1. \A i \in Servers : term[i] \in Nat /\ term'[i] \in Nat
  BY DEF RaftTypes, NodesOK
<1>2. \A e \in elected' : e \in elected \/ \E i \in Servers : e = <<term'[i], i>> /\ role'[i] = "LEADER"
  OBVIOUS
<1>3. elected \subseteq elected'
  OBVIOUS
<1>4. elected' \subseteq Nat \X Servers
  BY <1>1, <1>2
<1>5. \A t, i : <<t, i>> \in elected' => t \in Nat /\ i \in Servers /\ t <= term'[i]
  <2> SUFFICES ASSUME NEW t, NEW i, <<t, i>> \in elected'
               PROVE  t \in Nat /\ i \in Servers /\ t <= term'[i]
    OBVIOUS
  <2>1. CASE <<t, i>> \in elected
    BY <1>1, <2>1 DEF LeaderInv
  <2>2. CASE <<t, i>> \notin elected
    <3>1. t = term'[i] /\ i \in Servers
      BY <1>2, <2>2
    <3> QED
      BY <1>1, <3>1
  <2> QED
    BY <2>1, <2>2
<1>6. ASSUME NEW i \in Servers, role'[i] = "CANDIDATE", <<term'[i], i>> \in elected'
      PROVE  FALSE
  <2>1. <<term'[i], i>> \in elected
    BY <1>2, <1>6
  <2>2. ~(term'[i] > term[i])
    BY <1>1, <2>1 DEF LeaderInv
  <2> QED
    BY <1>6, <2>1, <2>2 DEF LeaderInv
<1>7. \A i \in Servers : role'[i] = "LEADER" => <<term'[i], i>> \in elected'
  BY <1>3 DEF LeaderInv
<1>8. \A m \in network' : m.kind = "append" => <<m.body.term, m.from>> \in elected'
  BY <1>3 DEF LeaderInv
<1> QED
  BY <1>4, <1>5, <1>6, <1>7, <1>8 DEF LeaderInv

\* Every step keeps the elections in order.
LEMMA ElectStep ==
  ASSUME RaftConstants, RaftTypes, RaftTypes', ElectInv, [RNext]_rvars
  PROVE  ElectInv'
<1> USE DEF config, election, entries, leading, client
<1>0. cluster' = cluster /\ \A i \in Servers : term[i] \in Nat
  BY ConfigStays DEF RaftTypes, NodesOK
<1>1. PICK V : BallotOK(V)
  BY DEF ElectInv
\* A step that leaves the elections alone.
<1>2. ASSUME UNCHANGED election,
             \A m \in network' : \/ m \in network
                                 \/ /\ m.kind # "voted"
                                    /\ m.kind = "append" => <<m.body.term, m.from>> \in elected
      PROVE  ElectInv'
  <2>1. LeaderInv' /\ elected' \subseteq Nat \X Servers
    BY <1>0, <1>2, LeaderFrame DEF ElectInv
  <2>2. BallotOK(V)'
    <3>1. /\ V \in Ballots /\ \A j \in Servers : V[j][term'[j]] = votedFor'[j]
          /\ \A j \in Servers : \A t \in Nat : t > term'[j] => V[j][t] = Nobody
      BY <1>1, <1>2 DEF BallotOK
    <3> QED
      BY <1>0, <1>1, <1>2, <3>1, BallotFrame
  <2> QED
    BY <2>1, <2>2 DEF ElectInv
<1>3. ASSUME NEW m \in network, Wedge(m) \/ Ignore(m)
      PROVE  ElectInv'
  BY <1>2, <1>3 DEF Wedge, Ignore
\* A node that follows, in its own term or in a later one.
<1>4. ASSUME NEW i \in Servers,
             term'[i] >= term[i], term'[i] = term[i] => votedFor[i] \in {Nobody, votedFor'[i]},
             \A c \in Servers : c # i => /\ term'[c] = term[c] /\ votedFor'[c] = votedFor[c]
                                         /\ role'[c] = role[c] /\ votes'[c] = votes[c],
             \/ role'[i] = "FOLLOWER"
             \/ term'[i] = term[i] /\ role'[i] = role[i] /\ votes'[i] = votes[i],
             elected' = elected,
             \A m \in network' : \/ m \in network \/ m.kind \notin {"append", "voted"}
                                 \/ /\ m.kind = "voted" /\ m.from = i /\ m.body.term = term'[i]
                                    /\ m.body.granted => m.to = votedFor'[i]
      PROVE  ElectInv'
  <2>1. \A c \in Servers : /\ term'[c] >= term[c]
                           /\ role'[c] # "FOLLOWER" => /\ term'[c] = term[c] /\ role'[c] = role[c]
                                                       /\ votes'[c] = votes[c]
    BY <1>0, <1>4
  <2>2. LeaderInv' /\ elected' \subseteq Nat \X Servers
    BY <1>4, <2>1, LeaderFrame DEF ElectInv
  <2>3. PICK U \in Ballots :
           /\ \A j \in Servers : \A u \in Nat : V[j][u] # Nobody => U[j][u] = V[j][u]
           /\ \A j \in Servers : U[j][term'[j]] = votedFor'[j]
           /\ \A j \in Servers : \A u \in Nat : u > term'[j] => U[j][u] = Nobody
    BY <1>1, <1>4, BallotCast
  <2>4. \A c \in Servers : role'[c] = "CANDIDATE" =>
           \A j \in votes'[c] : role[c] = "CANDIDATE" /\ j \in votes[c] /\ term'[c] = term[c]
    BY <2>1
  <2>5. \A m \in network' : m.kind = "voted" /\ m.body.granted =>
                              m \in network \/ U[m.from][m.body.term] = m.to
    BY <1>4, <2>3
  <2>6. BallotOK(U)'
    BY <1>0, <1>1, <1>4, <2>3, <2>4, <2>5, BallotFrame
  <2> QED
    BY <2>2, <2>6 DEF ElectInv
<1>5. ASSUME NEW m \in network, StepDown(m.to, m), m.body.term > term[m.to]
      PROVE  ElectInv'
  <2>1. CASE Wedge(m)
    BY <1>3, <2>1
  <2>2. CASE ~Wedge(m)
    <3>1. m.to \in Servers /\ m.body.term \in Nat /\ term[m.to] \in Nat
      BY DEF RaftTypes, NodesOK, MessagesOK, MessageOK
    <3>2. /\ m.body.term >= term[m.to] /\ m.body.term # term[m.to]
          /\ term' = [term EXCEPT ![m.to] = m.body.term]
          /\ votedFor' = [votedFor EXCEPT ![m.to] = Nobody]
          /\ role' = [role EXCEPT ![m.to] = "FOLLOWER"]
          /\ votes' = [votes EXCEPT ![m.to] = {}]
          /\ elected' = elected /\ network' = network \ {m}
      BY <1>5, <2>2, <3>1 DEF StepDown
    <3>3. \A c \in Servers : c # m.to => /\ term'[c] = term[c] /\ votedFor'[c] = votedFor[c]
                                         /\ role'[c] = role[c] /\ votes'[c] = votes[c]
      BY <3>2 DEF RaftTypes, NodesOK
    <3>4. term'[m.to] = m.body.term /\ role'[m.to] = "FOLLOWER"
      BY <3>1, <3>2 DEF RaftTypes, NodesOK
    <3> QED
      BY <1>4, <3>1, <3>2, <3>3, <3>4
  <2> QED
    BY <2>1, <2>2
<1>6. ASSUME NEW m \in network, HandleRequestVote(m)
      PROVE  ElectInv'
  <2> DEFINE i == m.to
             higher == m.body.term > term[i]
             grants == m.body.term >= term[i] /\ CanVote(i, m, higher)
  <2>1. CASE Wedge(m)
    BY <1>3, <2>1
  <2>2. CASE ~Wedge(m)
    <3>1. i \in Servers /\ m.from \in Servers /\ m.body.term \in Nat /\ term[i] \in Nat
          /\ votedFor[i] \in Servers \union {Nobody}
      BY DEF RaftTypes, NodesOK, MessagesOK, MessageOK
    <3>2. Vote(m, higher)
      BY <1>6, <2>2 DEF HandleRequestVote
    <3>3. /\ term'[i] = IF higher THEN m.body.term ELSE term[i]
          /\ role'[i] = IF higher THEN "FOLLOWER" ELSE role[i]
          /\ votes'[i] = IF higher THEN {} ELSE votes[i]
          /\ votedFor'[i] = IF grants THEN m.from ELSE IF higher THEN Nobody ELSE votedFor[i]
          /\ elected' = elected
      BY <3>1, <3>2 DEF Vote, RaftTypes, NodesOK
    <3>4. \A c \in Servers : c # i => /\ term'[c] = term[c] /\ votedFor'[c] = votedFor[c]
                                      /\ role'[c] = role[c] /\ votes'[c] = votes[c]
      BY <3>1, <3>2 DEF Vote, RaftTypes, NodesOK
    <3>5. term'[i] >= term[i] /\ (term'[i] = term[i] => ~higher)
      BY <3>1, <3>3
    <3>6. term'[i] = term[i] => votedFor[i] \in {Nobody, votedFor'[i]}
      BY <3>3, <3>5 DEF CanVote
    <3>7. role'[i] = "FOLLOWER" \/ (term'[i] = term[i] /\ role'[i] = role[i] /\ votes'[i] = votes[i])
      BY <3>3
    <3>8. PICK y : /\ network' \subseteq network \union {y}
                   /\ y.kind = "voted" /\ y.from = i /\ y.to = m.from /\ y.body.term = term'[i]
                   /\ y.body.granted = grants
      BY <3>2, VoteSends
    <3>9. y.body.granted => y.to = votedFor'[i]
      BY <3>3, <3>8
    <3>10. \A x \in network' : \/ x \in network
                               \/ /\ x.kind = "voted" /\ x.from = i /\ x.body.term = term'[i]
                                  /\ x.body.granted => x.to = votedFor'[i]
      BY <3>8, <3>9
    <3> HIDE DEF higher, grants
    <3> QED
      BY <1>4, <3>1, <3>3, <3>4, <3>5, <3>6, <3>7, <3>10
  <2> QED
    BY <2>1, <2>2
<1>7. ASSUME NEW m \in network, HandleAppendEntries(m)
      PROVE  ElectInv'
  <2> DEFINE i == m.to
             t == m.body.term
  <2>1. i \in Servers /\ t \in Nat /\ term[i] \in Nat /\ votedFor[i] \in Servers \union {Nobody}
    BY DEF RaftTypes, NodesOK, MessagesOK, MessageOK
  <2>2. PICK y : network' \subseteq network \union {y} /\ y.kind = "appended"
    BY <1>7, AppendSends
  <2>3. votes' = votes /\ elected' = elected
    BY <1>7 DEF HandleAppendEntries
  <2>4. CASE t < term[i]
    <3>1. UNCHANGED <<term, votedFor, role>>
      BY <1>7, <2>4 DEF HandleAppendEntries
    <3> QED
      BY <1>2, <2>2, <2>3, <3>1
  <2>5. CASE ~(t < term[i])
    <3>1. /\ term'[i] = t /\ votedFor'[i] = (IF t > term[i] THEN Nobody ELSE votedFor[i])
          /\ role'[i] = "FOLLOWER"
      BY <1>7, <2>1, <2>5 DEF HandleAppendEntries, RaftTypes, NodesOK
    <3>2. \A c \in Servers : c # i => /\ term'[c] = term[c] /\ votedFor'[c] = votedFor[c]
                                      /\ role'[c] = role[c] /\ votes'[c] = votes[c]
      BY <1>7, <2>1, <2>3, <2>5 DEF HandleAppendEntries, RaftTypes, NodesOK
    <3>3. term'[i] >= term[i] /\ (term'[i] = term[i] => votedFor[i] \in {Nobody, votedFor'[i]})
      BY <2>1, <2>5, <3>1
    <3> QED
      BY <1>4, <2>1, <2>2, <2>3, <3>1, <3>2, <3>3
  <2> QED
    BY <2>4, <2>5
<1>8. ASSUME NEW m \in network, HandleRequestVoteReply(m)
      PROVE  ElectInv'
  <2> DEFINE i == m.to
             voters == votes[i] \union {m.from}
  <2>1. CASE Ignore(m)
    BY <1>3, <2>1
  <2>2. CASE StepDown(i, m) /\ m.body.term > term[i]
    BY <1>5, <2>2
  <2>3. CASE /\ role[i] = "CANDIDATE" /\ ~(m.body.term < term[i]) /\ ~(m.body.term > term[i])
             /\ m.body.granted
             /\ votes' = [votes EXCEPT ![i] = voters]
             /\ \/ Cardinality(voters) >= Majority /\ BecomeLeader(i, term[i])
                \/ UNCHANGED <<role, elected, leading>>
             /\ network' = network \ {m}
             /\ UNCHANGED <<term, votedFor>>
    <3>1. i \in Servers /\ m.body.term \in Nat /\ term[i] \in Nat
          /\ votes[i] \subseteq cluster /\ m.from \in cluster
      BY DEF RaftTypes, NodesOK, MessagesOK, MessageOK
    <3>2. m.body.term = term[i]
      BY <2>3, <3>1
    <3>3. V[m.from][term[i]] = i
      BY <1>1, <1>8, <2>3, <3>2 DEF BallotOK, HandleRequestVoteReply
    <3>4. voters \subseteq Supporters(V, term[i], i)
      BY <1>1, <2>3, <3>1, <3>3 DEF BallotOK, Supporters
    <3>5. Cardinality(voters) >= Majority => Cardinality(Supporters(V, term[i], i)) >= Majority
      BY <3>4, MoreVoters DEF RaftTypes, Supporters
    <3>6. \A c \in Servers : role'[c] = "CANDIDATE" => role[c] = "CANDIDATE" /\ term'[c] = term[c]
      <4>1. CASE BecomeLeader(i, term[i])
        BY <2>3, <3>1, <4>1 DEF BecomeLeader, RaftTypes, NodesOK
      <4>2. CASE UNCHANGED role
        BY <2>3, <4>2
      <4> QED
        BY <2>3, <4>1, <4>2
    <3>7. \/ elected' = elected
          \/ /\ elected' = elected \union {<<term'[i], i>>} /\ role'[i] = "LEADER"
             /\ Cardinality(Supporters(V, term[i], i)) >= Majority
      BY <2>3, <3>1, <3>5 DEF BecomeLeader, RaftTypes, NodesOK
    <3>8. \A c \in Servers : role'[c] = "LEADER" =>
                               (role[c] = "LEADER" /\ term'[c] = term[c]) \/ <<term'[c], c>> \in elected'
      <4>1. CASE BecomeLeader(i, term[i])
        BY <2>3, <3>1, <4>1 DEF BecomeLeader, RaftTypes, NodesOK
      <4>2. CASE UNCHANGED role
        BY <2>3, <4>2
      <4> QED
        BY <2>3, <4>1, <4>2
    <3>9. LeaderInv' /\ elected' \subseteq Nat \X Servers
      <4>1. \A c \in Servers : term'[c] >= term[c]
        BY <1>0, <2>3
      <4> QED
        BY <2>3, <3>1, <3>6, <3>7, <3>8, <4>1, LeaderFrame DEF ElectInv
    <3>10. \A c \in Servers : role'[c] = "CANDIDATE" =>
             \A j \in votes'[c] : \/ V[j][term'[c]] = c
                                  \/ role[c] = "CANDIDATE" /\ j \in votes[c] /\ term'[c] = term[c]
      BY <2>3, <3>1, <3>3, <3>6 DEF RaftTypes, NodesOK
    <3>11. \A e \in elected' : \/ e \in elected
                               \/ /\ e[1] \in Nat /\ e[2] \in Servers
                                  /\ Cardinality(Supporters(V, e[1], e[2])) >= Majority
      BY <2>3, <3>1, <3>7
    <3>12. /\ V \in Ballots /\ \A j \in Servers : V[j][term'[j]] = votedFor'[j]
           /\ \A j \in Servers : \A t \in Nat : t > term'[j] => V[j][t] = Nobody
      BY <1>1, <2>3 DEF BallotOK
    <3>13. network' \subseteq network
      BY <2>3
    <3>14. BallotOK(V)'
      BY <1>0, <1>1, <3>10, <3>11, <3>12, <3>13, BallotFrame
    <3> QED
      BY <3>9, <3>14 DEF ElectInv
  <2> QED
    BY <1>8, <2>1, <2>2, <2>3 DEF HandleRequestVoteReply, Stale
<1>9. ASSUME NEW m \in network, HandleAppendEntriesReply(m)
      PROVE  ElectInv'
  <2> DEFINE i == m.to
             lower == Max({1, nextIndex[i][m.from] - 1})
  <2>1. CASE Ignore(m)
    BY <1>3, <2>1
  <2>2. CASE StepDown(i, m) /\ m.body.term > term[i]
    BY <1>5, <2>2
  <2>3. CASE UNCHANGED election /\ network' = network \ {m}
    BY <1>2, <2>3
  <2>4. CASE /\ role[i] = "LEADER" /\ UNCHANGED election
             /\ Send(network \ {m}, {AppendTo(i, m.from, lower)})
    <3>1. i \in Servers
      BY DEF RaftTypes, NodesOK, MessagesOK, MessageOK
    <3>2. \A x \in network' : x \in network \/ x = AppendTo(i, m.from, lower)
      BY <2>4, SendAdds
    <3>3. /\ AppendTo(i, m.from, lower).kind = "append" /\ AppendTo(i, m.from, lower).from = i
          /\ AppendTo(i, m.from, lower).body.term = term[i]
      BY DEF AppendTo
    <3>4. <<term[i], i>> \in elected
      BY <2>4, <3>1 DEF ElectInv, LeaderInv
    <3> QED
      BY <1>2, <2>4, <3>2, <3>3, <3>4
  <2> QED
    BY <1>9, <2>1, <2>2, <2>3, <2>4 DEF HandleAppendEntriesReply
<1>10. ASSUME NEW i \in cluster, NEW j \in cluster, Heartbeat(i, j)
       PROVE  ElectInv'
  <2> DEFINE a == AppendTo(i, j, nextIndex[i][j])
  <2>1. \A x \in network' : x \in network \/ x = a
    BY <1>10, SendAdds DEF Heartbeat
  <2>2. a.kind = "append" /\ a.from = i /\ a.body.term = term[i]
    BY DEF AppendTo
  <2>3. i \in Servers /\ role[i] = "LEADER" /\ UNCHANGED election
    BY <1>10 DEF Heartbeat, RaftTypes, NodesOK
  <2>4. <<term[i], i>> \in elected
    BY <2>3 DEF ElectInv, LeaderInv
  <2> HIDE DEF a
  <2> QED
    BY <1>2, <2>1, <2>2, <2>3, <2>4
<1>11. ASSUME NEW i \in cluster, StartElection(i)
       PROVE  ElectInv'
  <2> DEFINE t == term[i] + 1
  <2>1. i \in Servers /\ t \in Nat /\ term[i] \in Nat /\ cluster \subseteq Servers
    BY DEF RaftTypes, NodesOK
  <2>2. /\ term'[i] = t /\ votedFor'[i] = i /\ votes'[i] = {i}
        /\ \A c \in Servers : c # i => term'[c] = term[c] /\ votedFor'[c] = votedFor[c] /\ votes'[c] = votes[c]
    BY <1>11, <2>1 DEF StartElection, RaftTypes, NodesOK
  <2>3. PICK U \in Ballots :
           /\ \A j \in Servers : \A u \in Nat : V[j][u] # Nobody => U[j][u] = V[j][u]
           /\ \A j \in Servers : U[j][term'[j]] = votedFor'[j]
           /\ \A j \in Servers : \A u \in Nat : u > term'[j] => U[j][u] = Nobody
    <3>1. term'[i] >= term[i] /\ term'[i] # term[i]
      BY <2>1, <2>2
    <3> QED
      BY <1>1, <2>1, <2>2, <3>1, BallotCast
  <2>4. U[i][t] = i
    BY <2>1, <2>2, <2>3
  <2>5. /\ \A c \in Servers : c # i => role'[c] = role[c]
        /\ \/ role'[i] = "CANDIDATE" /\ elected' = elected
           \/ Majority = 1 /\ role'[i] = "LEADER" /\ elected' = elected \union {<<t, i>>}
    <3>1. CASE Majority = 1 /\ BecomeLeader(i, t)
      BY <2>1, <3>1 DEF BecomeLeader, RaftTypes, NodesOK
    <3>2. CASE role' = [role EXCEPT ![i] = "CANDIDATE"] /\ elected' = elected
      BY <2>1, <3>2 DEF RaftTypes, NodesOK
    <3> QED
      BY <1>11, <3>1, <3>2 DEF StartElection
  <2>6. \A m \in network' : m \in network \/ m.kind = "vote"
    <3>1. PICK b : Send(network, Requests(i, "vote", b))
      BY <1>11 DEF StartElection
    <3>2. \A m \in Requests(i, "vote", b) : m.kind = "vote"
      BY DEF Requests
    <3> QED
      BY <3>1, <3>2, SendAdds
  <2>7. Majority = 1 => Cardinality(Supporters(U, t, i)) >= Majority
    <3>1. {i} \subseteq Supporters(U, t, i) /\ Supporters(U, t, i) \subseteq cluster
      BY <2>4 DEF Supporters
    <3>2. Cardinality({i}) = 1
      BY FS_Singleton
    <3>3. Majority = 1 => Cardinality({i}) >= Majority
      BY <3>2
    <3> QED
      BY <3>1, <3>3, MoreVoters DEF RaftTypes
  <2>8. LeaderInv' /\ elected' \subseteq Nat \X Servers
    <3>1. \A c \in Servers : term'[c] >= term[c] /\ (c = i => term'[c] > term[c])
      BY <1>0, <2>1, <2>2
    <3>2. \A c \in Servers : role'[c] = "CANDIDATE" =>
                               (role[c] = "CANDIDATE" /\ term'[c] = term[c]) \/ term'[c] > term[c]
      BY <2>2, <2>5, <3>1
    <3>3. \A c \in Servers : role'[c] = "LEADER" =>
                               (role[c] = "LEADER" /\ term'[c] = term[c]) \/ <<term'[c], c>> \in elected'
      BY <2>2, <2>5
    <3>4. \/ elected' = elected
          \/ elected' = elected \union {<<term'[i], i>>} /\ role'[i] = "LEADER"
      BY <2>2, <2>5
    <3>5. \A m \in network' : m.kind = "append" => m \in network
      BY <2>6
    <3> QED
      BY <2>1, <3>1, <3>2, <3>3, <3>4, <3>5, LeaderFrame DEF ElectInv
  <2>9. BallotOK(U)'
    <3>1. \A c \in Servers : role'[c] = "CANDIDATE" =>
             \A j \in votes'[c] : \/ U[j][term'[c]] = c
                                  \/ role[c] = "CANDIDATE" /\ j \in votes[c] /\ term'[c] = term[c]
      BY <2>2, <2>4, <2>5
    <3>2. \A e \in elected' : \/ e \in elected
                              \/ /\ e[1] \in Nat /\ e[2] \in Servers
                                 /\ Cardinality(Supporters(U, e[1], e[2])) >= Majority
      BY <2>1, <2>5, <2>7
    <3>3. \A m \in network' : m.kind = "voted" => m \in network
      BY <2>6
    <3> QED
      BY <1>0, <1>1, <2>3, <3>1, <3>2, <3>3, BallotFrame
  <2> QED
    BY <2>8, <2>9 DEF ElectInv
<1>12. ASSUME \/ \E i \in cluster : ClientRequest(i) \/ ClientAnswer(i) \/ ApplyCommittedEntries(i)
              \/ UNCHANGED rvars
       PROVE  ElectInv'
  BY <1>2, <1>12 DEF ClientRequest, ClientAnswer, ApplyCommittedEntries, rvars
<1> QED
  BY <1>6, <1>7, <1>8, <1>9, <1>10, <1>11, <1>12 DEF RNext, Receive

\* In every reachable state some history of the votes explains who was elected.
LEMMA ElectHolds ==
  ASSUME RaftConstants
  PROVE  RSpec => []ElectInv
<1>1. RInit => ElectInv
  <2> SUFFICES ASSUME RInit PROVE ElectInv
    OBVIOUS
  <2> DEFINE V == [i \in Servers |-> [t \in Nat |-> Nobody]]
  <2>1. V \in Ballots
    BY DEF Ballots
  <2>2. BallotOK(V)
    BY <2>1 DEF RInit, BallotOK
  <2>3. LeaderInv
    BY DEF RInit, LeaderInv
  <2> HIDE DEF V
  <2> QED
    BY <2>2, <2>3 DEF ElectInv, RInit
<1>2. RaftTypes /\ RaftTypes' /\ ElectInv /\ [RNext]_rvars => ElectInv'
  BY ElectStep
<1> QED
  BY <1>1, <1>2, TypesHold, PTL DEF RSpec

\* At most one node is ever elected in a term, whatever is lost or reordered,
\* in a cluster of any size and with either behaviour of the lock.
THEOREM OneLeaderPerTerm ==
  ASSUME RaftConstants
  PROVE  RSpec => []ElectionSafety
<1>1. RaftTypes /\ ElectInv => ElectionSafety
  BY BallotsElectOne DEF RaftTypes, ElectInv
<1> QED
  BY <1>1, TypesHold, ElectHolds, PTL

(***************************************************************************)
(* Logs.  An entry of term t was made by the leader of t; H[t] is that     *)
(* leader's log as it last was.  Every log, and every message, agrees with *)
(* H[t] up to each of its entries of term t.                               *)
(***************************************************************************)
Histories == [Nat -> Seq(Nat)]

\* The first n entries of s are those of the leader that made the n-th.
Grounded(s, n, H) ==
  n <= Len(H[s[n]]) /\ \A l \in 1..n : H[s[n]][l] = s[l]

\* So are the entries an append carries, with the one before them.
Carried(b, H) ==
  \A k \in 1..Len(b.new) :
    /\ b.prev + k <= Len(H[b.new[k]])
    /\ b.prev > 0 => H[b.new[k]][b.prev] = b.prevTerm
    /\ \A l \in 1..k : H[b.new[k]][b.prev + l] = b.new[l]

HistoryOK(H) ==
  /\ H \in Histories
  /\ \A t \in Nat : H[t] # <<>> => \E i \in Servers : <<t, i>> \in elected
  /\ \A t \in Nat : \A n \in 1..Len(H[t]) : Grounded(H[t], n, H)
  /\ \A i \in Servers : \A n \in 1..Len(log[i]) : Grounded(log[i], n, H)
  /\ \A i \in Servers : role[i] = "LEADER" => log[i] = H[term[i]]
  /\ \A m \in network : m.kind = "append" => Carried(m.body, H)

LogInv == \E H : HistoryOK(H)

\* Logs that follow one history of the leaders match each other.
LEMMA HistoryMatches ==
  ASSUME RaftTypes, NEW H, HistoryOK(H)
  PROVE  LogMatching
<1> SUFFICES ASSUME NEW i \in Servers, NEW j \in Servers, NEW n \in DOMAIN log[i] \cap DOMAIN log[j],
                    log[i][n] = log[j][n]
             PROVE  SubSeq(log[i], 1, n) = SubSeq(log[j], 1, n)
  BY DEF LogMatching
<1>1. log[i] \in Seq(Nat) /\ log[j] \in Seq(Nat)
  BY DEF RaftTypes, NodesOK
<1>2. n \in 1..Len(log[i]) /\ n \in 1..Len(log[j])
  BY <1>1
<1>3. Grounded(log[i], n, H) /\ Grounded(log[j], n, H)
  BY <1>2 DEF HistoryOK
<1>4. \A l \in 1..n : log[i][l] = log[j][l]
  BY <1>3 DEF Grounded
<1>5. /\ SubSeq(log[i], 1, n) = [l \in 1..n |-> log[i][l]]
      /\ SubSeq(log[j], 1, n) = [l \in 1..n |-> log[j][l]]
  <2>1. \A s \in Seq(Nat) : \A m \in 1..Len(s) : SubSeq(s, 1, m) = [l \in 1..m |-> s[l]]
    OBVIOUS
  <2> QED
    BY <1>1, <1>2, <2>1
<1> QED
  BY <1>4, <1>5

\* H grows: nothing in it changes.
Extends(U, H) ==
  \A t \in Nat : Len(H[t]) <= Len(U[t]) /\ \A l \in 1..Len(H[t]) : U[t][l] = H[t][l]

\* A log that follows the history still follows it when a leader appends to its own.
LEMMA GroundedStays ==
  ASSUME NEW H \in Histories, NEW U \in Histories, Extends(U, H),
         NEW s \in Seq(Nat), NEW n \in 1..Len(s), Grounded(s, n, H)
  PROVE  Grounded(s, n, U)
<1>1. PICK t \in Nat : t = s[n]
  OBVIOUS
<1>2. H[t] \in Seq(Nat) /\ U[t] \in Seq(Nat) /\ n \in Nat
  <2>1. n \in Nat
    OBVIOUS
  <2> QED
    BY <2>1 DEF Histories
<1>3. n <= Len(H[t]) /\ \A l \in 1..n : H[t][l] = s[l]
  BY <1>1 DEF Grounded
<1>4. Len(H[t]) <= Len(U[t]) /\ \A l \in 1..Len(H[t]) : U[t][l] = H[t][l]
  BY DEF Extends
<1>5. n <= Len(U[t])
  BY <1>2, <1>3, <1>4
<1>6. ASSUME NEW l \in 1..n
      PROVE  U[t][l] = s[l]
  <2>1. l \in 1..Len(H[t])
    BY <1>2, <1>3
  <2> QED
    BY <1>3, <1>4, <2>1
<1> QED
  BY <1>1, <1>5, <1>6 DEF Grounded

\* So do the entries in an append message.
LEMMA CarriedStays ==
  ASSUME NEW H \in Histories, NEW U \in Histories, Extends(U, H),
         NEW b, b.new \in Seq(Nat), b.prev \in Nat, Carried(b, H)
  PROVE  Carried(b, U)
<1> SUFFICES ASSUME NEW k \in 1..Len(b.new)
             PROVE  /\ b.prev + k <= Len(U[b.new[k]])
                    /\ b.prev > 0 => U[b.new[k]][b.prev] = b.prevTerm
                    /\ \A l \in 1..k : U[b.new[k]][b.prev + l] = b.new[l]
  BY DEF Carried
<1>0. b.new[k] \in Nat /\ k \in Nat
  OBVIOUS
<1>1. PICK t \in Nat, p \in Nat : t = b.new[k] /\ p = b.prev
  BY <1>0
<1>2. H[t] \in Seq(Nat) /\ U[t] \in Seq(Nat)
  BY DEF Histories
<1>3. /\ p + k <= Len(H[t])
      /\ p > 0 => H[t][p] = b.prevTerm
      /\ \A l \in 1..k : H[t][p + l] = b.new[l]
  BY <1>1 DEF Carried
<1>4. Len(H[t]) <= Len(U[t]) /\ \A l \in 1..Len(H[t]) : U[t][l] = H[t][l]
  BY DEF Extends
<1>5. p + k <= Len(U[t])
  BY <1>2, <1>3, <1>4
<1>6. p > 0 => U[t][p] = b.prevTerm
  BY <1>0, <1>2, <1>3, <1>4
<1>7. ASSUME NEW l \in 1..k
      PROVE  U[t][p + l] = b.new[l]
  <2>1. p + l \in 1..Len(H[t])
    BY <1>0, <1>2, <1>3, SMTT(60)
  <2> QED
    BY <1>3, <1>4, <2>1
<1> QED
  BY <1>1, <1>5, <1>6, <1>7

\* What a step needs so that U is a history after it.
LEMMA HistoryFrame ==
  ASSUME RaftTypes, RaftTypes', NEW H, HistoryOK(H), NEW U \in Histories, Extends(U, H),
         \A t \in Nat : U[t] # <<>> => \E i \in Servers : <<t, i>> \in elected',
         \A t \in Nat : U[t] = H[t] \/ \A n \in 1..Len(U[t]) : Grounded(U[t], n, U),
         \A i \in Servers : log'[i] = log[i] \/ \A n \in 1..Len(log'[i]) : Grounded(log'[i], n, U),
         \A i \in Servers : role'[i] = "LEADER" => log'[i] = U[term'[i]],
         \A m \in network' : m.kind = "append" => m \in network \/ Carried(m.body, U)
  PROVE  HistoryOK(U)'
<1>0. H \in Histories /\ (\A t \in Nat : H[t] \in Seq(Nat)) /\ \A i \in Servers : log[i] \in Seq(Nat)
  BY DEF HistoryOK, Histories, RaftTypes, NodesOK
<1>1. \A t \in Nat : \A n \in 1..Len(U[t]) : Grounded(U[t], n, U)
  BY <1>0, GroundedStays DEF HistoryOK
<1>2. \A i \in Servers : \A n \in 1..Len(log'[i]) : Grounded(log'[i], n, U)
  BY <1>0, GroundedStays DEF HistoryOK
<1>3. ASSUME NEW m \in network', m.kind = "append"
      PROVE  Carried(m.body, U)
  <2>1. CASE m \in network
    <3>1. m.body.new \in Seq(Nat) /\ m.body.prev \in Nat /\ Carried(m.body, H)
      BY <1>3, <2>1 DEF RaftTypes, MessagesOK, MessageOK, HistoryOK
    <3> QED
      BY <1>0, <3>1, CarriedStays
  <2>2. CASE m \notin network
    BY <1>3, <2>2
  <2> QED
    BY <2>1, <2>2
<1> QED
  BY <1>1, <1>2, <1>3 DEF HistoryOK

\* What a leader sends is carried.
LEMMA AppendCarries ==
  ASSUME RaftConstants, RaftTypes, NEW H, HistoryOK(H),
         NEW i \in cluster, NEW j \in cluster \ {i}, NEW n \in Nat \ {0}
  PROVE  Carried(AppendTo(i, j, n).body, H)
<1> DEFINE b == AppendTo(i, j, n).body
<1>1. i \in Servers /\ log[i] \in Seq(Nat) /\ \A q \in 1..Len(log[i]) : Grounded(log[i], q, H)
  BY DEF RaftTypes, NodesOK, HistoryOK
<1>2. /\ b.new # <<>> => /\ n <= Len(log[i]) /\ Len(b.new) = Len(log[i]) - n + 1
                         /\ \A k \in 1..(Len(log[i]) - n + 1) : b.new[k] = log[i][n + k - 1]
      /\ b.new \in Seq(Nat)
  <2>1. MessageOK(AppendTo(i, j, n)) /\ AppendTo(i, j, n).kind = "append"
    BY AppendToOK DEF RaftTypes, AppendTo
  <2>2. b.new \in Seq(Nat)
    BY <2>1 DEF MessageOK
  <2> QED
    BY <2>2, AppendToOK DEF RaftTypes
<1>3. b.prev = n - 1 /\ b.prevTerm = TermAt(i, n - 1)
  BY DEF AppendTo
<1> HIDE DEF b
<1> SUFFICES ASSUME NEW k \in 1..Len(b.new)
             PROVE  /\ b.prev + k <= Len(H[b.new[k]])
                    /\ b.prev > 0 => H[b.new[k]][b.prev] = b.prevTerm
                    /\ \A l \in 1..k : H[b.new[k]][b.prev + l] = b.new[l]
  BY DEF Carried, b
<1>4. b.new # <<>>
  BY <1>2
<1>5. PICK q \in 1..Len(log[i]) : q = n + k - 1 /\ b.new[k] = log[i][q]
  <2>1. n + k - 1 \in 1..Len(log[i]) /\ k \in 1..(Len(log[i]) - n + 1)
    BY <1>1, <1>2, <1>4
  <2> QED
    BY <1>2, <1>4, <2>1
<1>6. q <= Len(H[log[i][q]]) /\ \A l \in 1..q : H[log[i][q]][l] = log[i][l]
  BY <1>1 DEF Grounded
<1>7. b.prev > 0 => H[log[i][q]][n - 1] = log[i][n - 1] /\ b.prevTerm = log[i][n - 1]
  <2>1. b.prev > 0 => n - 1 \in 1..q /\ n - 1 \in DOMAIN log[i]
    BY <1>1, <1>3, <1>5
  <2> QED
    BY <1>3, <1>6, <2>1 DEF TermAt
<1>8. ASSUME NEW l \in 1..k
      PROVE  H[log[i][q]][b.prev + l] = b.new[l]
  <2>1. b.prev + l = n + l - 1 /\ n + l - 1 \in 1..q /\ l \in 1..(Len(log[i]) - n + 1)
    BY <1>1, <1>2, <1>3, <1>4, <1>5, SMTT(60)
  <2> QED
    BY <1>2, <1>4, <1>6, <2>1
<1>9. b.prev + k = q
  BY <1>3, <1>5
<1> QED
  BY <1>3, <1>5, <1>6, <1>7, <1>8, <1>9

\* The log handle_append_entries leaves is grounded.
LEMMA NewLogGrounded ==
  ASSUME RaftTypes, NEW H, HistoryOK(H), NEW m \in network, HandleAppendEntries(m)
  PROVE  NewLog(m) = log[m.to] \/ \A n \in 1..Len(NewLog(m)) : Grounded(NewLog(m), n, H)
<1> SUFFICES ASSUME NewLog(m) # log[m.to], NEW n \in 1..Len(NewLog(m))
             PROVE  Grounded(NewLog(m), n, H)
  OBVIOUS
<1>1. PICK old, new, prev, s : old = log[m.to] /\ new = m.body.new /\ prev = m.body.prev /\ s = NewLog(m)
  OBVIOUS
<1>2. /\ m.to \in Servers /\ old \in Seq(Nat) /\ new \in Seq(Nat) /\ prev \in Nat
      /\ \A q \in 1..Len(old) : Grounded(old, q, H)
      /\ Carried(m.body, H) /\ H \in Histories
  BY <1>1 DEF RaftTypes, NodesOK, MessagesOK, MessageOK, HistoryOK, HandleAppendEntries
<1>3. /\ new # <<>> /\ prev <= Len(old)
      /\ prev > 0 => old[prev] = m.body.prevTerm
      /\ s = Appended(old, prev, new)
  BY <1>1, NewLogOK
<1>4. /\ s \in Seq(Nat) /\ Len(s) = prev + Len(new)
      /\ \A q \in 1..prev : s[q] = old[q]
      /\ \A k \in 1..Len(new) : s[prev + k] = new[k]
  BY <1>2, <1>3, AppendedOK, ZenonT(60)
<1>5. n \in Nat /\ n >= 1 /\ n <= prev + Len(new) /\ Len(new) \in Nat
  <2>1. Len(new) \in Nat /\ Len(NewLog(m)) = prev + Len(new)
    BY <1>1, <1>2, <1>4
  <2> QED
    BY <1>2, <2>1
<1>6. CASE n <= prev
  <2>1. n \in 1..Len(old) /\ s[n] = old[n] /\ \A l \in 1..n : s[l] = old[l]
    BY <1>2, <1>3, <1>4, <1>5, <1>6, SMTT(60)
  <2>2. Grounded(old, n, H)
    BY <1>2, <2>1
  <2>3. Grounded(s, n, H)
    BY <2>1, <2>2 DEF Grounded
  <2> QED
    BY <1>1, <2>3
<1>7. CASE ~(n <= prev)
  <2>1. PICK k \in 1..Len(new) : n = prev + k
    <3>1. n - prev \in 1..Len(new) /\ n = prev + (n - prev)
      BY <1>2, <1>5, <1>7
    <3> QED
      BY <3>1
  <2>2. PICK t \in Nat : t = new[k] /\ s[n] = t
    <3>1. new[k] \in Nat
      BY <1>2
    <3>2. s[n] = new[k]
      BY <1>4, <2>1
    <3> QED
      BY <3>1, <3>2
  <2>3. /\ prev + k <= Len(H[t])
        /\ prev > 0 => H[t][prev] = m.body.prevTerm
        /\ \A l \in 1..k : H[t][prev + l] = new[l]
    BY <1>1, <1>2, <2>2 DEF Carried
  <2>4. \A l \in 1..prev : H[t][l] = old[l]
    <3>1. CASE prev = 0
      BY <3>1
    <3>2. CASE prev > 0
      <4>1. PICK p \in Nat : p = m.body.prevTerm /\ old[prev] = p /\ H[t][prev] = p
        BY <1>2, <1>3, <2>3, <3>2, SMTT(60)
      <4>2. H[t] \in Seq(Nat) /\ prev \in 1..Len(H[t]) /\ prev \in 1..Len(old)
        BY <1>2, <1>3, <2>1, <2>3, <3>2 DEF Histories
      <4>3. Grounded(H[t], prev, H) /\ Grounded(old, prev, H)
        BY <1>2, <4>2 DEF HistoryOK
      <4> QED
        BY <4>1, <4>3 DEF Grounded
    <3> QED
      BY <1>2, <3>1, <3>2
  <2>5. ASSUME NEW l \in 1..n
        PROVE  H[t][l] = s[l]
    <3>1. CASE l <= prev
      BY <1>2, <1>4, <2>4, <3>1
    <3>2. CASE ~(l <= prev)
      <4>1. PICK q \in 1..k : l = prev + q
        <5>1. l - prev \in 1..k /\ l = prev + (l - prev)
          BY <1>2, <2>1, <3>2
        <5> QED
          BY <5>1
      <4>2. q \in 1..Len(new)
        BY <1>2
      <4> QED
        BY <1>4, <2>3, <4>1, <4>2
    <3> QED
      BY <3>1, <3>2
  <2>6. Grounded(s, n, H)
    BY <2>1, <2>2, <2>3, <2>5 DEF Grounded
  <2> QED
    BY <1>1, <2>6
<1> QED
  BY <1>6, <1>7

\* A history is extended in one term, in which one node leads.
LEMMA HistoryGrows ==
  ASSUME RaftTypes, RaftTypes', ElectInv', ElectionSafety',
         NEW H, HistoryOK(H), elected \subseteq elected',
         NEW i \in Servers, <<term'[i], i>> \in elected', role'[i] = "LEADER",
         \A n \in 1..Len(H[term'[i]]) : log'[i][n] = H[term'[i]][n],
         Len(H[term'[i]]) <= Len(log'[i]),
         \A n \in 1..Len(log'[i]) : \/ log'[i][n] = term'[i]
                                    \/ n \in 1..Len(log[i]) /\ \A l \in 1..n : log'[i][l] = log[i][l],
         \A c \in Servers : c # i => /\ log'[c] = log[c]
                                     /\ role'[c] = "LEADER" => role[c] = "LEADER" /\ term'[c] = term[c],
         \A m \in network' : m.kind = "append" => m \in network
  PROVE  LogInv'
<1>1. PICK t \in Nat, s \in Seq(Nat) : t = term'[i] /\ s = log'[i]
  BY DEF RaftTypes, NodesOK
<1> DEFINE U == [H EXCEPT ![t] = s]
<1>2. H \in Histories /\ \A u \in Nat : H[u] \in Seq(Nat)
  BY DEF HistoryOK, Histories
<1>3. U \in Histories /\ U[t] = s /\ \A u \in Nat : u # t => U[u] = H[u]
  BY <1>2 DEF Histories
<1> HIDE DEF U
<1>4. Extends(U, H)
  <2> SUFFICES ASSUME NEW u \in Nat
               PROVE  Len(H[u]) <= Len(U[u]) /\ \A l \in 1..Len(H[u]) : U[u][l] = H[u][l]
    BY DEF Extends
  <2>1. CASE u = t
    BY <1>1, <1>3, <2>1
  <2>2. CASE u # t
    BY <1>2, <1>3, <2>2
  <2> QED
    BY <2>1, <2>2
<1>5. \A n \in 1..Len(s) : Grounded(s, n, U)
  <2> SUFFICES ASSUME NEW n \in 1..Len(s) PROVE Grounded(s, n, U)
    OBVIOUS
  <2>1. CASE s[n] = t
    BY <1>3, <2>1 DEF Grounded
  <2>2. CASE s[n] # t
    <3>1. PICK o \in Seq(Nat) : o = log[i]
      BY DEF RaftTypes, NodesOK
    <3>2. n \in 1..Len(o) /\ \A l \in 1..n : s[l] = o[l]
      BY <1>1, <2>2, <3>1
    <3>3. Grounded(o, n, H)
      BY <3>1, <3>2 DEF HistoryOK
    <3>4. Grounded(o, n, U)
      BY <1>2, <1>3, <1>4, <3>2, <3>3, GroundedStays
    <3>5. n \in 1..n /\ s[n] = o[n]
      BY <3>2
    <3> QED
      BY <3>2, <3>4, <3>5 DEF Grounded
  <2> QED
    BY <2>1, <2>2
<1>6. \A u \in Nat : U[u] # <<>> => \E c \in Servers : <<u, c>> \in elected'
  BY <1>1, <1>3 DEF HistoryOK
<1>7. \A u \in Nat : U[u] = H[u] \/ \A n \in 1..Len(U[u]) : Grounded(U[u], n, U)
  BY <1>3, <1>5
<1>8. \A c \in Servers : log'[c] = log[c] \/ \A n \in 1..Len(log'[c]) : Grounded(log'[c], n, U)
  BY <1>1, <1>5
<1>9. ASSUME NEW c \in Servers, role'[c] = "LEADER"
      PROVE  log'[c] = U[term'[c]]
  <2>1. CASE c = i
    BY <1>1, <1>3, <2>1
  <2>2. CASE c # i
    <3>1. <<term'[c], c>> \in elected' /\ term'[c] \in Nat
      BY <1>9 DEF ElectInv, LeaderInv, RaftTypes, NodesOK
    <3>2. term'[c] # t
      BY <1>1, <2>2, <3>1 DEF ElectionSafety
    <3>3. log[c] = H[term[c]] /\ log'[c] = log[c] /\ term'[c] = term[c]
      BY <1>9, <2>2 DEF HistoryOK
    <3> QED
      BY <1>3, <3>1, <3>2, <3>3
  <2> QED
    BY <2>1, <2>2
<1>10. HistoryOK(U)'
  BY <1>3, <1>4, <1>6, <1>7, <1>8, <1>9, HistoryFrame
<1> QED
  BY <1>10 DEF LogInv

\* A node that is elected has the only log of its term, which had none.
LEMMA NewTermIsEmpty ==
  ASSUME RaftTypes', ElectionSafety', NEW H, HistoryOK(H), elected \subseteq elected',
         NEW i \in Servers, <<term'[i], i>> \in elected', <<term'[i], i>> \notin elected
  PROVE  H[term'[i]] = <<>>
<1>1. term'[i] \in Nat
  BY DEF RaftTypes, NodesOK
<1>2. \A c \in Servers : <<term'[i], c>> \in elected => c = i
  BY DEF ElectionSafety
<1> QED
  BY <1>1, <1>2 DEF HistoryOK

\* Every step keeps a history.
LEMMA LogStep ==
  ASSUME RaftConstants, RaftTypes, RaftTypes', ElectInv, ElectInv', ElectionSafety', LogInv,
         [RNext]_rvars
  PROVE  LogInv'
<1> USE DEF config, election, entries, leading, client
<1>0. cluster' = cluster /\ cluster \subseteq Servers
  BY ConfigStays DEF RaftTypes, NodesOK
<1>1. PICK H : HistoryOK(H)
  BY DEF LogInv
\* A step after which nobody leads who did not, in its term, before.
<1>2. ASSUME \A c \in Servers : /\ log'[c] = log[c] \/ (/\ role'[c] # "LEADER"
                                                        /\ \A n \in 1..Len(log'[c]) : Grounded(log'[c], n, H))
                                /\ role'[c] = "LEADER" => role[c] = "LEADER" /\ term'[c] = term[c],
             elected' = elected,
             \A m \in network' : m.kind = "append" => m \in network \/ Carried(m.body, H)
      PROVE  LogInv'
  <2>1. H \in Histories /\ \A t \in Nat : H[t] \in Seq(Nat)
    BY <1>1 DEF HistoryOK, Histories
  <2>2. Extends(H, H)
    BY <2>1 DEF Extends
  <2>3. \A t \in Nat : H[t] # <<>> => \E i \in Servers : <<t, i>> \in elected'
    BY <1>1, <1>2 DEF HistoryOK
  <2>4. \A c \in Servers : role'[c] = "LEADER" => log'[c] = H[term'[c]]
    BY <1>1, <1>2 DEF HistoryOK
  <2>5. HistoryOK(H)'
    BY <1>1, <1>2, <2>1, <2>2, <2>3, <2>4, HistoryFrame
  <2> QED
    BY <2>5 DEF LogInv
<1>3. ASSUME UNCHANGED <<term, role, elected, log>>,
             \A m \in network' : m.kind = "append" => m \in network \/ Carried(m.body, H)
      PROVE  LogInv'
  BY <1>2, <1>3
<1>4. ASSUME NEW m \in network, Wedge(m) \/ Ignore(m)
      PROVE  LogInv'
  BY <1>3, <1>4 DEF Wedge, Ignore
<1>5. ASSUME NEW m \in network, StepDown(m.to, m)
      PROVE  LogInv'
  <2>1. CASE Wedge(m)
    BY <1>4, <2>1
  <2>2. CASE ~Wedge(m)
    <3>1. /\ \A c \in Servers : /\ log'[c] = log[c]
                                /\ role'[c] = "LEADER" => role[c] = "LEADER" /\ term'[c] = term[c]
          /\ elected' = elected /\ network' \subseteq network
      BY <1>5, <2>2 DEF StepDown, RaftTypes, NodesOK
    <3> QED
      BY <1>2, <3>1
  <2> QED
    BY <2>1, <2>2
<1>6. ASSUME NEW m \in network, HandleRequestVote(m)
      PROVE  LogInv'
  <2>1. CASE Wedge(m)
    BY <1>4, <2>1
  <2>2. CASE ~Wedge(m)
    <3>1. Vote(m, m.body.term > term[m.to])
      BY <1>6, <2>2 DEF HandleRequestVote
    <3>2. /\ \A c \in Servers : /\ log'[c] = log[c]
                                /\ role'[c] = "LEADER" => role[c] = "LEADER" /\ term'[c] = term[c]
          /\ elected' = elected
      BY <3>1 DEF Vote, RaftTypes, NodesOK
    <3>3. PICK y : network' \subseteq network \union {y} /\ y.kind = "voted"
      BY <3>1, VoteSends
    <3> QED
      BY <1>2, <3>2, <3>3
  <2> QED
    BY <2>1, <2>2
<1>7. ASSUME NEW m \in network, HandleRequestVoteReply(m)
      PROVE  LogInv'
  <2> DEFINE i == m.to
  <2>1. CASE Ignore(m)
    BY <1>4, <2>1
  <2>2. CASE StepDown(i, m)
    BY <1>5, <2>2
  <2>3. CASE UNCHANGED <<role, elected, term, log>> /\ network' = network \ {m}
    BY <1>3, <2>3
  <2>4. CASE /\ role[i] = "CANDIDATE" /\ BecomeLeader(i, term[i])
             /\ network' = network \ {m} /\ UNCHANGED <<term, log>>
    <3>1. i \in Servers
      BY <1>0 DEF RaftTypes, MessagesOK, MessageOK
    <3>2. /\ role'[i] = "LEADER" /\ elected' = elected \union {<<term'[i], i>>}
          /\ \A c \in Servers : c # i => role'[c] = role[c]
      BY <2>4, <3>1 DEF BecomeLeader, RaftTypes, NodesOK
    <3>3. <<term'[i], i>> \notin elected
      BY <2>4, <3>1 DEF ElectInv, LeaderInv
    <3>4. H[term'[i]] = <<>>
      BY <1>1, <3>1, <3>2, <3>3, NewTermIsEmpty
    <3>5. log'[i] = log[i] /\ log[i] \in Seq(Nat)
      BY <2>4, <3>1 DEF RaftTypes, NodesOK
    <3>6. /\ \A n \in 1..Len(H[term'[i]]) : log'[i][n] = H[term'[i]][n]
          /\ Len(H[term'[i]]) <= Len(log'[i])
      BY <3>4, <3>5
    <3>7. \A n \in 1..Len(log'[i]) : n \in 1..Len(log[i]) /\ \A l \in 1..n : log'[i][l] = log[i][l]
      BY <3>5
    <3>8. \A c \in Servers : c # i => /\ log'[c] = log[c]
                                      /\ role'[c] = "LEADER" => role[c] = "LEADER" /\ term'[c] = term[c]
      BY <2>4, <3>2
    <3>9. elected \subseteq elected' /\ <<term'[i], i>> \in elected'
          /\ \A x \in network' : x.kind = "append" => x \in network
      BY <2>4, <3>2
    <3> HIDE DEF i
    <3> QED
      BY <1>1, <3>1, <3>2, <3>6, <3>7, <3>8, <3>9, HistoryGrows
  <2> QED
    BY <1>7, <2>1, <2>2, <2>3, <2>4 DEF HandleRequestVoteReply, Stale
<1>8. ASSUME NEW m \in network, HandleAppendEntries(m)
      PROVE  LogInv'
  <2> DEFINE i == m.to
  <2>1. i \in Servers /\ m.body.term \in Nat /\ term[i] \in Nat
    BY <1>0 DEF RaftTypes, NodesOK, MessagesOK, MessageOK
  <2>2. PICK y : network' \subseteq network \union {y} /\ y.kind = "appended"
    BY <1>8, AppendSends
  <2>3. /\ \A c \in Servers : role'[c] = "LEADER" => role[c] = "LEADER" /\ term'[c] = term[c]
        /\ ~(m.body.term < term[i]) => role'[i] # "LEADER"
        /\ elected' = elected
    <3>1. CASE m.body.term < term[i]
      BY <1>8, <3>1 DEF HandleAppendEntries
    <3>2. CASE ~(m.body.term < term[i])
      BY <1>8, <2>1, <3>2 DEF HandleAppendEntries, RaftTypes, NodesOK
    <3> QED
      BY <3>1, <3>2
  <2>4. /\ \A c \in Servers : c # i => log'[c] = log[c]
        /\ log'[i] = NewLog(m)
    BY <1>8, <2>1, NewLogOK, ZenonT(60) DEF RaftTypes, NodesOK
  <2>5. log'[i] = log[i] \/ (role'[i] # "LEADER" /\ \A n \in 1..Len(log'[i]) : Grounded(log'[i], n, H))
    <3>1. NewLog(m) # log[i] => ~(m.body.term < term[i])
      BY DEF NewLog
    <3> QED
      BY <1>1, <1>8, <2>3, <2>4, <3>1, NewLogGrounded
  <2> QED
    BY <1>2, <2>2, <2>3, <2>4, <2>5
<1>9. ASSUME NEW m \in network, HandleAppendEntriesReply(m)
      PROVE  LogInv'
  <2> DEFINE i == m.to
             lower == Max({1, nextIndex[i][m.from] - 1})
  <2>1. CASE Ignore(m)
    BY <1>4, <2>1
  <2>2. CASE StepDown(i, m)
    BY <1>5, <2>2
  <2>3. CASE UNCHANGED <<election, log>> /\ network' = network \ {m}
    BY <1>3, <2>3
  <2>4. CASE /\ role[i] = "LEADER" /\ UNCHANGED <<election, log>>
             /\ Send(network \ {m}, {AppendTo(i, m.from, lower)})
    <3>1. i \in cluster /\ m.from \in cluster \ {i} /\ i \in Servers
      BY <1>0 DEF RaftTypes, MessagesOK, MessageOK
    <3>2. lower \in Nat \ {0}
      BY <2>4, <3>1, LowerOK DEF RaftTypes, NodesOK
    <3>3. Carried(AppendTo(i, m.from, lower).body, H)
      BY <1>1, <3>1, <3>2, AppendCarries
    <3>4. \A x \in network' : x \in network \/ x = AppendTo(i, m.from, lower)
      BY <2>4, SendAdds
    <3> HIDE DEF lower
    <3> QED
      BY <1>3, <2>4, <3>3, <3>4
  <2> QED
    BY <1>9, <2>1, <2>2, <2>3, <2>4 DEF HandleAppendEntriesReply
<1>10. ASSUME NEW i \in cluster, NEW j \in cluster, Heartbeat(i, j)
       PROVE  LogInv'
  <2> DEFINE a == AppendTo(i, j, nextIndex[i][j])
  <2>1. j \in cluster \ {i} /\ nextIndex[i][j] \in Nat \ {0}
    BY <1>10, ZenonT(60) DEF Heartbeat, RaftTypes, NodesOK
  <2>2. Carried(a.body, H)
    BY <1>1, <2>1, AppendCarries
  <2>3. \A x \in network' : x \in network \/ x = a
    BY <1>10, SendAdds DEF Heartbeat
  <2>4. UNCHANGED <<term, role, elected, log>>
    BY <1>10 DEF Heartbeat
  <2> HIDE DEF a
  <2> QED
    BY <1>3, <2>2, <2>3, <2>4
<1>11. ASSUME NEW i \in cluster, StartElection(i)
       PROVE  LogInv'
  <2> DEFINE t == term[i] + 1
  <2>1. i \in Servers /\ term[i] \in Nat /\ log[i] \in Seq(Nat)
    BY <1>0 DEF RaftTypes, NodesOK
  <2>2. /\ term'[i] = t /\ log' = log
        /\ \A c \in Servers : c # i => term'[c] = term[c]
    BY <1>11, <2>1 DEF StartElection, RaftTypes, NodesOK
  <2>3. \A m \in network' : m.kind = "append" => m \in network
    <3>1. PICK b : Send(network, Requests(i, "vote", b))
      BY <1>11 DEF StartElection
    <3>2. \A m \in Requests(i, "vote", b) : m.kind = "vote"
      BY DEF Requests
    <3> QED
      BY <3>1, <3>2, SendAdds
  <2>4. CASE role' = [role EXCEPT ![i] = "CANDIDATE"] /\ elected' = elected
    <3>1. \A c \in Servers : role'[c] = "LEADER" => role[c] = "LEADER" /\ term'[c] = term[c]
      BY <2>1, <2>2, <2>4 DEF RaftTypes, NodesOK
    <3> QED
      BY <1>2, <2>2, <2>3, <2>4, <3>1
  <2>5. CASE BecomeLeader(i, t)
    <3>1. /\ role'[i] = "LEADER" /\ elected' = elected \union {<<term'[i], i>>}
          /\ \A c \in Servers : c # i => role'[c] = role[c]
      BY <2>1, <2>2, <2>5 DEF BecomeLeader, RaftTypes, NodesOK
    <3>2. <<term'[i], i>> \notin elected
      BY <2>1, <2>2 DEF ElectInv, LeaderInv
    <3>3. H[term'[i]] = <<>>
      BY <1>1, <2>1, <3>1, <3>2, NewTermIsEmpty
    <3>4. /\ \A n \in 1..Len(H[term'[i]]) : log'[i][n] = H[term'[i]][n]
          /\ Len(H[term'[i]]) <= Len(log'[i])
      BY <2>1, <2>2, <3>3
    <3>5. \A n \in 1..Len(log'[i]) : n \in 1..Len(log[i]) /\ \A l \in 1..n : log'[i][l] = log[i][l]
      BY <2>2
    <3>6. \A c \in Servers : c # i => /\ log'[c] = log[c]
                                      /\ role'[c] = "LEADER" => role[c] = "LEADER" /\ term'[c] = term[c]
      BY <2>2, <3>1
    <3>7. elected \subseteq elected' /\ <<term'[i], i>> \in elected'
      BY <3>1
    <3> QED
      BY <1>1, <2>1, <2>3, <3>1, <3>4, <3>5, <3>6, <3>7, HistoryGrows
  <2> QED
    BY <1>11, <2>4, <2>5 DEF StartElection
<1>12. ASSUME NEW i \in cluster, ClientRequest(i)
       PROVE  LogInv'
  <2>1. i \in Servers /\ log[i] \in Seq(Nat) /\ term[i] \in Nat
    BY <1>0 DEF RaftTypes, NodesOK
  <2>2. /\ role[i] = "LEADER" /\ UNCHANGED <<term, role, elected, network>>
        /\ log'[i] = Append(log[i], term[i])
        /\ \A c \in Servers : c # i => log'[c] = log[c]
    BY <1>12, <2>1 DEF ClientRequest, RaftTypes, NodesOK
  <2>3. log[i] = H[term'[i]] /\ <<term'[i], i>> \in elected'
    BY <1>1, <2>1, <2>2 DEF HistoryOK, ElectInv, LeaderInv
  <2>4. PICK o \in Seq(Nat), v \in Nat : o = log[i] /\ v = term'[i] /\ log'[i] = Append(o, v)
    BY <2>1, <2>2
  <2>5. /\ \A n \in 1..Len(o) : Append(o, v)[n] = o[n]
        /\ Len(o) <= Len(Append(o, v))
        /\ \A n \in 1..Len(Append(o, v)) :
             Append(o, v)[n] = v \/ (n \in 1..Len(o) /\ \A l \in 1..n : Append(o, v)[l] = o[l])
    OBVIOUS
  <2>6. \A n \in 1..Len(log'[i]) : \/ log'[i][n] = term'[i]
                                   \/ n \in 1..Len(log[i]) /\ \A l \in 1..n : log'[i][l] = log[i][l]
    BY <2>4, <2>5
  <2>7. /\ \A n \in 1..Len(H[term'[i]]) : log'[i][n] = H[term'[i]][n]
        /\ Len(H[term'[i]]) <= Len(log'[i])
    BY <2>3, <2>4, <2>5
  <2> QED
    BY <1>1, <2>1, <2>2, <2>3, <2>6, <2>7, HistoryGrows
<1>13. ASSUME \/ \E i \in cluster : ClientAnswer(i) \/ ApplyCommittedEntries(i)
              \/ UNCHANGED rvars
       PROVE  LogInv'
  BY <1>3, <1>13 DEF ClientAnswer, ApplyCommittedEntries, rvars
<1> QED
  BY <1>6, <1>7, <1>8, <1>9, <1>10, <1>11, <1>12, <1>13 DEF RNext, Receive

\* At most one leader in a term, and two logs that have an entry of the same
\* term at an index agree up to it, in a cluster of any size over a network
\* that loses and reorders: the entries that append_log_entries replaces and
\* the ones it keeps always belong together.
THEOREM RaftIsSafe ==
  ASSUME RaftConstants
  PROVE  RSpec => []RaftSafety
<1>1. RInit => LogInv
  <2> SUFFICES ASSUME RInit PROVE LogInv
    OBVIOUS
  <2> DEFINE H == [t \in Nat |-> <<>>]
  <2>1. H \in Histories /\ \A t \in Nat : H[t] = <<>>
    BY DEF Histories
  <2> HIDE DEF H
  <2>2. HistoryOK(H)
    BY <2>1 DEF RInit, HistoryOK
  <2> QED
    BY <2>2 DEF LogInv
<1>2. RaftTypes /\ RaftTypes' /\ ElectInv /\ ElectInv' /\ ElectionSafety' /\ LogInv
        /\ [RNext]_rvars => LogInv'
  BY LogStep
<1>3. RaftTypes /\ ElectionSafety /\ LogInv => RaftSafety
  <2> SUFFICES ASSUME RaftTypes, ElectionSafety, LogInv PROVE RaftSafety
    OBVIOUS
  <2>1. RTypeOK
    BY DEF RaftTypes, NodesOK, RTypeOK, LastIndex
  <2>2. LogMatching
    BY HistoryMatches DEF LogInv
  <2> QED
    BY <2>1, <2>2 DEF RaftSafety
<1> QED
  BY <1>1, <1>2, <1>3, TypesHold, ElectHolds, OneLeaderPerTerm, PTL DEF RSpec

(***************************************************************************)
(* Checkpoints.  Files and list tell the same: what is listed was read     *)
(* from a metadata file or has just been written to one, ids and times     *)
(* grow together, and a checkpoint that was reported and not given up has  *)
(* both its files.                                                         *)
(***************************************************************************)
CheckpointInfo == [id : Nat, lsn : Nat, time : Nat, crc : Nat,
                   status : {"CREATING", "COMPLETED", "CORRUPTED"}]

\* What a checkpoint says of itself: it was created by now, and what it captured
\* holds the writes up to its LSN.
SoundInfo(c) ==
  /\ c \in CheckpointInfo /\ c.id \in 1..ids /\ c.time \in 1..now
  /\ c.status = "COMPLETED" => c.lsn <= c.crc

\* A list entry is what its metadata file says, or was found corrupted since.
OfFile(c) ==
  /\ c.id \in DOMAIN metas \ pruning
  /\ c = metas[c.id] \/ c = [metas[c.id] EXCEPT !.status = "CORRUPTED"]

\* The checkpoint under way is the newest.
MakingInv ==
  \/ making = K!NoInfo
  \/ /\ making \in CheckpointInfo /\ making.id = ids /\ making.time = now
     /\ ids >= 1 /\ now >= 1
     /\ \A i \in DOMAIN metas : i # ids /\ metas[i].time < now
     /\ pruning = {} /\ up
     /\ \/ making.status = "CREATING" /\ making.lsn <= db
        \/ /\ making.status = "COMPLETED" /\ making.lsn <= making.crc
           /\ ids \in DOMAIN images /\ images[ids] = making.crc

MetaInv ==
  /\ db \in Nat /\ now \in Nat /\ ids \in Nat
  /\ \A i \in DOMAIN metas : SoundInfo(metas[i]) /\ metas[i].id = i
  /\ \A i, j \in DOMAIN metas : metas[i].time = metas[j].time => i = j

ListInv ==
  /\ list \in Seq(CheckpointInfo)
  /\ \A p \in DOMAIN list : OfFile(list[p])
  /\ \A p, q \in DOMAIN list : list[p].id = list[q].id => p = q
  /\ ~up => list = <<>> /\ making = K!NoInfo /\ pruning = {}

KeptInv ==
  \A i \in kept :
    /\ i \in DOMAIN metas \ pruning /\ metas[i].status = "COMPLETED"
    /\ i \in DOMAIN images /\ images[i] = metas[i].crc
    /\ up => \E p \in DOMAIN list : list[p] = metas[i]

CheckpointInv == MetaInv /\ MakingInv /\ ListInv /\ KeptInv

-----------------------------------------------------------------------------
\* The operators that the manager takes from the libraries.
LEMMA SameInCheckpoints ==
  /\ \A S : K!Cardinality(S) = Cardinality(S)
  /\ \A S, n : K!Nth(S, n) = Nth(S, n)
  /\ \A s, S : K!Select(s, S) = Select(s, S)
  /\ \A f : K!Range(f) = Range(f)
<1>1. \A S : K!Cardinality(S) = Cardinality(S)
  BY DEF K!Cardinality, Cardinality
<1>2. ASSUME NEW S, NEW n PROVE K!Nth(S, n) = Nth(S, n)
  BY <1>1 DEF K!Nth, Nth
<1>3. ASSUME NEW s, NEW S PROVE K!Select(s, S) = Select(s, S)
  BY <1>1, <1>2 DEF K!Select, Select, K!Selection, Selection
<1>4. ASSUME NEW f PROVE K!Range(f) = Range(f)
  BY DEF K!Range, Range
<1> QED
  BY <1>1, <1>2, <1>3, <1>4

\* b holds the checkpoints of S, newest first.
NewestFirst(b, S) ==
  /\ b \in Seq(S)
  /\ \A c \in S : \E p \in DOMAIN b : b[p] = c
  /\ \A p, q \in DOMAIN b : p < q => b[p].time > b[q].time

\* Sorting by time finds every checkpoint a place.
LEMMA ByAgeSorts ==
  ASSUME NEW t \in Nat, NEW S, \A c \in S : c.time \in 1..t,
         \A c, d \in S : c.time = d.time => c = d
  PROVE  /\ NewestFirst(K!ByAge(S), S)
         /\ Len(K!ByAge(S)) = Cardinality(K!Times(S))
<1> DEFINE R == K!Times(S)
           z == Cardinality(R)
           b == K!ByAge(S)
<1>1. R \in SUBSET (1..t) /\ (\A c \in S : c.time \in R) /\ \A x \in R : \E c \in S : c.time = x
  BY DEF K!Times
<1>2. b = [n \in 1..z |-> CHOOSE c \in S : c.time = Nth(R, z + 1 - n)]
  BY SameInCheckpoints DEF K!ByAge
<1> HIDE DEF R, b
<1>3. /\ z \in 0..t
      /\ \A m \in 1..z : Nth(R, m) \in R
      /\ \A l, m \in 1..z : l < m => Nth(R, l) < Nth(R, m)
      /\ \A x \in R : \E m \in 1..z : x = Nth(R, m)
  BY <1>1, NthFacts
<1> HIDE DEF z
<1>4. z \in Nat /\ \A n \in 1..z : z + 1 - n \in 1..z
  BY <1>3
<1>5. ASSUME NEW n \in 1..z PROVE b[n] \in S /\ b[n].time = Nth(R, z + 1 - n)
  <2>1. \E c \in S : c.time = Nth(R, z + 1 - n)
    BY <1>1, <1>3, <1>4
  <2> QED
    BY <1>2, <2>1
<1>6. b \in Seq(S) /\ Len(b) = z /\ DOMAIN b = 1..z
  <2> DEFINE at(n) == CHOOSE c \in S : c.time = Nth(R, z + 1 - n)
  <2>1. b = [n \in 1..z |-> at(n)]
    BY <1>2
  <2> HIDE DEF at
  <2>2. b \in [1..z -> S]
    BY <1>5, <2>1
  <2> QED
    BY <1>4, <2>2
<1>7. ASSUME NEW c \in S PROVE \E p \in DOMAIN b : b[p] = c
  <2>1. PICK m \in 1..z : c.time = Nth(R, m)
    BY <1>1, <1>3
  <2>2. z + 1 - m \in 1..z /\ z + 1 - (z + 1 - m) = m
    BY <1>4
  <2>3. b[z + 1 - m] \in S /\ b[z + 1 - m].time = c.time
    BY <1>5, <2>1, <2>2
  <2> QED
    BY <1>6, <2>2, <2>3
<1>8. ASSUME NEW p \in DOMAIN b, NEW q \in DOMAIN b, p < q PROVE b[p].time > b[q].time
  <2>1. /\ p \in 1..z /\ q \in 1..z /\ z + 1 - p \in 1..z /\ z + 1 - q \in 1..z
        /\ z + 1 - q < z + 1 - p
    BY <1>4, <1>6, <1>8
  <2>2. Nth(R, z + 1 - q) < Nth(R, z + 1 - p) /\ Nth(R, z + 1 - q) \in 1..t /\ Nth(R, z + 1 - p) \in 1..t
    BY <1>1, <1>3, <2>1
  <2> QED
    BY <1>5, <2>1, <2>2
<1> QED
  BY <1>6, <1>7, <1>8 DEF NewestFirst, z, b, R

\* No two of s were created at one time.
DistinctTimes(s) == \A p, q \in DOMAIN s : s[p].time = s[q].time => p = q

\* There are as many times as checkpoints.
LEMMA TimesCounted ==
  ASSUME NEW E, NEW s \in Seq(E), DistinctTimes(s)
  PROVE  Cardinality(K!Times(Range(s))) = Len(s)
<1> DEFINE n == Len(s)
           R == K!Times(Range(s))
           f == [i \in 1..n |-> s[i].time]
<1>1. n \in Nat /\ DOMAIN s = 1..n
  OBVIOUS
<1>2. R = {s[i].time : i \in 1..n}
  BY <1>1 DEF K!Times, Range
<1>3. IsFiniteSet(1..n) /\ Cardinality(1..n) = n
  <2>1. 1 \in Int /\ n \in Int
    BY <1>1
  <2> HIDE DEF n
  <2>2. IsFiniteSet(1..n) /\ Cardinality(1..n) = IF 1 > n THEN 0 ELSE n - 1 + 1
    BY <2>1, FS_Interval
  <2> QED
    BY <1>1, <2>2
<1> HIDE DEF R
<1>4. f \in [1..n -> R] /\ \A r \in R : \E i \in 1..n : f[i] = r
  BY <1>2
<1>5. \A i, j \in 1..n : f[i] = f[j] => i = j
  BY <1>1 DEF DistinctTimes
<1> HIDE DEF f
<1>6. f \in Bijection(1..n, R)
  BY <1>4, <1>5 DEF Bijection, Injection, Surjection, IsInjective
<1>7. ExistsBijection(1..n, R)
  BY <1>6 DEF ExistsBijection
<1> HIDE DEF n
<1>8. Cardinality(R) = Cardinality(1..n)
  BY <1>3, <1>7, FS_Bijection
<1> QED
  BY <1>3, <1>8 DEF R, n

\* r parts s into what is kept, each once, and what goes, which is older.
Parts(r, s) ==
  /\ r.keep \in Seq(CheckpointInfo)
  /\ \A p \in DOMAIN r.keep : \E q \in DOMAIN s : r.keep[p] = s[q]
  /\ DistinctTimes(r.keep)
  /\ \A c \in r.gone : /\ \E q \in DOMAIN s : c = s[q]
                       /\ \A p \in DOMAIN r.keep : c.time < r.keep[p].time
                       /\ \E q \in DOMAIN s : c.time < s[q].time
  /\ \A q \in DOMAIN s : s[q] \in r.gone \/ \E p \in DOMAIN r.keep : r.keep[p] = s[q]

\* Pruning parts the list, the newest stay.
LEMMA PruningParts ==
  ASSUME NEW t \in Nat, NEW s \in Seq(CheckpointInfo), DistinctTimes(s),
         \A p \in DOMAIN s : s[p].time \in 1..t
  PROVE  Parts(K!Pruned(s), s)
<1> DEFINE S == Range(s)
           b == K!ByAge(S)
           n == Len(s)
<1>1. n \in Nat /\ DOMAIN s = 1..n /\ \A p \in 1..n : s[p] \in CheckpointInfo /\ s[p].time \in Nat
  <2>1. n \in Nat /\ DOMAIN s = 1..n /\ \A p \in 1..n : s[p] \in CheckpointInfo
    OBVIOUS
  <2> QED
    BY <2>1 DEF CheckpointInfo
<1>2. \A p \in DOMAIN s : s[p] \in S
  BY DEF Range
<1>3. \A c \in S : \E p \in DOMAIN s : s[p] = c
  BY DEF Range
<1>4. \A c \in S : c.time \in 1..t
  BY <1>3
<1>5. \A c, d \in S : c.time = d.time => c = d
  BY <1>3 DEF DistinctTimes
<1>6. CASE MaxKeep = 0 \/ n <= MaxKeep
  <2>1. K!Pruned(s) = [keep |-> s, gone |-> {}]
    BY <1>6 DEF K!Pruned
  <2> QED
    BY <2>1 DEF Parts
<1>7. CASE ~(MaxKeep = 0 \/ n <= MaxKeep)
  <2>1. K!Pruned(s) = [keep |-> [i \in 1..MaxKeep |-> b[i]], gone |-> {b[i] : i \in (MaxKeep + 1)..n}]
    BY <1>7, SameInCheckpoints DEF K!Pruned
  <2> HIDE DEF S
  <2>2. NewestFirst(b, S) /\ Len(b) = Cardinality(K!Times(S))
    BY <1>4, <1>5, ByAgeSorts
  <2>3. Cardinality(K!Times(S)) = n
    BY TimesCounted DEF S
  <2> HIDE DEF b, n
  <2>4. /\ b \in Seq(S) /\ DOMAIN b = 1..n
        /\ \A c \in S : \E p \in 1..n : b[p] = c
        /\ \A p, q \in 1..n : p < q => b[p].time > b[q].time
        /\ \A p \in 1..n : b[p] \in S
    <3>1. b \in Seq(S) /\ Len(b) = n
      BY <2>2, <2>3 DEF NewestFirst
    <3>2. DOMAIN b = 1..n
      BY <3>1
    <3>3. \A p \in 1..n : b[p] \in S
      BY <3>1, <3>2, ElementOfSeq
    <3> QED
      BY <2>2, <3>1, <3>2, <3>3 DEF NewestFirst
  <2>5. MaxKeep \in 1..n /\ MaxKeep < n
    BY <1>1, <1>7, LogBounds
  <2>6. \A p \in 1..n : b[p] \in CheckpointInfo /\ b[p].time \in Nat /\ \E q \in DOMAIN s : b[p] = s[q]
    BY <1>1, <1>3, <2>4
  <2>7. PICK k : k = [i \in 1..MaxKeep |-> b[i]]
    OBVIOUS
  <2>8. k \in Seq(CheckpointInfo) /\ DOMAIN k = 1..MaxKeep /\ \A i \in 1..MaxKeep : i \in 1..n /\ k[i] = b[i]
    BY <1>1, <2>5, <2>6, <2>7
  <2>9. PICK g : g = {b[i] : i \in (MaxKeep + 1)..n}
    OBVIOUS
  <2>10. K!Pruned(s).keep = k /\ K!Pruned(s).gone = g
    BY <2>1, <2>7, <2>9
  <2>11. \A p \in DOMAIN k : \E q \in DOMAIN s : k[p] = s[q]
    BY <2>6, <2>8
  <2>12. DistinctTimes(k)
    <3> SUFFICES ASSUME NEW p \in 1..MaxKeep, NEW q \in 1..MaxKeep, k[p].time = k[q].time, p # q PROVE FALSE
      BY <2>8 DEF DistinctTimes
    <3>1. p \in 1..n /\ q \in 1..n /\ b[p].time = b[q].time /\ (p < q \/ q < p)
      BY <2>8
    <3> QED
      BY <2>4, <2>6, <3>1
  <2>13. ASSUME NEW c \in g
         PROVE  /\ \E q \in DOMAIN s : c = s[q]
                /\ \A p \in DOMAIN k : c.time < k[p].time
                /\ \E q \in DOMAIN s : c.time < s[q].time
    <3>1. PICK i \in (MaxKeep + 1)..n : c = b[i]
      BY <2>9
    <3>2. i \in 1..n /\ \A p \in 1..MaxKeep : p < i
      BY <1>1, <2>5
    <3>3. \A p \in DOMAIN k : c.time < k[p].time
      BY <2>4, <2>8, <3>1, <3>2
    <3>4. 1 \in DOMAIN k
      BY <2>5, <2>8
    <3> QED
      BY <2>6, <2>11, <3>1, <3>2, <3>3, <3>4
  <2>14. ASSUME NEW q \in DOMAIN s PROVE s[q] \in g \/ \E p \in DOMAIN k : k[p] = s[q]
    <3>1. PICK p \in 1..n : b[p] = s[q]
      BY <1>2, <2>4
    <3>2. p \in 1..MaxKeep \/ p \in (MaxKeep + 1)..n
      BY <1>1, <2>5
    <3> QED
      BY <2>8, <2>9, <3>1, <3>2
  <2> QED
    BY <2>8, <2>10, <2>11, <2>12, <2>13, <2>14 DEF Parts
<1> QED
  BY <1>6, <1>7

\* The placeholder is no checkpoint.
LEMMA NoInfoIsNone ==
  ASSUME making = K!NoInfo
  PROVE  making.status = "NONE" /\ making.id = 0
BY DEF K!NoInfo

\* A checkpoint under way.
LEMMA UnderWay ==
  ASSUME MakingInv, making.status \in {"CREATING", "COMPLETED"}
  PROVE  /\ making \in CheckpointInfo /\ making.id = ids /\ making.time = now
         /\ ids >= 1 /\ now >= 1 /\ pruning = {} /\ up
         /\ \A i \in DOMAIN metas : i # ids /\ metas[i].time < now
         /\ making.status = "CREATING" => making.lsn <= db
         /\ making.status = "COMPLETED" => /\ making.lsn <= making.crc
                                          /\ ids \in DOMAIN images /\ images[ids] = making.crc
BY NoInfoIsNone DEF MakingInv

\* A step that leaves the files' metadata and the list alone.
LEMMA ListStays ==
  ASSUME MetaInv, ListInv, UNCHANGED <<metas, list>>,
         ids' \in Nat, now' \in Nat, db' \in Nat, ids <= ids', now <= now',
         pruning' \subseteq pruning,
         ~up' => list' = <<>> /\ making' = K!NoInfo /\ pruning' = {}
  PROVE  MetaInv' /\ ListInv'
<1>1. ASSUME NEW c, SoundInfo(c) PROVE SoundInfo(c)'
  BY <1>1 DEF SoundInfo, MetaInv
<1>2. MetaInv'
  BY <1>1 DEF MetaInv
<1>3. ASSUME NEW c, OfFile(c) PROVE OfFile(c)'
  BY <1>3 DEF OfFile
<1> QED
  BY <1>2, <1>3 DEF ListInv

\* What starts a checkpoint.
LEMMA CreateBegins ==
  ASSUME CheckpointInv, K!Idle, ids' = ids + 1, now' = now + 1,
         making' = [id |-> ids + 1, lsn |-> db, time |-> now + 1, crc |-> 0, status |-> "CREATING"],
         UNCHANGED <<db, images, metas, list, pruning, up, stuck, kept>>
  PROVE  CheckpointInv'
<1>1. ids \in Nat /\ now \in Nat /\ db \in Nat
  BY DEF CheckpointInv, MetaInv
<1>2. MetaInv' /\ ListInv'
  BY <1>1, ListStays DEF CheckpointInv, K!Idle
<1>3. making' \in CheckpointInfo
  BY <1>1 DEF CheckpointInfo
<1>4. \A i \in DOMAIN metas : i \in 1..ids /\ metas[i].time \in 1..now
  BY DEF CheckpointInv, MetaInv, SoundInfo
<1>5. MakingInv'
  BY <1>1, <1>3, <1>4 DEF MakingInv, K!Idle
<1> QED
  BY <1>2, <1>5 DEF CheckpointInv, KeptInv

\* A metadata file is written for the newest id.
LEMMA FileWritten ==
  ASSUME MetaInv, NEW c, SoundInfo(c), c.id = ids, c.time = now,
         \A i \in DOMAIN metas : i # ids /\ metas[i].time < now,
         metas' = K!Put(metas, ids, c), UNCHANGED <<db, now, ids>>
  PROVE  /\ MetaInv'
         /\ DOMAIN metas' = DOMAIN metas \cup {ids} /\ metas'[ids] = c
         /\ \A i \in DOMAIN metas : i \in DOMAIN metas' /\ metas'[i] = metas[i]
<1>1. /\ DOMAIN metas' = DOMAIN metas \cup {ids} /\ metas'[ids] = c
      /\ \A i \in DOMAIN metas : i \in DOMAIN metas' /\ metas'[i] = metas[i]
  BY DEF K!Put
<1>2. ASSUME NEW i, i \in DOMAIN metas' PROVE (SoundInfo(metas[i]))' /\ metas'[i].id = i
  <2>1. CASE i = ids
    BY <1>1, <2>1 DEF SoundInfo
  <2>2. CASE i # ids
    BY <1>1, <1>2, <2>2 DEF MetaInv, SoundInfo
  <2> QED
    BY <2>1, <2>2
<1>3. ASSUME NEW i \in DOMAIN metas PROVE metas[i].time # now
  <2>1. metas[i].time \in 1..now /\ metas[i].time < now /\ now \in Nat
    BY DEF MetaInv, SoundInfo
  <2> QED
    BY <2>1
<1>4. \A i, j \in DOMAIN metas' : metas'[i].time = metas'[j].time => i = j
  BY <1>1, <1>3 DEF MetaInv
<1> QED
  BY <1>1, <1>2, <1>4 DEF MetaInv

\* The checkpoints of s are those of files f, each once.
Listed(s, f) ==
  /\ \A p \in DOMAIN s : /\ s[p].id \in DOMAIN f
                         /\ s[p] = f[s[p].id] \/ s[p] = [f[s[p].id] EXCEPT !.status = "CORRUPTED"]
  /\ \A p, q \in DOMAIN s : s[p].id = s[q].id => p = q

\* Their times are those of the files.
LEMMA ListedTimes ==
  ASSUME MetaInv', now' = now, NEW s \in Seq(CheckpointInfo), Listed(s, metas')
  PROVE  DistinctTimes(s) /\ \A p \in DOMAIN s : s[p].time \in 1..now
<1>1. ASSUME NEW p \in DOMAIN s
      PROVE  /\ s[p].id \in DOMAIN metas' /\ s[p].time = metas'[s[p].id].time
             /\ s[p].time \in 1..now
  <2>1. s[p].id \in DOMAIN metas' /\ metas'[s[p].id] \in CheckpointInfo /\ metas'[s[p].id].time \in 1..now
    BY DEF Listed, MetaInv, SoundInfo
  <2>2. s[p] = metas'[s[p].id] \/ s[p] = [metas'[s[p].id] EXCEPT !.status = "CORRUPTED"]
    BY DEF Listed
  <2>3. PICK c \in CheckpointInfo : c = metas'[s[p].id]
    BY <2>1
  <2>4. s[p].time = c.time
    BY <2>2, <2>3 DEF CheckpointInfo
  <2> QED
    BY <2>1, <2>3, <2>4
<1>2. ASSUME NEW p \in DOMAIN s, NEW q \in DOMAIN s, s[p].time = s[q].time PROVE p = q
  <2>1. s[p].id = s[q].id
    BY <1>1, <1>2 DEF MetaInv
  <2> QED
    BY <2>1 DEF Listed
<1> QED
  BY <1>1, <1>2 DEF DistinctTimes

\* Nothing but a lock moved.
LEMMA CheckpointStutters ==
  ASSUME CheckpointInv, UNCHANGED <<db, now, ids, images, metas, list, making, pruning, up, kept>>
  PROVE  CheckpointInv'
<1>1. ASSUME NEW i, i \in DOMAIN metas' PROVE (SoundInfo(metas[i]))'
  BY <1>1 DEF CheckpointInv, MetaInv, SoundInfo
<1>2. ASSUME NEW p, p \in DOMAIN list' PROVE (OfFile(list[p]))'
  BY <1>2 DEF CheckpointInv, ListInv, OfFile
<1>3. MetaInv' /\ MakingInv'
  BY <1>1 DEF CheckpointInv, MetaInv, MakingInv
<1>4. ListInv' /\ KeptInv'
  BY <1>2 DEF CheckpointInv, ListInv, KeptInv
<1> QED
  BY <1>3, <1>4 DEF CheckpointInv

\* How create_checkpoint ends: s is the list with the new checkpoint, r its pruning.
LEMMA Finishing ==
  ASSUME CheckpointInv, K!FinishCreate,
         NEW s, s = Append(list, making), NEW r, r = K!Pruned(s)
  PROVE  /\ making.status = "COMPLETED"
         /\ making \in CheckpointInfo /\ making.id = ids /\ making.time = now
         /\ ids >= 1 /\ now >= 1 /\ pruning = {} /\ up
         /\ \A i \in DOMAIN metas : i # ids /\ metas[i].time < now
         /\ making.lsn <= making.crc /\ ids \in DOMAIN images /\ images[ids] = making.crc
         /\ metas' = K!Put(metas, ids, making)
         /\ list' = r.keep
         /\ pruning' = {c.id : c \in r.gone}
         /\ kept' = (kept \union {ids}) \ {c.id : c \in r.gone}
         /\ making' = K!NoInfo
         /\ UNCHANGED <<db, now, ids, images, up, stuck>>
         /\ MetaInv'
         /\ DOMAIN metas' = DOMAIN metas \cup {ids} /\ metas'[ids] = making
         /\ \A i \in DOMAIN metas : i \in DOMAIN metas' /\ metas'[i] = metas[i]
         /\ s \in Seq(CheckpointInfo) /\ Listed(s, metas')
         /\ \A p \in DOMAIN list : p \in DOMAIN s /\ s[p] = list[p]
         /\ Len(list) + 1 \in DOMAIN s /\ s[Len(list) + 1] = making
         /\ DistinctTimes(s) /\ \A p \in DOMAIN s : s[p].time \in 1..now
         /\ Parts(r, s)
<1>1. ids \in Nat /\ now \in Nat /\ db \in Nat
  BY DEF CheckpointInv, MetaInv
<1>2. MetaInv /\ MakingInv /\ ListInv /\ KeptInv
  BY DEF CheckpointInv
<1>3. making.status = "COMPLETED"
  BY DEF K!FinishCreate
<1>4. /\ making \in CheckpointInfo /\ making.id = ids /\ making.time = now
      /\ ids >= 1 /\ now >= 1 /\ pruning = {} /\ up
      /\ \A i \in DOMAIN metas : i # ids /\ metas[i].time < now
      /\ making.lsn <= making.crc /\ ids \in DOMAIN images /\ images[ids] = making.crc
  BY <1>2, <1>3, UnderWay
<1>5. SoundInfo(making)
  BY <1>1, <1>4 DEF SoundInfo
<1>6. /\ metas' = K!Put(metas, ids, making)
      /\ list' = r.keep
      /\ pruning' = {c.id : c \in r.gone}
      /\ kept' = (kept \union {ids}) \ {c.id : c \in r.gone}
      /\ making' = K!NoInfo
      /\ UNCHANGED <<db, now, ids, images, up, stuck>>
  BY <1>4 DEF K!FinishCreate
<1>7. /\ MetaInv'
      /\ DOMAIN metas' = DOMAIN metas \cup {ids} /\ metas'[ids] = making
      /\ \A i \in DOMAIN metas : i \in DOMAIN metas' /\ metas'[i] = metas[i]
  BY <1>2, <1>4, <1>5, <1>6, FileWritten
<1>8. /\ s \in Seq(CheckpointInfo) /\ Listed(s, metas')
      /\ \A p \in DOMAIN list : p \in DOMAIN s /\ s[p] = list[p]
      /\ Len(list) + 1 \in DOMAIN s /\ s[Len(list) + 1] = making
  <2>1. /\ list \in Seq(CheckpointInfo)
        /\ \A p \in DOMAIN list : OfFile(list[p])
        /\ \A p, q \in DOMAIN list : list[p].id = list[q].id => p = q
    BY <1>2 DEF ListInv
  <2>2. PICK n \in Nat : n = Len(list)
    BY <2>1
  <2>3. /\ s \in Seq(CheckpointInfo) /\ DOMAIN s = 1..(n + 1) /\ DOMAIN list = 1..n
        /\ \A p \in 1..n : s[p] = list[p]
        /\ s[n + 1] = making
    BY <1>4, <2>1, <2>2
  <2>4. \A p \in 1..n : /\ s[p].id \in DOMAIN metas /\ s[p].id # ids
                        /\ s[p] = metas[s[p].id] \/ s[p] = [metas[s[p].id] EXCEPT !.status = "CORRUPTED"]
    BY <1>4, <2>1, <2>3 DEF OfFile
  <2>5. ASSUME NEW p \in 1..(n + 1)
        PROVE  /\ s[p].id \in DOMAIN metas'
               /\ \/ s[p] = metas'[s[p].id]
                  \/ s[p] = [metas'[s[p].id] EXCEPT !.status = "CORRUPTED"]
    <3>1. CASE p = n + 1
      BY <1>4, <1>7, <2>3, <3>1
    <3>2. CASE p # n + 1
      <4>1. p \in 1..n
        BY <2>2, <3>2
      <4>2. metas'[s[p].id] = metas[s[p].id]
        BY <1>7, <2>4, <4>1
      <4> QED
        BY <1>7, <2>4, <4>1, <4>2
    <3> QED
      BY <3>1, <3>2
  <2>6. \A p, q \in 1..(n + 1) : s[p].id = s[q].id => p = q
    <3>1. \A p \in 1..(n + 1) : p \in 1..n \/ p = n + 1
      BY <2>2
    <3>2. \A p \in 1..n : s[p].id # ids
      BY <2>4
    <3>3. s[n + 1].id = ids
      BY <1>4, <2>3
    <3>4. \A p, q \in 1..n : s[p].id = s[q].id => p = q
      BY <2>1, <2>3
    <3> QED
      BY <3>1, <3>2, <3>3, <3>4
  <2> QED
    BY <2>2, <2>3, <2>5, <2>6 DEF Listed
<1>9. DistinctTimes(s) /\ \A p \in DOMAIN s : s[p].time \in 1..now
  <2>1. MetaInv' /\ now' = now
    BY <1>6, <1>7
  <2> QED
    BY <1>8, <2>1, ListedTimes
<1>10. Parts(r, s)
  BY <1>1, <1>8, <1>9, PruningParts
<1> QED
  BY <1>3, <1>4, <1>6, <1>7, <1>8, <1>9, <1>10

\* Every step of the checkpoints keeps it.
LEMMA CheckpointStep == CheckpointInv /\ K!CNext => CheckpointInv'
<1> SUFFICES ASSUME CheckpointInv, K!CNext PROVE CheckpointInv'
  OBVIOUS
<1>1. ids \in Nat /\ now \in Nat /\ db \in Nat
  BY DEF CheckpointInv, MetaInv
<1>2. MetaInv /\ MakingInv /\ ListInv /\ KeptInv
  BY DEF CheckpointInv
<1>3. ASSUME K!DatabaseWrite PROVE CheckpointInv'
  <2>1. db' = db + 1 /\ UNCHANGED <<now, ids, images, metas, list, making, pruning, up, stuck, kept>>
    BY <1>3 DEF K!DatabaseWrite
  <2>2. MetaInv' /\ ListInv'
    BY <1>1, <1>2, <2>1, ListStays DEF ListInv
  <2>3. MakingInv'
    <3>1. CASE making = K!NoInfo
      BY <2>1, <3>1 DEF MakingInv
    <3>2. CASE making # K!NoInfo
      <4>1. making.lsn \in Nat
        BY <1>2, <3>2 DEF MakingInv, CheckpointInfo
      <4> QED
        BY <1>1, <1>2, <2>1, <3>2, <4>1 DEF MakingInv
    <3> QED
      BY <3>1, <3>2
  <2> QED
    BY <1>2, <2>1, <2>2, <2>3 DEF CheckpointInv, KeptInv
<1>4. ASSUME K!BeginCreate PROVE CheckpointInv'
  BY <1>4, CreateBegins DEF K!BeginCreate
<1>5. ASSUME K!WorkerCheck PROVE CheckpointInv'
  <2>1. CASE UNCHANGED <<ids, making>>
    <3>1. now' = now + 1 /\ UNCHANGED <<db, ids, images, metas, list, making, pruning, up, stuck, kept>>
          /\ making = K!NoInfo
      BY <1>5, <2>1 DEF K!WorkerCheck, K!Idle
    <3>2. MetaInv' /\ ListInv'
      BY <1>1, <1>2, <3>1, ListStays DEF ListInv
    <3> QED
      BY <1>2, <3>1, <3>2 DEF CheckpointInv, KeptInv, MakingInv
  <2>2. CASE ~UNCHANGED <<ids, making>>
    BY <1>5, <2>2, CreateBegins DEF K!WorkerCheck
  <2> QED
    BY <2>1, <2>2
<1>6. ASSUME NEW ok \in BOOLEAN, K!CaptureState(ok) PROVE CheckpointInv'
  <2>1. /\ making.status = "CREATING"
        /\ UNCHANGED <<db, now, ids, metas, list, pruning, up, stuck, kept>>
    BY <1>6 DEF K!CaptureState
  <2>2. /\ making \in CheckpointInfo /\ making.id = ids /\ making.time = now
        /\ ids >= 1 /\ now >= 1 /\ pruning = {} /\ up /\ making.lsn <= db
        /\ \A i \in DOMAIN metas : i # ids /\ metas[i].time < now
    BY <1>2, <2>1, UnderWay
  <2>3. MetaInv' /\ ListInv'
    BY <1>1, <1>2, <2>1, <2>2, ListStays
  <2>4. CASE making' = K!NoInfo /\ UNCHANGED images
    BY <1>2, <2>1, <2>3, <2>4 DEF CheckpointInv, KeptInv, MakingInv
  <2>5. CASE /\ images' = K!Put(images, making.id, db)
             /\ making' = [making EXCEPT !.crc = db, !.status = "COMPLETED"]
    <3>1. /\ making' \in CheckpointInfo /\ making'.id = ids /\ making'.time = now
          /\ making'.lsn = making.lsn /\ making'.crc = db /\ making'.status = "COMPLETED"
      BY <1>1, <2>2, <2>5 DEF CheckpointInfo
    <3>2. /\ ids \in DOMAIN images' /\ images'[ids] = db
          /\ \A i \in DOMAIN images : i # ids => i \in DOMAIN images' /\ images'[i] = images[i]
      BY <2>2, <2>5 DEF K!Put
    <3>3. MakingInv'
      BY <2>1, <2>2, <3>1, <3>2 DEF MakingInv
    <3>4. KeptInv'
      BY <1>2, <2>1, <2>2, <3>2 DEF KeptInv
    <3> QED
      BY <2>3, <3>3, <3>4 DEF CheckpointInv
  <2> QED
    BY <1>6, <2>4, <2>5 DEF K!CaptureState
<1>7. ASSUME K!SaveMetadataStops PROVE CheckpointInv'
  <2>1. making.status = "COMPLETED"
    BY <1>7 DEF K!SaveMetadataStops
  <2>2. PICK c : c = [making EXCEPT !.status = "CREATING"]
    OBVIOUS
  <2>3. making \in CheckpointInfo
    BY <1>2, <2>1, UnderWay
  <2>4. /\ c \in CheckpointInfo /\ c.id = making.id /\ c.time = making.time
        /\ c.status = "CREATING"
    BY <2>2, <2>3 DEF CheckpointInfo
  <2>5. /\ c.id = ids /\ c.time = now /\ ids >= 1 /\ now >= 1 /\ pruning = {}
        /\ \A i \in DOMAIN metas : i # ids /\ metas[i].time < now
    BY <1>2, <2>1, <2>4, UnderWay
  <2>6. SoundInfo(c)
    BY <1>1, <2>4, <2>5 DEF SoundInfo
  <2>7. /\ metas' = K!Put(metas, ids, c) /\ up' = FALSE /\ making' = K!NoInfo /\ list' = <<>>
        /\ UNCHANGED <<db, now, ids, images, pruning, stuck, kept>>
    BY <1>7, <2>2, <2>4, <2>5 DEF K!SaveMetadataStops
  <2>8. /\ MetaInv'
        /\ \A i \in DOMAIN metas : i \in DOMAIN metas' /\ metas'[i] = metas[i]
    BY <1>2, <2>5, <2>6, <2>7, FileWritten
  <2>9. ListInv' /\ MakingInv'
    BY <2>5, <2>7 DEF ListInv, MakingInv
  <2>10. KeptInv'
    BY <1>2, <2>7, <2>8 DEF KeptInv
  <2> QED
    BY <2>8, <2>9, <2>10 DEF CheckpointInv
<1>8. ASSUME K!FinishCreate PROVE CheckpointInv'
  <2>1. PICK s : s = Append(list, making)
    OBVIOUS
  <2>2. PICK r : r = K!Pruned(s)
    OBVIOUS
  <2>3. making.status = "COMPLETED"
    BY <1>8, <2>1, <2>2, Finishing
  <2>4. /\ making \in CheckpointInfo /\ making.id = ids /\ making.time = now
        /\ ids >= 1 /\ now >= 1 /\ pruning = {} /\ up
        /\ \A i \in DOMAIN metas : i # ids /\ metas[i].time < now
        /\ making.lsn <= making.crc /\ ids \in DOMAIN images /\ images[ids] = making.crc
    BY <1>8, <2>1, <2>2, Finishing
  <2>6. /\ metas' = K!Put(metas, ids, making)
        /\ list' = r.keep
        /\ pruning' = {c.id : c \in r.gone}
        /\ kept' = (kept \union {ids}) \ {c.id : c \in r.gone}
        /\ making' = K!NoInfo
        /\ UNCHANGED <<db, now, ids, images, up, stuck>>
    BY <1>8, <2>1, <2>2, Finishing
  <2>7. /\ MetaInv'
        /\ DOMAIN metas' = DOMAIN metas \cup {ids} /\ metas'[ids] = making
        /\ \A i \in DOMAIN metas : i \in DOMAIN metas' /\ metas'[i] = metas[i]
    BY <1>8, <2>1, <2>2, Finishing
  <2>8. /\ s \in Seq(CheckpointInfo) /\ Listed(s, metas')
        /\ \A p \in DOMAIN list : p \in DOMAIN s /\ s[p] = list[p]
        /\ Len(list) + 1 \in DOMAIN s /\ s[Len(list) + 1] = making
    BY <1>8, <2>1, <2>2, Finishing, ZenonT(60)
  <2>9. DistinctTimes(s) /\ \A p \in DOMAIN s : s[p].time \in 1..now
    BY <1>8, <2>1, <2>2, Finishing
  <2>10. Parts(r, s)
    BY <1>8, <2>1, <2>2, Finishing
  <2>11. MakingInv'
    BY <2>6 DEF MakingInv
  <2>12. \A c \in r.gone : c.id \in DOMAIN metas' /\ \A p \in DOMAIN r.keep : r.keep[p].id # c.id
    <3> SUFFICES ASSUME NEW c \in r.gone
                 PROVE  c.id \in DOMAIN metas' /\ \A p \in DOMAIN r.keep : r.keep[p].id # c.id
      OBVIOUS
    <3>1. PICK q \in DOMAIN s : c = s[q]
      BY <2>10 DEF Parts
    <3>2. ASSUME NEW p \in DOMAIN r.keep, r.keep[p].id = c.id PROVE FALSE
      <4>1. PICK k \in DOMAIN s : r.keep[p] = s[k]
        BY <2>10 DEF Parts
      <4>2. k = q
        BY <2>8, <3>1, <3>2, <4>1 DEF Listed
      <4>3. c.time < c.time
        BY <2>10, <3>1, <4>1, <4>2 DEF Parts
      <4>4. c.time \in 1..now
        BY <2>9, <3>1
      <4> QED
        BY <1>1, <4>3, <4>4
    <3> QED
      BY <2>8, <3>1, <3>2 DEF Listed
  <2>13. ListInv'
    <3>1. ASSUME NEW p, p \in DOMAIN list' PROVE (OfFile(list[p]))'
      <4>1. PICK q \in DOMAIN s : list'[p] = s[q]
        BY <3>1, <2>6, <2>10 DEF Parts
      <4>2. list'[p].id \notin pruning'
        BY <3>1, <2>6, <2>12
      <4> QED
        BY <2>8, <4>1, <4>2 DEF Listed, OfFile
    <3>2. ASSUME NEW p \in DOMAIN list', NEW q \in DOMAIN list', list'[p].id = list'[q].id
          PROVE  p = q
      <4>1. PICK k \in DOMAIN s : list'[p] = s[k]
        BY <2>6, <2>10 DEF Parts
      <4>2. PICK l \in DOMAIN s : list'[q] = s[l]
        BY <2>6, <2>10 DEF Parts
      <4>3. k = l
        BY <2>8, <3>2, <4>1, <4>2 DEF Listed
      <4> QED
        BY <2>6, <2>10, <4>1, <4>2, <4>3 DEF Parts, DistinctTimes
    <3>3. list' \in Seq(CheckpointInfo) /\ up'
      BY <2>4, <2>6, <2>10 DEF Parts
    <3> QED
      BY <3>1, <3>2, <3>3 DEF ListInv
  <2>14. KeptInv'
    <3> SUFFICES ASSUME NEW i \in kept'
                 PROVE  /\ i \in DOMAIN metas' \ pruning' /\ metas'[i].status = "COMPLETED"
                        /\ i \in DOMAIN images' /\ images'[i] = metas'[i].crc
                        /\ \E p \in DOMAIN list' : list'[p] = metas'[i]
      BY DEF KeptInv
    <3>1. i \notin pruning' /\ (i \in kept \/ i = ids)
      BY <2>6
    <3>2. /\ i \in DOMAIN metas' /\ metas'[i].status = "COMPLETED" /\ metas'[i].id = i
          /\ i \in DOMAIN images' /\ images'[i] = metas'[i].crc
          /\ \E q \in DOMAIN s : s[q] = metas'[i]
      <4>1. CASE i = ids
        BY <2>3, <2>4, <2>6, <2>7, <2>8, <4>1
      <4>2. CASE i \in kept
        <5>1. /\ i \in DOMAIN metas /\ metas[i].status = "COMPLETED"
              /\ i \in DOMAIN images /\ images[i] = metas[i].crc
              /\ \E p \in DOMAIN list : list[p] = metas[i]
          BY <1>2, <2>4, <4>2 DEF KeptInv
        <5>2. metas'[i] = metas[i] /\ metas[i].id = i
          BY <1>2, <2>7, <5>1 DEF MetaInv
        <5> QED
          BY <2>6, <2>7, <2>8, <5>1, <5>2
      <4> QED
        BY <3>1, <4>1, <4>2
    <3>3. PICK q \in DOMAIN s : s[q] = metas'[i]
      BY <3>2
    <3>4. s[q] \notin r.gone
      BY <2>6, <3>1, <3>2, <3>3
    <3>5. \E p \in DOMAIN r.keep : r.keep[p] = s[q]
      BY <2>10, <3>4 DEF Parts
    <3> QED
      BY <2>6, <3>1, <3>2, <3>3, <3>5
  <2> QED
    BY <2>7, <2>11, <2>13, <2>14 DEF CheckpointInv
<1>9. ASSUME NEW id, K!RemoveFile(id) PROVE CheckpointInv'
  <2>1. /\ up /\ id \in pruning
        /\ UNCHANGED <<db, now, ids, list, making, up, stuck, kept>>
    BY <1>9 DEF K!RemoveFile
  <2>2. making = K!NoInfo
    BY <1>2, <2>1 DEF MakingInv
  <2>3. MakingInv'
    BY <2>1, <2>2 DEF MakingInv
  <2>4. CASE images' = K!Drop(images, id) /\ UNCHANGED <<metas, pruning>>
    <3>1. MetaInv' /\ ListInv'
      BY <1>1, <1>2, <2>1, <2>4, ListStays DEF ListInv
    <3>2. \A i \in DOMAIN images : i # id => i \in DOMAIN images' /\ images'[i] = images[i]
      BY <2>4 DEF K!Drop
    <3>3. KeptInv'
      BY <1>2, <2>1, <2>4, <3>2 DEF KeptInv
    <3> QED
      BY <2>3, <3>1, <3>3 DEF CheckpointInv
  <2>5. CASE metas' = K!Drop(metas, id) /\ pruning' = pruning \ {id} /\ UNCHANGED images
    <3>1. /\ DOMAIN metas' = DOMAIN metas \ {id}
          /\ \A i \in DOMAIN metas' : metas'[i] = metas[i]
          /\ DOMAIN metas' \ pruning' = DOMAIN metas \ pruning
      BY <2>1, <2>5 DEF K!Drop
    <3>2. ASSUME NEW i, i \in DOMAIN metas' PROVE (SoundInfo(metas[i]))' /\ metas'[i].id = i
      BY <1>2, <2>1, <3>1, <3>2 DEF MetaInv, SoundInfo
    <3>3. MetaInv'
      BY <1>2, <2>1, <3>1, <3>2 DEF MetaInv
    <3>4. ASSUME NEW p, p \in DOMAIN list' PROVE (OfFile(list[p]))'
      BY <1>2, <2>1, <3>1, <3>4 DEF ListInv, OfFile
    <3>5. ListInv'
      BY <1>2, <2>1, <3>4 DEF ListInv
    <3>6. KeptInv'
      BY <1>2, <2>1, <2>5, <3>1 DEF KeptInv
    <3> QED
      BY <2>3, <3>3, <3>5, <3>6 DEF CheckpointInv
  <2> QED
    BY <1>9, <2>4, <2>5 DEF K!RemoveFile
<1>10. ASSUME NEW id, K!DeleteCheckpoint(id) PROVE CheckpointInv'
  <2>1. PICK A : A = {i \in DOMAIN list : list[i].id # id}
    OBVIOUS
  <2>2. /\ up /\ making = K!NoInfo /\ pruning = {}
        /\ list' = Select(list, A) /\ pruning' = {id} /\ kept' = kept \ {id}
        /\ UNCHANGED <<db, now, ids, images, metas, making, up, stuck>>
    BY <1>10, <2>1, SameInCheckpoints DEF K!DeleteCheckpoint, K!Idle
  <2>3. list \in Seq(CheckpointInfo) /\ A \in SUBSET (DOMAIN list)
    BY <1>2, <2>1 DEF ListInv
  <2>4. /\ list' \in Seq(CheckpointInfo)
        /\ \A m \in DOMAIN list' : \E i \in A : list'[m] = list[i]
        /\ \A l, m \in DOMAIN list' : l < m =>
             \E i, j \in A : i < j /\ list'[l] = list[i] /\ list'[m] = list[j]
        /\ \A i \in A : \E m \in DOMAIN list' : list'[m] = list[i]
    <3>1. \A s \in Seq(CheckpointInfo) : \A S \in SUBSET (DOMAIN s) : \A i \in S :
            \E m \in DOMAIN Select(s, S) : Select(s, S)[m] = s[i]
      BY SelectCovers
    <3>2. \A i \in A : \E m \in DOMAIN list' : list'[m] = list[i]
      BY <2>2, <2>3, <3>1
    <3>3. /\ list' \in Seq(CheckpointInfo)
          /\ \A m \in DOMAIN list' : \E i \in A : list'[m] = list[i]
          /\ \A l, m \in DOMAIN list' : l < m =>
               \E i, j \in A : i < j /\ list'[l] = list[i] /\ list'[m] = list[j]
      BY <2>2, <2>3, SelectFacts
    <3> QED
      BY <3>2, <3>3
  <2>5. MetaInv' /\ MakingInv'
    <3>1. ASSUME NEW i, i \in DOMAIN metas' PROVE (SoundInfo(metas[i]))'
      BY <1>2, <2>2, <3>1 DEF MetaInv, SoundInfo
    <3> QED
      BY <1>2, <2>2, <3>1 DEF MetaInv, MakingInv
  <2>6. ListInv'
    <3>1. ASSUME NEW p, p \in DOMAIN list' PROVE (OfFile(list[p]))'
      <4>1. PICK i \in A : list'[p] = list[i]
        BY <2>4, <3>1
      <4>2. OfFile(list[i]) /\ list[i].id # id
        BY <1>2, <2>1, <4>1 DEF ListInv
      <4> QED
        BY <2>2, <4>1, <4>2 DEF OfFile
    <3>2. ASSUME NEW p \in DOMAIN list', NEW q \in DOMAIN list', p < q PROVE list'[p].id # list'[q].id
      <4>1. \E i, j \in A : i < j /\ list'[p] = list[i] /\ list'[q] = list[j]
        BY <2>4, <3>2
      <4>2. PICK i \in A : \E j \in A : i < j /\ list'[p] = list[i] /\ list'[q] = list[j]
        BY <4>1
      <4>3. PICK j \in A : i < j /\ list'[p] = list[i] /\ list'[q] = list[j]
        BY <4>2
      <4>4. i \in DOMAIN list /\ j \in DOMAIN list /\ i # j
        BY <2>3, <4>3
      <4> QED
        BY <1>2, <4>3, <4>4 DEF ListInv
    <3>3. \A p, q \in DOMAIN list' : p < q \/ q < p \/ p = q
      BY <2>4
    <3> QED
      BY <2>2, <2>4, <3>1, <3>2, <3>3 DEF ListInv
  <2>7. KeptInv'
    <3> SUFFICES ASSUME NEW i \in kept'
                 PROVE  /\ i \in DOMAIN metas' \ pruning' /\ metas'[i].status = "COMPLETED"
                        /\ i \in DOMAIN images' /\ images'[i] = metas'[i].crc
                        /\ \E p \in DOMAIN list' : list'[p] = metas'[i]
      BY DEF KeptInv
    <3>1. /\ i # id /\ i \in DOMAIN metas /\ metas[i].status = "COMPLETED"
          /\ i \in DOMAIN images /\ images[i] = metas[i].crc
          /\ \E p \in DOMAIN list : list[p] = metas[i]
      BY <1>2, <2>2 DEF KeptInv
    <3>2. metas[i].id = i
      BY <1>2, <3>1 DEF MetaInv
    <3>3. PICK p \in A : list[p] = metas[i]
      BY <2>1, <3>1, <3>2
    <3> QED
      BY <2>2, <2>4, <3>1, <3>3
  <2> QED
    BY <2>5, <2>6, <2>7 DEF CheckpointInv
<1>11. ASSUME NEW id, K!Damage(id) PROVE CheckpointInv'
  <2>1. /\ id # making.id /\ id \in DOMAIN images
        /\ images' = [images EXCEPT ![id] = -1] /\ kept' = kept \ {id}
        /\ UNCHANGED <<db, now, ids, metas, list, making, pruning, up, stuck>>
    BY <1>11 DEF K!Damage
  <2>2. \A i \in DOMAIN images : i # id => i \in DOMAIN images' /\ images'[i] = images[i]
    BY <2>1
  <2>3. MetaInv' /\ ListInv'
    BY <1>1, <1>2, <2>1, ListStays DEF ListInv
  <2>4. MakingInv'
    BY <1>2, <2>1, <2>2 DEF MakingInv
  <2>5. KeptInv'
    BY <1>2, <2>1, <2>2 DEF KeptInv
  <2> QED
    BY <2>3, <2>4, <2>5 DEF CheckpointInv
<1>12. ASSUME K!FindCorruptedCheckpoints PROVE CheckpointInv'
  <2>1. /\ making = K!NoInfo /\ pruning = {} /\ up
        /\ list' = [i \in DOMAIN list |->
                     IF K!Verified(list[i]) THEN list[i] ELSE [list[i] EXCEPT !.status = "CORRUPTED"]]
        /\ UNCHANGED <<db, now, ids, images, metas, making, pruning, up, stuck, kept>>
    BY <1>12 DEF K!FindCorruptedCheckpoints, K!Idle
  <2>2. list \in Seq(CheckpointInfo) /\ \A p \in DOMAIN list : list[p] \in CheckpointInfo
    BY <1>2 DEF ListInv
  <2>3. /\ DOMAIN list' = DOMAIN list
        /\ \A p \in DOMAIN list : /\ K!Verified(list[p]) => list'[p] = list[p]
                                  /\ list'[p] = list[p] \/ list'[p] = [list[p] EXCEPT !.status = "CORRUPTED"]
    BY <2>1
  <2>4. ASSUME NEW p \in DOMAIN list
        PROVE  list'[p] \in CheckpointInfo /\ list'[p].id = list[p].id
    <3>1. PICK c \in CheckpointInfo : c = list[p]
      BY <2>2
    <3>2. list'[p] = c \/ list'[p] = [c EXCEPT !.status = "CORRUPTED"]
      BY <2>3, <3>1
    <3> QED
      BY <3>1, <3>2 DEF CheckpointInfo
  <2>5. list' \in Seq(CheckpointInfo)
    <3>1. PICK n \in Nat : DOMAIN list = 1..n
      BY <2>2
    <3>2. list' \in [1..n -> CheckpointInfo]
      BY <2>1, <2>3, <2>4, <3>1
    <3> QED
      BY <3>1, <3>2
  <2>6. ASSUME NEW p, p \in DOMAIN list' PROVE (OfFile(list[p]))'
    <3>1. p \in DOMAIN list /\ OfFile(list[p])
      BY <1>2, <2>3, <2>6 DEF ListInv
    <3>2. PICK c : c = metas[list[p].id]
      OBVIOUS
    <3>3. c \in CheckpointInfo
      BY <1>2, <3>1, <3>2 DEF OfFile, MetaInv, SoundInfo
    <3>4. list[p] = c \/ list[p] = [c EXCEPT !.status = "CORRUPTED"]
      BY <3>1, <3>2 DEF OfFile
    <3>5. list'[p] = c \/ list'[p] = [c EXCEPT !.status = "CORRUPTED"]
      BY <2>3, <3>1, <3>3, <3>4 DEF CheckpointInfo
    <3> QED
      BY <2>1, <2>4, <3>1, <3>2, <3>5 DEF OfFile
  <2>7. MetaInv' /\ MakingInv'
    <3>1. ASSUME NEW i, i \in DOMAIN metas' PROVE (SoundInfo(metas[i]))'
      BY <1>2, <2>1, <3>1 DEF MetaInv, SoundInfo
    <3> QED
      BY <1>2, <2>1, <3>1 DEF MetaInv, MakingInv
  <2>8. ListInv'
    <3>1. \A p, q \in DOMAIN list' : list'[p].id = list'[q].id => p = q
      BY <1>2, <2>3, <2>4 DEF ListInv
    <3> QED
      BY <2>1, <2>5, <2>6, <3>1 DEF ListInv
  <2>9. KeptInv'
    <3> SUFFICES ASSUME NEW i \in kept PROVE \E p \in DOMAIN list' : list'[p] = metas[i]
      BY <1>2, <2>1 DEF KeptInv
    <3>1. PICK p \in DOMAIN list : list[p] = metas[i]
      BY <1>2, <2>1 DEF KeptInv
    <3>2. /\ i \in DOMAIN metas /\ metas[i].id = i
          /\ i \in DOMAIN images /\ images[i] = metas[i].crc
      BY <1>2 DEF KeptInv, MetaInv
    <3>3. K!Verified(list[p])
      BY <3>1, <3>2 DEF K!Verified
    <3> QED
      BY <2>3, <3>1, <3>3
  <2> QED
    BY <2>7, <2>8, <2>9 DEF CheckpointInv
<1>13. ASSUME K!LockAgain PROVE CheckpointInv'
  <2>1. UNCHANGED <<db, now, ids, images, metas, list, making, pruning, up, kept>>
    BY <1>13 DEF K!LockAgain
  <2> QED
    BY <2>1, CheckpointStutters
<1>14. ASSUME K!Crash PROVE CheckpointInv'
  <2>1. /\ ~up' /\ making' = K!NoInfo /\ pruning' = {} /\ list' = <<>>
        /\ UNCHANGED <<db, now, ids, images, metas, kept>>
    BY <1>14 DEF K!Crash
  <2>2. MetaInv' /\ MakingInv'
    <3>1. ASSUME NEW i, i \in DOMAIN metas' PROVE (SoundInfo(metas[i]))'
      BY <1>2, <2>1, <3>1 DEF MetaInv, SoundInfo
    <3> QED
      BY <1>2, <2>1, <3>1 DEF MetaInv, MakingInv
  <2>3. ListInv' /\ KeptInv'
    BY <1>2, <2>1 DEF ListInv, KeptInv
  <2> QED
    BY <2>2, <2>3 DEF CheckpointInv
<1>15. ASSUME K!Start PROVE CheckpointInv'
  <2>1. /\ up' /\ list' = K!ByAge(Range(metas)) /\ making = K!NoInfo /\ pruning = {}
        /\ UNCHANGED <<db, now, ids, images, metas, making, pruning, stuck, kept>>
    BY <1>15, <1>2, SameInCheckpoints DEF K!Start, ListInv
  <2>2. PICK F : F = Range(metas)
    OBVIOUS
  <2>3. /\ \A c \in F : c \in CheckpointInfo /\ c.time \in 1..now /\ c.id \in DOMAIN metas /\ metas[c.id] = c
        /\ \A i \in DOMAIN metas : metas[i] \in F
    BY <1>2, <2>2 DEF MetaInv, SoundInfo, Range
  <2>4. \A c, d \in F : c.time = d.time => c = d
    BY <1>2, <2>3 DEF MetaInv
  <2>5. NewestFirst(list', F)
    <3>1. \A c \in F : c.time \in 1..now
      BY <2>3
    <3>2. NewestFirst(K!ByAge(F), F)
      BY <1>1, <2>4, <3>1, ByAgeSorts
    <3> QED
      BY <2>1, <2>2, <3>2
  <2>6. /\ list' \in Seq(F) /\ \A p \in DOMAIN list' : list'[p] \in F
        /\ \A p, q \in DOMAIN list' : p < q => list'[p].time > list'[q].time
    BY <2>5 DEF NewestFirst
  <2>7. list' \in Seq(CheckpointInfo)
    BY <2>3, <2>6
  <2>8. MetaInv' /\ MakingInv'
    <3>1. ASSUME NEW i, i \in DOMAIN metas' PROVE (SoundInfo(metas[i]))'
      BY <1>2, <2>1, <3>1 DEF MetaInv, SoundInfo
    <3> QED
      BY <1>2, <2>1, <3>1 DEF MetaInv, MakingInv
  <2>9. ListInv'
    <3>1. ASSUME NEW p, p \in DOMAIN list' PROVE (OfFile(list[p]))'
      BY <2>1, <2>3, <2>6, <3>1 DEF OfFile
    <3>2. ASSUME NEW p \in DOMAIN list', NEW q \in DOMAIN list', list'[p].id = list'[q].id PROVE p = q
      <4>1. list'[p] = list'[q] /\ list'[p].time \in Nat
        BY <1>1, <2>3, <2>6, <3>2
      <4>2. p < q \/ q < p \/ p = q
        BY <2>7
      <4> QED
        BY <2>6, <4>1, <4>2
    <3> QED
      BY <2>1, <2>7, <3>1, <3>2 DEF ListInv
  <2>10. KeptInv'
    <3>1. \A i \in kept : \E p \in DOMAIN list' : list'[p] = metas[i]
      BY <1>2, <2>3, <2>5 DEF KeptInv, NewestFirst
    <3> QED
      BY <1>2, <2>1, <3>1 DEF KeptInv
  <2> QED
    BY <2>8, <2>9, <2>10 DEF CheckpointInv
<1> QED
  BY <1>3, <1>4, <1>5, <1>6, <1>7, <1>8, <1>9, <1>10, <1>11, <1>12, <1>13, <1>14, <1>15 DEF K!CNext

\* It holds at the start.
LEMMA CheckpointsBegin == K!CInit => CheckpointInv
<1> SUFFICES ASSUME K!CInit PROVE CheckpointInv
  OBVIOUS
<1>1. /\ db = 0 /\ now = 0 /\ ids = 0 /\ metas = <<>> /\ list = <<>>
      /\ making = K!NoInfo /\ pruning = {} /\ up /\ kept = {}
  BY DEF K!CInit
<1>2. DOMAIN metas = {} /\ DOMAIN list = {} /\ list \in Seq(CheckpointInfo)
  BY <1>1
<1> QED
  BY <1>1, <1>2 DEF CheckpointInv, MetaInv, MakingInv, ListInv, KeptInv

\* What a reader may rely on.
LEMMA CheckpointsAreGood == CheckpointInv => CheckpointsHold
<1> SUFFICES ASSUME CheckpointInv PROVE CheckpointsHold
  OBVIOUS
<1>1. ASSUME NEW p \in DOMAIN list, list[p].status = "COMPLETED", K!Verified(list[p])
      PROVE  images[list[p].id] >= list[p].lsn
  <2>1. OfFile(list[p])
    BY DEF CheckpointInv, ListInv
  <2>2. PICK c : c = metas[list[p].id]
    OBVIOUS
  <2>3. SoundInfo(c)
    BY <2>1, <2>2 DEF OfFile, CheckpointInv, MetaInv
  <2>4. list[p] = c \/ list[p] = [c EXCEPT !.status = "CORRUPTED"]
    BY <2>1, <2>2 DEF OfFile
  <2>5. list[p] = c
    BY <1>1, <2>3, <2>4 DEF SoundInfo, CheckpointInfo
  <2>6. c.lsn <= c.crc /\ c.lsn \in Nat /\ c.crc \in Nat
    BY <1>1, <2>3, <2>5 DEF SoundInfo, CheckpointInfo
  <2> QED
    BY <1>1, <2>5, <2>6 DEF K!Verified
<1>2. ASSUME up, NEW i \in kept
      PROVE  \E p \in DOMAIN list : list[p].id = i /\ list[p].status = "COMPLETED" /\ K!Verified(list[p])
  <2>1. PICK p \in DOMAIN list : list[p] = metas[i]
    BY <1>2 DEF CheckpointInv, KeptInv
  <2>2. /\ metas[i].id = i /\ metas[i].status = "COMPLETED"
        /\ i \in DOMAIN images /\ images[i] = metas[i].crc
    BY DEF CheckpointInv, KeptInv, MetaInv
  <2> QED
    BY <2>1, <2>2 DEF K!Verified
<1> QED
  BY <1>1, <1>2 DEF CheckpointsHold, K!CheckpointsHold, K!CompleteCoversLsn, K!ReportedSurvives

\* The checkpoint just finished is not among those its pruning gives up.
LEMMA NewestStays == CheckpointInv /\ K!FinishCreate => making.id \in kept'
<1> SUFFICES ASSUME CheckpointInv, K!FinishCreate PROVE making.id \in kept'
  OBVIOUS
<1>1. PICK s : s = Append(list, making)
  OBVIOUS
<1>2. PICK r : r = K!Pruned(s)
  OBVIOUS
<1>3. /\ kept' = (kept \union {ids}) \ {c.id : c \in r.gone}
      /\ making.id = ids /\ making.time = now /\ now \in Nat
  BY <1>1, <1>2, Finishing DEF CheckpointInv, MetaInv
<1>4. /\ Listed(s, metas') /\ Len(list) + 1 \in DOMAIN s /\ s[Len(list) + 1] = making
      /\ Parts(r, s)
  BY <1>1, <1>2, Finishing
<1>5. \A p \in DOMAIN s : s[p].time \in 1..now
  BY <1>1, <1>2, Finishing
<1>6. ASSUME NEW c \in r.gone, c.id = ids PROVE FALSE
  <2>1. PICK q \in DOMAIN s : c = s[q]
    BY <1>4 DEF Parts
  <2>2. q = Len(list) + 1
    BY <1>3, <1>4, <1>6, <2>1 DEF Listed
  <2>3. c.time = now
    BY <1>3, <1>4, <2>1, <2>2
  <2>4. PICK k \in DOMAIN s : c.time < s[k].time
    BY <1>4 DEF Parts
  <2> QED
    BY <1>3, <1>5, <2>3, <2>4
<1> QED
  BY <1>3, <1>6

\* Checkpoints can be relied on, for any number of them, of writes and of those
\* kept (checkpoint_manager.cpp): one that is listed as complete and verified
\* holds every write up to its LSN, and one that was reported is listed, complete
\* and intact until it is deleted, pruned or damaged, through writes during the
\* capture, crashes in the middle of the metadata, pruning and reloads.
THEOREM CheckpointsAreReliable == MCSpec => []CheckpointsHold
<1>1. MCInit => CheckpointInv
  BY CheckpointsBegin DEF MCInit
<1>2. CheckpointInv /\ [MCNext]_mcvars => CheckpointInv'
  <2> SUFFICES ASSUME CheckpointInv, [MCNext]_mcvars PROVE CheckpointInv'
    OBVIOUS
  <2>1. K!CNext \/ UNCHANGED checkpoints
    BY DEF MCNext, mcvars
  <2> QED
    BY <2>1, CheckpointStep, CheckpointStutters DEF checkpoints
<1>3. CheckpointInv => CheckpointsHold
  BY CheckpointsAreGood
<1> QED
  BY <1>1, <1>2, <1>3, PTL DEF MCSpec

(***************************************************************************)
(* The segmented log.  ss stands for its segments, fs for its files, n for *)
(* the number the next segment gets.                                       *)
(***************************************************************************)
GoodSegment(s, fs, n) ==
  /\ s \in W!Segment /\ s.id < n
  /\ s.id \in DOMAIN fs /\ fs[s.id] = s.entries
  /\ s.stamped => s.sealed \/ s.entries = <<>>

\* Numbers grow along the log; the last segment is the current one, no other
\* one is open and holds anything.
GoodSegments(ss, fs, n) ==
  /\ ss \in Seq(W!Segment) /\ Len(ss) >= 1
  /\ \A i \in DOMAIN ss : GoodSegment(ss[i], fs, n)
  /\ \A i, j \in DOMAIN ss : i < j => ss[i].id < ss[j].id
  /\ \A i \in DOMAIN ss : i # Len(ss) => ss[i].sealed \/ ss[i].entries = <<>>
  /\ ~ss[Len(ss)].sealed

\* What the sequence ss of segments holds comes in the order of its numbers.
Ordered(ss) ==
  /\ \A i \in DOMAIN ss : \A k, m \in DOMAIN ss[i].entries :
       k < m => ss[i].entries[k].lsn < ss[i].entries[m].lsn
  /\ \A i, j \in DOMAIN ss : i < j =>
       \A k \in DOMAIN ss[i].entries, m \in DOMAIN ss[j].entries :
         ss[i].entries[k].lsn < ss[j].entries[m].lsn

Holds(ss, e) == \E i \in DOMAIN ss : \E k \in DOMAIN ss[i].entries : ss[i].entries[k] = e

Ascending(s) == \A a, b \in DOMAIN s : a < b => s[a].lsn < s[b].lsn

\* It is what was acknowledged last.
TailOf(ss, s) ==
  \E n \in 0..Len(s) : \A e : Holds(ss, e) <=> \E x \in (n + 1)..Len(s) : s[x] = e

InOrder(ss, s, top) ==
  /\ Ordered(ss) /\ Ascending(s) /\ TailOf(ss, s)
  /\ \A x \in DOMAIN s : s[x].lsn <= top

WalInv ==
  /\ open \in BOOLEAN /\ migrated \in BOOLEAN
  /\ DOMAIN files \subseteq 1..MaxSegment
  /\ currentLsn \in 0..MaxLsn /\ nextId \in 1..(MaxSegment + 1)
  /\ migrating \in -1..Len(Legacy)
  /\ session \in Seq(W!Entry)
  /\ open => GoodSegments(segs, files, nextId)
  /\ ~open => segs = <<>> /\ session = <<>>
  /\ ~migrated => InOrder(segs, session, currentLsn)

\* The operators that the log takes from the libraries.
LEMMA SameInLog ==
  /\ \A S : W!Cardinality(S) = Cardinality(S)
  /\ \A S, n : W!Nth(S, n) = Nth(S, n)
  /\ \A s, S : W!Select(s, S) = Select(s, S)
  /\ \A f : W!Range(f) = Range(f)
<1>1. \A S : W!Cardinality(S) = Cardinality(S)
  BY DEF W!Cardinality, Cardinality
<1>2. ASSUME NEW S, NEW n PROVE W!Nth(S, n) = Nth(S, n)
  BY <1>1 DEF W!Nth, Nth
<1>3. ASSUME NEW s, NEW S PROVE W!Select(s, S) = Select(s, S)
  BY <1>1, <1>2 DEF W!Select, Select, W!Selection, Selection
<1>4. ASSUME NEW f PROVE W!Range(f) = Range(f)
  BY DEF W!Range, Range
<1> QED
  BY <1>1, <1>2, <1>3, <1>4

\* t is s but for its last element x.
LastIs(t, s, x) ==
  /\ Len(t) = Len(s) /\ DOMAIN t = DOMAIN s /\ t[Len(s)] = x
  /\ \A i \in DOMAIN s : i # Len(s) => t[i] = s[i]

\* Replacing the last element by another.
LEMMA LastReplaced ==
  ASSUME NEW E, NEW s \in Seq(E), Len(s) >= 1, NEW x \in E
  PROVE  W!Front(s) \o <<x>> \in Seq(E) /\ LastIs(W!Front(s) \o <<x>>, s, x)
<1>1. PICK n \in Nat : n = Len(s) /\ n >= 1 /\ DOMAIN s = 1..n
  OBVIOUS
<1>2. PICK f : f = SubSeq(s, 1, n - 1)
  OBVIOUS
<1>3. f \in Seq(E) /\ Len(f) = n - 1 /\ DOMAIN f = 1..(n - 1) /\ \A i \in 1..(n - 1) : f[i] = s[i]
  BY <1>1, <1>2
<1>4. PICK t : t = f \o <<x>>
  OBVIOUS
<1>5. t \in Seq(E) /\ Len(t) = n /\ DOMAIN t = 1..n /\ t[n] = x /\ \A i \in 1..(n - 1) : t[i] = s[i]
  BY <1>1, <1>3, <1>4
<1> QED
  BY <1>1, <1>2, <1>4, <1>5 DEF W!Front, LastIs

\* The fields of a segment have their types.
LEMMA SegmentFields ==
  ASSUME NEW s \in W!Segment
  PROVE  /\ s.id \in 1..MaxSegment /\ s.id \in Nat /\ s.entries \in Seq(W!Entry)
         /\ s.sealed \in BOOLEAN /\ s.stamped \in BOOLEAN /\ s.broken \in BOOLEAN
BY LogBounds DEF W!Segment

\* The current segment becomes t.
LEMMA CurrentChanges ==
  ASSUME NEW ss, NEW fs, NEW n \in Nat, GoodSegments(ss, fs, n), NEW t, NEW gs, NEW r \in Seq(W!Segment),
         GoodSegment(t, gs, n), t.id = ss[Len(ss)].id, ~t.sealed, LastIs(r, ss, t),
         \A x \in DOMAIN fs : x # t.id => x \in DOMAIN gs /\ gs[x] = fs[x]
  PROVE  GoodSegments(r, gs, n)
<1>1. PICK z \in Nat : z = Len(ss) /\ z >= 1 /\ DOMAIN ss = 1..z
  BY DEF GoodSegments
<1>2. Len(r) = z /\ DOMAIN r = 1..z /\ r[z] = t /\ \A i \in 1..z : i # z => r[i] = ss[i]
  BY <1>1 DEF LastIs
<1>3. \A i \in 1..z : r[i].id = ss[i].id
  BY <1>1, <1>2
<1>4. ASSUME NEW i \in 1..z PROVE GoodSegment(r[i], gs, n)
  <2>1. CASE i = z
    BY <1>2, <2>1
  <2>2. CASE i # z
    <3>1. GoodSegment(ss[i], fs, n) /\ ss[i].id < ss[z].id /\ r[i] = ss[i]
      BY <1>1, <1>2, <2>2 DEF GoodSegments
    <3>2. ss[i].id \in Int /\ ss[z].id \in Int
      <4>1. ss[i] \in W!Segment /\ ss[z] \in W!Segment
        BY <1>1 DEF GoodSegments, GoodSegment
      <4> QED
        BY <4>1, SegmentFields
    <3>3. ss[i].id # t.id
      BY <1>1, <3>1, <3>2
    <3> QED
      BY <3>1, <3>3 DEF GoodSegment
  <2> QED
    BY <2>1, <2>2
<1>5. \A i, j \in 1..z : i < j => r[i].id < r[j].id
  BY <1>1, <1>3 DEF GoodSegments
<1>6. \A i \in 1..z : i # z => r[i].sealed \/ r[i].entries = <<>>
  BY <1>1, <1>2 DEF GoodSegments
<1> QED
  BY <1>1, <1>2, <1>4, <1>5, <1>6 DEF GoodSegments

\* r holds what ss holds, where it does.
SameEntries(r, ss) ==
  /\ DOMAIN ss \subseteq DOMAIN r
  /\ \A i \in DOMAIN r : r[i].entries = IF i \in DOMAIN ss THEN ss[i].entries ELSE <<>>

\* Rolling changes neither what is held nor its order.
LEMMA NothingMoved ==
  ASSUME NEW r, NEW ss, SameEntries(r, ss)
  PROVE  /\ Ordered(ss) => Ordered(r)
         /\ \A e : Holds(r, e) <=> Holds(ss, e)
<1>1. DOMAIN <<>> = {}
  OBVIOUS
<1>2. ASSUME NEW i \in DOMAIN r, NEW k \in DOMAIN r[i].entries
      PROVE  i \in DOMAIN ss /\ r[i].entries = ss[i].entries
  BY <1>1 DEF SameEntries
<1>3. \A i \in DOMAIN ss : i \in DOMAIN r /\ r[i].entries = ss[i].entries
  BY DEF SameEntries
<1>4. \A e : Holds(r, e) <=> Holds(ss, e)
  BY <1>2, <1>3 DEF Holds
<1>5. ASSUME Ordered(ss) PROVE Ordered(r)
  <2>1. ASSUME NEW i \in DOMAIN r, NEW k \in DOMAIN r[i].entries, NEW m \in DOMAIN r[i].entries, k < m
        PROVE  r[i].entries[k].lsn < r[i].entries[m].lsn
    BY <1>2, <1>5, <2>1 DEF Ordered
  <2>2. ASSUME NEW i \in DOMAIN r, NEW j \in DOMAIN r, i < j,
               NEW k \in DOMAIN r[i].entries, NEW m \in DOMAIN r[j].entries
        PROVE  r[i].entries[k].lsn < r[j].entries[m].lsn
    BY <1>2, <1>5, <2>2 DEF Ordered
  <2> QED
    BY <2>1, <2>2 DEF Ordered
<1> QED
  BY <1>4, <1>5

\* The current segment is sealed and the next one opened.
LEMMA SegmentRolls ==
  ASSUME NEW ss, NEW fs, NEW n \in 1..MaxSegment, GoodSegments(ss, fs, n), nextId = n
  PROVE  /\ GoodSegments(W!Rolled(ss), W!Truncated(fs, n), n + 1)
         /\ SameEntries(W!Rolled(ss), ss)
         /\ W!Rolled(ss)[Len(W!Rolled(ss))] = W!NewSegment(n)
<1>1. PICK z \in Nat : z = Len(ss) /\ z >= 1 /\ DOMAIN ss = 1..z
  BY DEF GoodSegments
<1>2. MaxSegment \in Nat /\ n \in Nat
  BY LogBounds
<1>3. PICK t : t = W!Sealed(W!Last(ss))
  OBVIOUS
<1>4. ss[z] \in W!Segment /\ W!Last(ss) = ss[z]
  BY <1>1 DEF GoodSegments, GoodSegment, W!Last
<1>5. t \in W!Segment /\ t.id = ss[z].id /\ t.entries = ss[z].entries /\ t.sealed
  BY <1>3, <1>4 DEF W!Sealed, W!Segment
<1>6. PICK f : f = W!Front(ss) \o <<t>>
  OBVIOUS
<1>7. f \in Seq(W!Segment) /\ LastIs(f, ss, t)
  <2>1. ss \in Seq(W!Segment) /\ Len(ss) >= 1
    BY DEF GoodSegments
  <2> QED
    BY <1>5, <1>6, <2>1, LastReplaced
<1>8. PICK new : new = W!NewSegment(n)
  OBVIOUS
<1>9. new \in W!Segment /\ new.id = n /\ new.entries = <<>> /\ ~new.sealed
  BY <1>2, <1>8 DEF W!NewSegment, W!Segment
<1>10. PICK r : r = Append(f, new)
  OBVIOUS
<1>11. /\ r \in Seq(W!Segment) /\ Len(r) = z + 1 /\ DOMAIN r = 1..(z + 1)
       /\ r[z + 1] = new /\ r[z] = t /\ \A i \in 1..z : i # z => r[i] = ss[i]
  BY <1>1, <1>7, <1>9, <1>10 DEF LastIs
<1>12. r = W!Rolled(ss)
  BY <1>3, <1>6, <1>8, <1>10 DEF W!Rolled
<1>13. PICK gs : gs = W!Truncated(fs, n)
  OBVIOUS
<1>14. DOMAIN gs = DOMAIN fs \cup {n} /\ gs[n] = <<>> /\ \A x \in DOMAIN fs : x # n => gs[x] = fs[x]
  BY <1>13 DEF W!Truncated
<1>15. \A i \in 1..z : /\ ss[i].id \in Nat /\ ss[i].id < n /\ ss[i].id \in DOMAIN fs
                       /\ fs[ss[i].id] = ss[i].entries
  <2>1. ASSUME NEW i \in 1..z PROVE ss[i] \in W!Segment
    BY <1>1 DEF GoodSegments, GoodSegment
  <2> QED
    BY <1>1, <2>1, SegmentFields DEF GoodSegments, GoodSegment
<1>16. SameEntries(r, ss)
  <2>1. ASSUME NEW i \in 1..(z + 1) PROVE r[i].entries = IF i \in 1..z THEN ss[i].entries ELSE <<>>
    <3>1. CASE i = z + 1
      BY <1>9, <1>11, <3>1
    <3>2. CASE i = z
      BY <1>1, <1>5, <1>11, <3>2
    <3>3. CASE i # z + 1 /\ i # z
      BY <1>1, <1>11, <3>3
    <3> QED
      BY <3>1, <3>2, <3>3
  <2> QED
    BY <1>1, <1>11, <2>1 DEF SameEntries
<1>17. \A i \in 1..z : r[i].id = ss[i].id
  BY <1>1, <1>5, <1>11
<1>18. ASSUME NEW i \in 1..(z + 1) PROVE GoodSegment(r[i], gs, n + 1)
  <2>1. CASE i = z + 1
    BY <1>2, <1>9, <1>11, <1>14, <2>1 DEF GoodSegment
  <2>2. CASE i = z
    <3>1. gs[t.id] = t.entries /\ t.id \in DOMAIN gs /\ t.id < n + 1
      BY <1>1, <1>2, <1>5, <1>14, <1>15
    <3> QED
      BY <1>5, <1>11, <2>2, <3>1 DEF GoodSegment
  <2>3. CASE i # z + 1 /\ i # z
    <3>1. i \in 1..z /\ r[i] = ss[i] /\ GoodSegment(ss[i], fs, n)
      BY <1>1, <1>11, <2>3 DEF GoodSegments
    <3>2. ss[i].id \in DOMAIN gs /\ gs[ss[i].id] = ss[i].entries /\ ss[i].id < n + 1
      BY <1>2, <1>14, <1>15, <3>1
    <3> QED
      BY <3>1, <3>2 DEF GoodSegment
  <2> QED
    BY <2>1, <2>2, <2>3
<1>19. ASSUME NEW i \in 1..(z + 1), NEW j \in 1..(z + 1), i < j PROVE r[i].id < r[j].id
  <2>1. i \in 1..z
    BY <1>1, <1>19
  <2>2. CASE j = z + 1
    BY <1>2, <1>9, <1>11, <1>15, <1>17, <2>1, <2>2
  <2>3. CASE j # z + 1
    <3>1. j \in 1..z /\ ss[i].id < ss[j].id
      BY <1>1, <1>19, <2>1, <2>3 DEF GoodSegments
    <3> QED
      BY <1>17, <2>1, <3>1
  <2> QED
    BY <2>2, <2>3
<1>20. \A i \in 1..z : r[i].sealed \/ r[i].entries = <<>>
  BY <1>1, <1>5, <1>11 DEF GoodSegments
<1>21. GoodSegments(r, gs, n + 1)
  <2>1. \A i \in 1..(z + 1) : i # z + 1 => i \in 1..z
    BY <1>1
  <2> QED
    BY <1>1, <1>9, <1>11, <1>18, <1>19, <1>20, <2>1 DEF GoodSegments
<1> QED
  BY <1>8, <1>11, <1>12, <1>13, <1>16, <1>21

\* One more entry in the current segment, its number above all others.
LEMMA EntryAdded ==
  ASSUME NEW ss, Len(ss) \in Nat, DOMAIN ss = 1..Len(ss), Len(ss) >= 1,
         ss[Len(ss)].entries \in Seq(W!Entry), NEW e \in W!Entry,
         NEW t, t.entries = Append(ss[Len(ss)].entries, e), NEW r, LastIs(r, ss, t),
         Ordered(ss), \A d : Holds(ss, d) => d.lsn < e.lsn
  PROVE  Ordered(r) /\ \A d : Holds(r, d) <=> (Holds(ss, d) \/ d = e)
<1>1. PICK z \in Nat : z = Len(ss) /\ z >= 1 /\ DOMAIN ss = 1..z
  OBVIOUS
<1>2. DOMAIN r = 1..z /\ r[z] = t /\ \A i \in 1..z : i # z => r[i] = ss[i]
  BY <1>1 DEF LastIs
<1>3. PICK c \in Seq(W!Entry) : c = ss[z].entries
  BY <1>1
<1>4. PICK y \in Nat : y = Len(c) /\ DOMAIN c = 1..y
  OBVIOUS
<1>5. PICK b : b = r[z].entries
  OBVIOUS
<1>6. DOMAIN b = 1..(y + 1) /\ b[y + 1] = e /\ \A k \in 1..y : b[k] = c[k]
  <2>1. b = Append(c, e)
    BY <1>1, <1>2, <1>3, <1>5
  <2> QED
    BY <1>3, <1>4, <2>1
<1>7. ASSUME NEW i \in 1..z, NEW k \in DOMAIN ss[i].entries
      PROVE  k \in DOMAIN r[i].entries /\ r[i].entries[k] = ss[i].entries[k]
  <2>1. CASE i = z
    BY <1>3, <1>4, <1>5, <1>6, <2>1, SMTT(60)
  <2>2. CASE i # z
    BY <1>2, <2>2
  <2> QED
    BY <2>1, <2>2
<1>8. ASSUME NEW i \in 1..z, NEW k \in DOMAIN r[i].entries
      PROVE  \/ /\ k \in DOMAIN ss[i].entries /\ r[i].entries[k] = ss[i].entries[k]
                /\ Holds(ss, r[i].entries[k])
             \/ i = z /\ k = y + 1 /\ r[i].entries[k] = e
  <2>1. CASE i = z
    <3>1. k \in 1..y \/ k = y + 1
      BY <1>4, <1>5, <1>6, <2>1
    <3> QED
      BY <1>1, <1>3, <1>4, <1>5, <1>6, <2>1, <3>1 DEF Holds
  <2>2. CASE i # z
    BY <1>1, <1>2, <2>2 DEF Holds
  <2> QED
    BY <2>1, <2>2
<1>9. \A d : Holds(r, d) <=> (Holds(ss, d) \/ d = e)
  <2>1. y + 1 \in DOMAIN r[z].entries /\ r[z].entries[y + 1] = e /\ z \in 1..z
    BY <1>1, <1>4, <1>5, <1>6
  <2>2. ASSUME NEW d, Holds(ss, d) PROVE Holds(r, d)
    BY <1>1, <1>2, <1>7, <2>2 DEF Holds
  <2>3. ASSUME NEW d, Holds(r, d) PROVE Holds(ss, d) \/ d = e
    <3>1. PICK i \in 1..z : \E k \in DOMAIN r[i].entries : r[i].entries[k] = d
      BY <1>2, <2>3 DEF Holds
    <3>2. PICK k \in DOMAIN r[i].entries : r[i].entries[k] = d
      BY <3>1
    <3> QED
      BY <1>8, <3>2
  <2>4. Holds(r, e)
    BY <1>2, <2>1 DEF Holds
  <2> QED
    BY <2>2, <2>3, <2>4
<1>10. ASSUME NEW i \in 1..z, NEW k \in DOMAIN r[i].entries, NEW m \in DOMAIN r[i].entries, k < m
       PROVE  r[i].entries[k].lsn < r[i].entries[m].lsn
  <2>1. CASE i = z /\ m = y + 1
    <3>1. k # y + 1
      BY <1>4, <1>10, <2>1
    <3>2. Holds(ss, r[i].entries[k])
      BY <1>8, <3>1
    <3> QED
      BY <1>5, <1>6, <2>1, <3>2
  <2>2. CASE ~(i = z /\ m = y + 1)
    <3>1. m \in DOMAIN ss[i].entries /\ r[i].entries[m] = ss[i].entries[m]
      BY <1>8, <2>2
    <3>2. ~(i = z /\ k = y + 1)
      BY <1>3, <1>4, <1>10, <3>1
    <3>3. k \in DOMAIN ss[i].entries /\ r[i].entries[k] = ss[i].entries[k]
      BY <1>8, <3>2
    <3> QED
      BY <1>1, <1>10, <3>1, <3>3 DEF Ordered
  <2> QED
    BY <2>1, <2>2
<1>11. ASSUME NEW i \in 1..z, NEW j \in 1..z, i < j,
              NEW k \in DOMAIN r[i].entries, NEW m \in DOMAIN r[j].entries
       PROVE  r[i].entries[k].lsn < r[j].entries[m].lsn
  <2>1. i # z
    <3>1. z \in Nat /\ i < j
      BY <1>11
    <3> QED
      BY <3>1
  <2>2. /\ k \in DOMAIN ss[i].entries /\ r[i].entries[k] = ss[i].entries[k]
        /\ Holds(ss, r[i].entries[k])
    BY <1>8, <2>1
  <2>3. CASE j = z /\ m = y + 1
    BY <1>5, <1>6, <2>2, <2>3
  <2>4. CASE ~(j = z /\ m = y + 1)
    <3>1. m \in DOMAIN ss[j].entries /\ r[j].entries[m] = ss[j].entries[m]
      BY <1>8, <2>4
    <3> QED
      BY <1>1, <1>11, <2>2, <3>1 DEF Ordered
  <2> QED
    BY <2>3, <2>4
<1> QED
  BY <1>2, <1>9, <1>10, <1>11 DEF Ordered

\* r is some of the segments of ss; it is thinned if the current one is among them.
Picked(r, ss) ==
  /\ \A m \in DOMAIN r : \E i \in DOMAIN ss : r[m] = ss[i]
  /\ \A l, m \in DOMAIN r : l < m => \E i \in DOMAIN ss : \E j \in DOMAIN ss : i < j /\ r[l] = ss[i] /\ r[m] = ss[j]

Thinned(r, ss) ==
  /\ r \in Seq(W!Segment) /\ Len(r) >= 1 /\ r[Len(r)] = ss[Len(ss)]
  /\ Picked(r, ss)

\* What dropping segments leaves is well-formed.
LEMMA ThinnedIsGood ==
  ASSUME NEW ss, NEW fs, NEW n \in Nat, GoodSegments(ss, fs, n), NEW r, Thinned(r, ss), NEW gs,
         \A m \in DOMAIN r : r[m].id \in DOMAIN gs /\ gs[r[m].id] = fs[r[m].id]
  PROVE  GoodSegments(r, gs, n)
<1>1. PICK z \in Nat : z = Len(ss) /\ z >= 1 /\ DOMAIN ss = 1..z
  BY DEF GoodSegments
<1>2. PICK y \in Nat : y = Len(r) /\ y >= 1 /\ DOMAIN r = 1..y
  BY DEF Thinned, Picked
<1>3. ASSUME NEW m \in 1..y PROVE GoodSegment(r[m], gs, n)
  <2>1. PICK i \in DOMAIN ss : r[m] = ss[i]
    BY <1>2 DEF Thinned, Picked
  <2>2. GoodSegment(r[m], fs, n)
    BY <2>1 DEF GoodSegments
  <2> QED
    BY <1>2, <2>2 DEF GoodSegment
<1>4. ASSUME NEW l \in 1..y, NEW m \in 1..y, l < m
      PROVE  r[l].id < r[m].id /\ (r[l].sealed \/ r[l].entries = <<>>)
  <2>1. l \in DOMAIN r /\ m \in DOMAIN r /\ l < m
    BY <1>2, <1>4
  <2>2. PICK i \in DOMAIN ss : \E j \in DOMAIN ss : i < j /\ r[l] = ss[i] /\ r[m] = ss[j]
    BY <2>1 DEF Thinned, Picked
  <2>3. PICK j \in DOMAIN ss : i < j /\ r[l] = ss[i] /\ r[m] = ss[j]
    BY <2>2
  <2>4. i # z
    BY <1>1, <2>3
  <2> QED
    BY <1>1, <2>3, <2>4 DEF GoodSegments
<1>5. ~r[y].sealed
  BY <1>2 DEF Thinned, Picked, GoodSegments
<1>6. \A l \in 1..y : l # y => l < y /\ y \in 1..y
  BY <1>2
<1>7. r \in Seq(W!Segment)
  BY DEF Thinned, Picked
<1> QED
  BY <1>2, <1>3, <1>4, <1>5, <1>6, <1>7 DEF GoodSegments

\* What they hold comes in order; if all that went is older than all that stayed,
\* it still is the tail.
LEMMA PickedInOrder ==
  ASSUME NEW ss, NEW r, Picked(r, ss), Ordered(ss)
  PROVE  Ordered(r) /\ \A e : Holds(r, e) => Holds(ss, e)
<1>1. ASSUME NEW i \in DOMAIN r, NEW k \in DOMAIN r[i].entries, NEW m \in DOMAIN r[i].entries, k < m
      PROVE  r[i].entries[k].lsn < r[i].entries[m].lsn
  <2>1. PICK j \in DOMAIN ss : r[i] = ss[j]
    BY DEF Picked
  <2> QED
    BY <1>1, <2>1 DEF Ordered
<1>2. ASSUME NEW i \in DOMAIN r, NEW j \in DOMAIN r, i < j,
             NEW k \in DOMAIN r[i].entries, NEW m \in DOMAIN r[j].entries
      PROVE  r[i].entries[k].lsn < r[j].entries[m].lsn
  <2>1. PICK u \in DOMAIN ss : \E v \in DOMAIN ss : u < v /\ r[i] = ss[u] /\ r[j] = ss[v]
    BY <1>2 DEF Picked
  <2>2. PICK v \in DOMAIN ss : u < v /\ r[i] = ss[u] /\ r[j] = ss[v]
    BY <2>1
  <2> QED
    BY <2>2 DEF Ordered
<1>3. \A e : Holds(r, e) => Holds(ss, e)
  BY DEF Holds, Picked
<1> QED
  BY <1>1, <1>2, <1>3 DEF Ordered

\* The elements of H are the last of s.
IsTail(H, s) ==
  \E n \in 0..Len(s) : \A e : e \in H <=> \E x \in (n + 1)..Len(s) : s[x] = e

\* Whatever part of the held entries has only newer ones after it is a tail.
LEMMA NewestAreTail ==
  ASSUME NEW ss, NEW newest, NEW s \in Seq(W!Entry), Ascending(s), TailOf(ss, s),
         \A e \in newest : Holds(ss, e),
         \A d : \A e \in newest : Holds(ss, d) /\ d \notin newest => d.lsn < e.lsn
  PROVE  IsTail(newest, s)
<1>1. PICK z \in Nat : z = Len(s) /\ DOMAIN s = 1..z
  OBVIOUS
<1>2. PICK n \in 0..z : \A e : Holds(ss, e) <=> \E x \in (n + 1)..z : s[x] = e
  BY <1>1 DEF TailOf
<1>3. \A x \in 1..z : s[x].lsn \in Int
  <2>1. \A x \in 1..z : s[x] \in W!Entry
    BY <1>1
  <2> QED
    BY <2>1, LogBounds DEF W!Entry
<1>4. CASE newest = {}
  <2>1. \A x \in (z + 1)..z : FALSE
    BY <1>1
  <2>2. z \in 0..Len(s)
    BY <1>1
  <2> QED
    BY <1>1, <1>4, <2>1, <2>2 DEF IsTail
<1>5. CASE newest # {}
  <2> DEFINE Left == {x \in Nat : x \in (n + 1)..z /\ s[x] \in newest}
  <2>1. PICK e \in newest : TRUE
    BY <1>5
  <2>2. PICK y \in (n + 1)..z : s[y] = e
    BY <1>2, <2>1
  <2>3. y \in Left /\ Left \in SUBSET Nat
    BY <1>1, <2>1, <2>2
  <2> HIDE DEF Left
  <2>4. Min(Left) \in Left /\ \A x \in Left : Min(Left) <= x
    BY <2>3, MinOfNumbers
  <2>5. PICK m \in Nat : m \in (n + 1)..z /\ s[m] \in newest /\ \A x \in (n + 1)..z : s[x] \in newest => m <= x
    BY <1>1, <2>4 DEF Left
  <2>6. ASSUME NEW x \in m..z PROVE s[x] \in newest
    <3>1. x \in (n + 1)..z /\ x \in 1..z /\ m \in 1..z /\ (x = m \/ m < x)
      BY <1>1, <2>5
    <3>2. CASE x = m
      BY <2>5, <3>2
    <3>3. CASE m < x
      <4>1. s[m].lsn < s[x].lsn /\ Holds(ss, s[x])
        BY <1>1, <1>2, <3>1, <3>3 DEF Ascending
      <4>2. ~(s[x].lsn < s[m].lsn)
        BY <1>3, <3>1, <4>1
      <4> QED
        BY <2>5, <4>1, <4>2
    <3> QED
      BY <3>1, <3>2, <3>3
  <2>7. ASSUME NEW d \in newest PROVE \E x \in m..z : s[x] = d
    <3>1. PICK x \in (n + 1)..z : s[x] = d
      BY <1>2, <2>7
    <3>2. m <= x
      BY <2>5, <2>7, <3>1
    <3> QED
      BY <1>1, <2>5, <3>1, <3>2
  <2>8. m - 1 \in 0..Len(s) /\ (m - 1) + 1 = m
    BY <1>1, <2>5
  <2>9. PICK k : k = m - 1
    OBVIOUS
  <2>10. k \in 0..Len(s) /\ \A d : d \in newest <=> \E x \in (k + 1)..Len(s) : s[x] = d
    BY <1>1, <2>6, <2>7, <2>8, <2>9
  <2> QED
    BY <2>10 DEF IsTail
<1> QED
  BY <1>4, <1>5

\* So is what is left when the older entries are dropped.
LEMMA ThinnedIsTail ==
  ASSUME NEW ss, NEW r, NEW s \in Seq(W!Entry), Ascending(s), TailOf(ss, s),
         \A e : Holds(r, e) => Holds(ss, e),
         \A d, e : Holds(ss, d) /\ ~Holds(r, d) /\ Holds(r, e) => d.lsn < e.lsn
  PROVE  TailOf(r, s)
<1>1. PICK newest : newest = {e \in W!Entry : Holds(r, e)}
  OBVIOUS
<1>2. \A e : Holds(r, e) <=> e \in newest
  <2>1. PICK n \in 0..Len(s) : \A e : Holds(ss, e) <=> \E x \in (n + 1)..Len(s) : s[x] = e
    BY DEF TailOf
  <2>2. \A x \in (n + 1)..Len(s) : s[x] \in W!Entry
    OBVIOUS
  <2> QED
    BY <1>1, <2>1, <2>2
<1>3. IsTail(newest, s)
  BY <1>2, NewestAreTail
<1> QED
  BY <1>2, <1>3 DEF IsTail, TailOf

\* Only the newest stay in memory.
LEMMA TrimThins ==
  ASSUME NEW ss, NEW fs, NEW n \in Nat, GoodSegments(ss, fs, n), NEW r, r = W!Trimmed(ss)
  PROVE  /\ Thinned(r, ss)
         /\ Ordered(ss) => \A d, e : Holds(ss, d) /\ ~Holds(r, d) /\ Holds(r, e) => d.lsn < e.lsn
<1>1. PICK z \in Nat : z = Len(ss) /\ z >= 1 /\ DOMAIN ss = 1..z
  BY DEF GoodSegments
<1>2. ss \in Seq(W!Segment)
  BY DEF GoodSegments
<1>3. PICK c \in Nat : /\ c < z /\ Len(r) = z - c /\ DOMAIN r = 1..(z - c)
                       /\ r \in Seq(W!Segment) /\ \A i \in 1..(z - c) : r[i] = ss[i + c]
  <2>1. CASE z <= MaxInMemory
    <3>1. r = ss
      BY <1>1, <2>1 DEF W!Trimmed
    <3>2. 0 \in Nat /\ 0 < z /\ z - 0 = z /\ \A i \in 1..z : i + 0 = i
      BY <1>1
    <3> QED
      BY <1>1, <1>2, <3>1, <3>2
  <2>2. CASE ~(z <= MaxInMemory)
    <3>1. PICK m \in Nat : m = MaxInMemory /\ m >= 1 /\ m < z
      BY <1>1, <2>2, LogBounds
    <3>2. r = SubSeq(ss, z - m + 1, z)
      BY <1>1, <2>2, <3>1 DEF W!Trimmed
    <3>3. PICK c \in Nat : c = z - m
      <4>1. z - m \in Nat
        BY <1>1, <3>1
      <4> QED
        BY <4>1
    <3>4. c < z /\ z - m + 1 = c + 1 /\ z - (c + 1) + 1 = z - c /\ c + 1 \in 1..z
      BY <1>1, <3>1, <3>3
    <3>5. r = SubSeq(ss, c + 1, z)
      BY <3>2, <3>4
    <3>6. /\ r \in Seq(W!Segment) /\ Len(r) = z - c /\ DOMAIN r = 1..(z - c)
          /\ \A i \in 1..(z - c) : r[i] = ss[i + c]
      BY <1>1, <1>2, <3>4, <3>5
    <3> QED
      BY <3>4, <3>6
  <2> QED
    BY <2>1, <2>2
<1>4. \A i \in 1..(z - c) : i + c \in 1..z /\ r[i] = ss[i + c]
  BY <1>1, <1>3
<1>5. z - c \in 1..(z - c) /\ z - c >= 1 /\ (z - c) + c = z
  BY <1>1, <1>3
<1>6. ASSUME NEW l \in DOMAIN r, NEW m \in DOMAIN r, l < m
      PROVE  \E i \in DOMAIN ss : \E j \in DOMAIN ss : i < j /\ r[l] = ss[i] /\ r[m] = ss[j]
  <2>1. l + c < m + c /\ l + c \in DOMAIN ss /\ m + c \in DOMAIN ss
    BY <1>1, <1>3, <1>4, <1>6
  <2> QED
    BY <1>3, <1>4, <2>1
<1>7. Thinned(r, ss)
  BY <1>1, <1>3, <1>4, <1>5, <1>6 DEF Thinned, Picked
<1>8. ASSUME Ordered(ss), NEW d, NEW e, Holds(ss, d), ~Holds(r, d), Holds(r, e) PROVE d.lsn < e.lsn
  <2>1. PICK i \in DOMAIN ss : \E k \in DOMAIN ss[i].entries : ss[i].entries[k] = d
    BY <1>8 DEF Holds
  <2>2. PICK k \in DOMAIN ss[i].entries : ss[i].entries[k] = d
    BY <2>1
  <2>3. PICK j \in DOMAIN r : \E m \in DOMAIN r[j].entries : r[j].entries[m] = e
    BY <1>8 DEF Holds
  <2>4. PICK m \in DOMAIN r[j].entries : r[j].entries[m] = e
    BY <2>3
  <2>5. i <= c
    <3>1. ASSUME ~(i <= c) PROVE FALSE
      <4>1. i - c \in DOMAIN r /\ (i - c) + c = i
        BY <1>1, <1>3, <3>1
      <4>2. r[i - c] = ss[i]
        BY <1>3, <1>4, <4>1
      <4> QED
        BY <1>8, <2>2, <4>1, <4>2 DEF Holds
    <3> QED
      BY <3>1
  <2>6. i < j + c /\ j + c \in DOMAIN ss /\ r[j] = ss[j + c]
    BY <1>1, <1>3, <1>4, <2>5
  <2> QED
    BY <1>8, <2>2, <2>4, <2>6 DEF Ordered
<1> QED
  BY <1>7, <1>8

\* One more is acknowledged.
LEMMA TailGrows ==
  ASSUME NEW ss, NEW r, NEW s \in Seq(W!Entry), NEW e \in W!Entry, TailOf(ss, s), Ascending(s),
         \A x \in DOMAIN s : s[x].lsn < e.lsn, NEW t, t = Append(s, e),
         \A d : Holds(r, d) <=> (Holds(ss, d) \/ d = e)
  PROVE  TailOf(r, t) /\ Ascending(t) /\ t \in Seq(W!Entry)
<1>1. PICK z \in Nat : z = Len(s) /\ DOMAIN s = 1..z
  OBVIOUS
<1>2. t \in Seq(W!Entry) /\ Len(t) = z + 1 /\ DOMAIN t = 1..(z + 1) /\ t[z + 1] = e /\ \A x \in 1..z : t[x] = s[x]
  BY <1>1
<1>3. PICK n \in 0..z : \A d : Holds(ss, d) <=> \E x \in (n + 1)..z : s[x] = d
  BY <1>1 DEF TailOf
<1>4. n \in 0..Len(t) /\ \A x \in (n + 1)..(z + 1) : x \in (n + 1)..z \/ x = z + 1
  BY <1>1, <1>2
<1>5. z + 1 \in (n + 1)..(z + 1) /\ \A x \in (n + 1)..z : x \in 1..z /\ x \in (n + 1)..(z + 1)
  BY <1>1
<1>6. \A d : Holds(r, d) <=> \E x \in (n + 1)..Len(t) : t[x] = d
  <2>1. ASSUME NEW d, Holds(r, d) PROVE \E x \in (n + 1)..(z + 1) : t[x] = d
    <3>1. CASE d = e
      BY <1>2, <1>5, <3>1
    <3>2. CASE d # e
      <4>1. PICK x \in (n + 1)..z : s[x] = d
        BY <1>3, <2>1, <3>2
      <4> QED
        BY <1>2, <1>5, <4>1
    <3> QED
      BY <3>1, <3>2
  <2>2. ASSUME NEW x \in (n + 1)..(z + 1) PROVE Holds(r, t[x])
    <3>1. CASE x = z + 1
      BY <1>2, <3>1
    <3>2. CASE x # z + 1
      <4>1. x \in (n + 1)..z /\ t[x] = s[x]
        BY <1>2, <1>4, <1>5, <3>2
      <4> QED
        BY <1>3, <4>1
    <3> QED
      BY <3>1, <3>2
  <2> QED
    BY <1>2, <2>1, <2>2
<1>7. ASSUME NEW a \in 1..(z + 1), NEW b \in 1..(z + 1), a < b PROVE t[a].lsn < t[b].lsn
  <2>1. a \in 1..z
    BY <1>1, <1>7
  <2>2. CASE b = z + 1
    BY <1>1, <1>2, <2>1, <2>2
  <2>3. CASE b # z + 1
    <3>1. b \in 1..z
      BY <1>1, <2>3
    <3> QED
      BY <1>1, <1>2, <1>7, <2>1, <3>1 DEF Ascending
  <2> QED
    BY <2>2, <2>3
<1> QED
  BY <1>2, <1>4, <1>6, <1>7 DEF TailOf, Ascending

\* What write_entry does, as far as the segments, the files and what was
\* acknowledged go.
LEMMA EntryWritten ==
  ASSUME WalInv, open, NEW e \in W!Entry, NEW big \in BOOLEAN, NEW fails \in BOOLEAN, W!Write(e, big, fails),
         DOMAIN files' \subseteq 1..MaxSegment
  PROVE  /\ GoodSegments(segs', files', nextId') /\ nextId' \in 1..(MaxSegment + 1)
         /\ session' \in Seq(W!Entry)
         /\ \A top \in Nat : InOrder(segs, session, top) /\ top < e.lsn => InOrder(segs', session', e.lsn)
<1>1. /\ GoodSegments(segs, files, nextId) /\ nextId \in Nat /\ nextId >= 1 /\ MaxSegment \in Nat
      /\ session \in Seq(W!Entry) /\ nextId \in 1..(MaxSegment + 1)
  BY LogBounds DEF WalInv
<1>2. PICK roll \in BOOLEAN : roll <=> ~W!CanAdd(W!Last(segs), big)
  OBVIOUS
<1>3. PICK ss : ss = IF roll THEN W!Rolled(segs) ELSE segs
  OBVIOUS
<1>4. PICK c : c = W!Last(ss)
  OBVIOUS
<1>5. PICK fs : fs = IF roll THEN W!Truncated(files, c.id) ELSE files
  OBVIOUS
<1>6. /\ roll => nextId <= MaxSegment
      /\ nextId' = IF roll THEN nextId + 1 ELSE nextId
      /\ \/ /\ segs' = W!Front(ss) \o <<[c EXCEPT !.broken = @ \/ (fails /\ ~big)]>>
            /\ files' = fs
            /\ UNCHANGED session
         \/ /\ segs' = W!Trimmed(W!Front(ss) \o <<W!Appended(c, e)>>)
            /\ files' = [fs EXCEPT ![c.id] = Append(@, e)]
            /\ session' = Append(session, e)
  BY <1>2, <1>3, <1>4, <1>5 DEF W!Write
<1>7. PICK n \in Nat : n = nextId' /\ n \in 1..(MaxSegment + 1)
  BY <1>1, <1>6
<1>8. GoodSegments(ss, fs, n) /\ SameEntries(ss, segs)
  <2>1. CASE roll
    <3>1. nextId \in 1..MaxSegment /\ n = nextId + 1
      BY <1>1, <1>6, <1>7, <2>1
    <3>2. /\ GoodSegments(W!Rolled(segs), W!Truncated(files, nextId), nextId + 1)
          /\ SameEntries(W!Rolled(segs), segs)
          /\ W!Rolled(segs)[Len(W!Rolled(segs))] = W!NewSegment(nextId)
      BY <1>1, <3>1, SegmentRolls
    <3>3. c = W!NewSegment(nextId)
      BY <1>3, <1>4, <2>1, <3>2 DEF W!Last
    <3>4. c.id = nextId
      BY <3>3 DEF W!NewSegment
    <3> QED
      BY <1>3, <1>5, <2>1, <3>1, <3>2, <3>4
  <2>2. CASE ~roll
    BY <1>1, <1>3, <1>5, <1>6, <1>7, <2>2 DEF SameEntries
  <2> QED
    BY <2>1, <2>2
<1>9. PICK z \in Nat : /\ z = Len(ss) /\ z >= 1 /\ DOMAIN ss = 1..z /\ ss \in Seq(W!Segment)
                       /\ c = ss[z] /\ GoodSegment(c, fs, n) /\ ~c.sealed
  BY <1>4, <1>8 DEF GoodSegments, W!Last
<1>10. c \in W!Segment /\ c.id \in DOMAIN fs /\ fs[c.id] = c.entries /\ c.id < n /\ (c.stamped => c.entries = <<>>)
  BY <1>9 DEF GoodSegment
<1>11. ASSUME NEW top \in Nat, InOrder(segs, session, top)
       PROVE  /\ Ordered(ss) /\ TailOf(ss, session) /\ Ascending(session)
              /\ \A x \in DOMAIN session : session[x].lsn <= top
              /\ \A d : Holds(ss, d) => d.lsn <= top
  <2>1. Ordered(ss) /\ \A d : Holds(ss, d) <=> Holds(segs, d)
    BY <1>8, <1>11, NothingMoved DEF InOrder
  <2>2. TailOf(ss, session)
    BY <1>11, <2>1 DEF InOrder, TailOf
  <2>3. \A d : Holds(ss, d) => \E x \in DOMAIN session : session[x] = d
    <3>1. PICK n0 \in 0..Len(session) : \A d : Holds(ss, d) <=> \E x \in (n0 + 1)..Len(session) : session[x] = d
      BY <2>2 DEF TailOf
    <3>2. Len(session) \in Nat /\ DOMAIN session = 1..Len(session)
      BY <1>1
    <3>3. \A x \in (n0 + 1)..Len(session) : x \in DOMAIN session
      BY <3>2
    <3> QED
      BY <3>1, <3>3
  <2> QED
    BY <1>11, <2>1, <2>2, <2>3 DEF InOrder
<1>12. CASE /\ segs' = W!Front(ss) \o <<[c EXCEPT !.broken = @ \/ (fails /\ ~big)]>>
            /\ files' = fs
            /\ UNCHANGED session
  <2>1. PICK t : t = [c EXCEPT !.broken = @ \/ (fails /\ ~big)]
    OBVIOUS
  <2>2. /\ t \in W!Segment /\ t.id = c.id /\ t.entries = c.entries /\ ~t.sealed /\ t.stamped = c.stamped
    BY <1>9, <1>10, <2>1 DEF W!Segment
  <2>3. segs' \in Seq(W!Segment) /\ LastIs(segs', ss, t)
    BY <1>9, <1>12, <2>1, <2>2, LastReplaced
  <2>4. GoodSegment(t, fs, n)
    BY <1>10, <2>2 DEF GoodSegment
  <2>5. GoodSegments(segs', files', n)
    BY <1>8, <1>9, <1>12, <2>2, <2>3, <2>4, CurrentChanges
  <2>6. SameEntries(segs', ss)
    BY <1>9, <2>2, <2>3 DEF SameEntries, LastIs
  <2>7. ASSUME NEW top \in Nat, InOrder(segs, session, top), top < e.lsn PROVE InOrder(segs', session', e.lsn)
    <3>1. Ordered(segs') /\ \A d : Holds(segs', d) <=> Holds(ss, d)
      BY <1>11, <2>6, <2>7, NothingMoved
    <3>2. TailOf(segs', session)
      BY <1>11, <2>7, <3>1 DEF TailOf
    <3>3. \A x \in DOMAIN session : session[x].lsn <= e.lsn
      <4>1. \A x \in DOMAIN session : session[x] \in W!Entry /\ session[x].lsn <= top
        BY <1>1, <1>11, <2>7
      <4>2. \A d \in W!Entry : d.lsn \in Nat
        BY LogBounds DEF W!Entry
      <4> QED
        BY <2>7, <4>1, <4>2
    <3> QED
      BY <1>11, <1>12, <2>7, <3>1, <3>2, <3>3 DEF InOrder
  <2> QED
    BY <1>1, <1>7, <1>12, <2>5, <2>7
<1>13. CASE /\ segs' = W!Trimmed(W!Front(ss) \o <<W!Appended(c, e)>>)
            /\ files' = [fs EXCEPT ![c.id] = Append(@, e)]
            /\ session' = Append(session, e)
  <2>1. PICK t : t = W!Appended(c, e)
    OBVIOUS
  <2>2. c.entries \in Seq(W!Entry)
    BY <1>10, SegmentFields
  <2>3. /\ t \in W!Segment /\ t.id = c.id /\ t.entries = Append(c.entries, e) /\ ~t.sealed /\ ~t.stamped
    <3>1. PICK b \in Seq(W!Entry) : b = Append(c.entries, e)
      <4>1. PICK a \in Seq(W!Entry) : a = c.entries
        BY <2>2
      <4>2. Append(a, e) \in Seq(W!Entry)
        OBVIOUS
      <4> QED
        BY <4>1, <4>2
    <3>2. t = [c EXCEPT !.entries = b, !.stamped = FALSE]
      BY <2>1, <3>1 DEF W!Appended
    <3> QED
      BY <1>9, <1>10, <3>1, <3>2 DEF W!Segment
  <2>4. PICK f : f = W!Front(ss) \o <<t>>
    OBVIOUS
  <2>5. f \in Seq(W!Segment) /\ LastIs(f, ss, t)
    BY <1>9, <2>3, <2>4, LastReplaced
  <2>6. /\ files'[c.id] = Append(c.entries, e) /\ c.id \in DOMAIN files'
        /\ \A x \in DOMAIN fs : x # c.id => x \in DOMAIN files' /\ files'[x] = fs[x]
    BY <1>10, <1>13
  <2>7. GoodSegment(t, files', n)
    BY <1>10, <2>3, <2>6 DEF GoodSegment
  <2>8. GoodSegments(f, files', n)
    BY <1>8, <1>9, <2>3, <2>5, <2>6, <2>7, CurrentChanges
  <2>9. segs' = W!Trimmed(f)
    BY <1>13, <2>1, <2>4
  <2>10. /\ Thinned(segs', f)
         /\ Ordered(f) => \A d, y : Holds(f, d) /\ ~Holds(segs', d) /\ Holds(segs', y) => d.lsn < y.lsn
    BY <2>8, <2>9, TrimThins
  <2>11. GoodSegments(segs', files', n)
    <3>1. \A m \in DOMAIN segs' : segs'[m].id \in DOMAIN files'
      BY <2>8, <2>10 DEF Thinned, Picked, GoodSegments, GoodSegment
    <3> QED
      BY <2>8, <2>10, <3>1, ThinnedIsGood
  <2>12. ASSUME NEW top \in Nat, InOrder(segs, session, top), top < e.lsn PROVE InOrder(segs', session', e.lsn)
    <3>1. e.lsn \in Nat /\ \A d \in W!Entry : d.lsn \in Nat
      BY LogBounds DEF W!Entry
    <3>2. \A x \in DOMAIN session : session[x] \in W!Entry /\ session[x].lsn < e.lsn
      <4>1. \A x \in DOMAIN session : session[x] \in W!Entry /\ session[x].lsn <= top
        BY <1>1, <1>11, <2>12
      <4> QED
        BY <2>12, <3>1, <4>1
    <3>3. \A d : Holds(ss, d) => d.lsn < e.lsn
      <4>1. \A d : Holds(ss, d) => d \in W!Entry
        BY <1>9, SegmentFields DEF Holds
      <4> QED
        BY <1>11, <2>12, <3>1, <4>1
    <3>4. Ordered(f) /\ \A d : Holds(f, d) <=> (Holds(ss, d) \/ d = e)
      BY <1>9, <1>11, <2>2, <2>3, <2>5, <2>12, <3>3, EntryAdded
    <3>5. TailOf(f, session') /\ Ascending(session') /\ session' \in Seq(W!Entry)
      BY <1>1, <1>11, <1>13, <2>12, <3>2, <3>4, TailGrows
    <3>6. Ordered(segs') /\ \A d : Holds(segs', d) => Holds(f, d)
      BY <2>10, <3>4, PickedInOrder DEF Thinned
    <3>7. TailOf(segs', session')
      BY <2>10, <3>4, <3>5, <3>6, ThinnedIsTail
    <3>8. \A x \in DOMAIN session' : session'[x].lsn <= e.lsn
      BY <1>1, <1>13, <3>1, <3>2
    <3> QED
      BY <3>5, <3>6, <3>7, <3>8 DEF InOrder
  <2> QED
    BY <1>1, <1>7, <1>13, <2>11, <2>12
<1> QED
  BY <1>6, <1>12, <1>13

\* get_end_lsn answers a number.
LEMMA EndIsNumber ==
  ASSUME NEW s \in W!Segment
  PROVE  W!EndLsn(s) \in Nat
<1>1. PICK a \in Seq(W!Entry) : a = s.entries
  BY SegmentFields
<1>2. CASE a = <<>>
  BY <1>1, <1>2 DEF W!EndLsn
<1>3. CASE a # <<>>
  <2>1. a[Len(a)] \in W!Entry
    BY <1>3
  <2>2. a[Len(a)].lsn \in Nat
    BY <2>1, LogBounds DEF W!Entry
  <2> QED
    BY <1>1, <1>3, <2>2 DEF W!EndLsn, W!Last
<1> QED
  BY <1>2, <1>3

\* No entry of a segment is beyond its end.
LEMMA EndIsTop ==
  ASSUME NEW ss \in Seq(W!Segment), Ordered(ss), NEW i \in DOMAIN ss, NEW k \in DOMAIN ss[i].entries
  PROVE  /\ W!EndLsn(ss[i]) \in Nat /\ ss[i].entries[k].lsn \in Nat
         /\ W!EndLsn(ss[i]) >= ss[i].entries[k].lsn
<1>1. PICK a \in Seq(W!Entry) : a = ss[i].entries
  BY SegmentFields
<1>2. PICK y \in Nat : y = Len(a) /\ DOMAIN a = 1..y /\ k \in 1..y /\ a # <<>>
  BY <1>1
<1>3. a[y].lsn \in Nat /\ a[k].lsn \in Nat
  <2>1. a[y] \in W!Entry /\ a[k] \in W!Entry
    BY <1>1, <1>2
  <2>2. \A x \in W!Entry : x.lsn \in Nat
    BY LogBounds DEF W!Entry
  <2> QED
    BY <2>1, <2>2
<1>4. a[y].lsn >= a[k].lsn
  <2>1. CASE k = y
    BY <1>3, <2>1
  <2>2. CASE k # y
    <3>1. k < y /\ y \in 1..y
      BY <1>2, <2>2
    <3>2. a[k].lsn < a[y].lsn
      BY <1>1, <1>2, <3>1 DEF Ordered
    <3> QED
      BY <1>3, <3>2
  <2> QED
    BY <2>1, <2>2
<1>5. W!EndLsn(ss[i]) = a[y].lsn
  BY <1>1, <1>2 DEF W!EndLsn, W!Last
<1> QED
  BY <1>1, <1>3, <1>4, <1>5

\* Clean-up takes sealed segments whose numbers are all below l.
LEMMA CleanupThins ==
  ASSUME WalInv, NEW l \in Nat, W!CleanupOldSegments(l)
  PROVE  /\ Thinned(segs', segs)
         /\ \A m \in DOMAIN segs' : segs'[m].id \in DOMAIN files' /\ files'[segs'[m].id] = files[segs'[m].id]
         /\ Ordered(segs) => \A d, e : Holds(segs, d) /\ ~Holds(segs', d) /\ Holds(segs', e) => d.lsn < e.lsn
         /\ Ordered(segs) => \A e : Holds(segs, e) /\ e.lsn >= l => Holds(segs', e)
<1>1. PICK z \in Nat : z = Len(segs) /\ z >= 1 /\ DOMAIN segs = 1..z /\ segs \in Seq(W!Segment)
  BY DEF W!CleanupOldSegments, WalInv, GoodSegments
<1>2. GoodSegments(segs, files, nextId)
  BY DEF W!CleanupOldSegments, WalInv
<1>3. PICK A : A = {i \in DOMAIN segs : ~W!Expendable(segs[i], l)}
  OBVIOUS
<1>4. PICK g : g = {i \in DOMAIN segs : W!Expendable(segs[i], l)}
  OBVIOUS
<1>5. /\ segs' = Select(segs, A)
      /\ files' = [x \in DOMAIN files \ {segs[i].id : i \in g} |-> files[x]]
  <2>1. DOMAIN segs \ g = A
    BY <1>3, <1>4
  <2> QED
    BY <1>4, <2>1, SameInLog DEF W!CleanupOldSegments
<1>6. z \in A /\ A \in SUBSET (DOMAIN segs)
  BY <1>1, <1>2, <1>3 DEF GoodSegments, W!Expendable
<1>7. /\ segs' \in Seq(W!Segment)
      /\ \A m \in DOMAIN segs' : \E i \in A : segs'[m] = segs[i]
      /\ \A v, m \in DOMAIN segs' : v < m =>
           \E i, j \in A : i < j /\ segs'[v] = segs[i] /\ segs'[m] = segs[j]
  <2>1. \A s \in Seq(W!Segment) : \A B \in SUBSET (DOMAIN s) :
          /\ Select(s, B) \in Seq(W!Segment)
          /\ \A m \in DOMAIN Select(s, B) : \E i \in B : Select(s, B)[m] = s[i]
          /\ \A v, m \in DOMAIN Select(s, B) : v < m =>
               \E i, j \in B : i < j /\ Select(s, B)[v] = s[i] /\ Select(s, B)[m] = s[j]
    BY SelectFacts
  <2>2. PICK s \in Seq(W!Segment) : s = segs
    BY <1>1
  <2>3. PICK B \in SUBSET (DOMAIN s) : B = A
    BY <1>6, <2>2
  <2>4. segs' = Select(s, B)
    BY <1>5, <2>2, <2>3
  <2> QED
    BY <2>1, <2>2, <2>3, <2>4
<1>8. \A i \in A : \E m \in DOMAIN segs' : segs'[m] = segs[i]
  <2>1. \A s \in Seq(W!Segment) : \A B \in SUBSET (DOMAIN s) : \A i \in B :
          \E m \in DOMAIN Select(s, B) : Select(s, B)[m] = s[i]
    BY SelectCovers
  <2> QED
    BY <1>1, <1>5, <1>6, <2>1
<1>9. \A i, j \in DOMAIN segs : segs[i].id = segs[j].id => i = j
  <2>1. \A i \in DOMAIN segs : segs[i].id \in Nat
    BY <1>1, SegmentFields
  <2> SUFFICES ASSUME NEW i \in 1..z, NEW j \in 1..z, segs[i].id = segs[j].id, i # j PROVE FALSE
    BY <1>1
  <2>2. i < j \/ j < i
    OBVIOUS
  <2>3. segs[i].id < segs[j].id \/ segs[j].id < segs[i].id
    BY <1>1, <1>2, <2>2 DEF GoodSegments
  <2> QED
    BY <1>1, <2>1, <2>3
<1>10. PICK y \in Nat : y = Len(segs') /\ DOMAIN segs' = 1..y
  BY <1>7
<1>11. y >= 1 /\ segs'[y] = segs[z]
  <2>1. PICK m \in 1..y : segs'[m] = segs[z]
    BY <1>6, <1>8, <1>10
  <2>2. ASSUME m < y PROVE FALSE
    <3>1. m \in DOMAIN segs' /\ y \in DOMAIN segs' /\ m < y
      BY <1>10, <2>2
    <3>2. PICK i \in A : \E j \in A : i < j /\ segs'[m] = segs[i] /\ segs'[y] = segs[j]
      BY <1>7, <3>1
    <3>3. PICK j \in A : i < j /\ segs'[m] = segs[i] /\ segs'[y] = segs[j]
      BY <3>2
    <3>4. i = z
      BY <1>1, <1>6, <1>9, <2>1, <3>3
    <3> QED
      BY <1>1, <1>6, <3>3, <3>4
  <2> QED
    BY <1>10, <2>1, <2>2
<1>12. Thinned(segs', segs)
  <2>1. \A v, m \in DOMAIN segs' : v < m =>
          \E i \in DOMAIN segs : \E j \in DOMAIN segs : i < j /\ segs'[v] = segs[i] /\ segs'[m] = segs[j]
    <3> SUFFICES ASSUME NEW v \in DOMAIN segs', NEW m \in DOMAIN segs', v < m
                 PROVE  \E i \in DOMAIN segs : \E j \in DOMAIN segs : i < j /\ segs'[v] = segs[i] /\ segs'[m] = segs[j]
      OBVIOUS
    <3>1. PICK i \in A : \E j \in A : i < j /\ segs'[v] = segs[i] /\ segs'[m] = segs[j]
      BY <1>7
    <3>2. PICK j \in A : i < j /\ segs'[v] = segs[i] /\ segs'[m] = segs[j]
      BY <3>1
    <3> QED
      BY <1>6, <3>2
  <2>2. \A m \in DOMAIN segs' : \E i \in DOMAIN segs : segs'[m] = segs[i]
    BY <1>6, <1>7
  <2> QED
    BY <1>1, <1>7, <1>10, <1>11, <2>1, <2>2 DEF Thinned, Picked
<1>13. ASSUME NEW m \in DOMAIN segs'
       PROVE  segs'[m].id \in DOMAIN files' /\ files'[segs'[m].id] = files[segs'[m].id]
  <2>1. PICK i \in A : segs'[m] = segs[i]
    BY <1>7
  <2>2. segs[i].id \in DOMAIN files
    BY <1>2, <1>6, <2>1 DEF GoodSegments, GoodSegment
  <2>3. \A j \in g : segs[j].id # segs[i].id
    BY <1>3, <1>4, <1>6, <1>9
  <2> QED
    BY <1>5, <2>1, <2>2, <2>3
<1>14. ASSUME Ordered(segs), NEW d, NEW e, Holds(segs, d), ~Holds(segs', d), Holds(segs', e) PROVE d.lsn < e.lsn
  <2>1. PICK i \in DOMAIN segs : \E k \in DOMAIN segs[i].entries : segs[i].entries[k] = d
    BY <1>14 DEF Holds
  <2>2. PICK k \in DOMAIN segs[i].entries : segs[i].entries[k] = d
    BY <2>1
  <2>3. PICK v \in DOMAIN segs' : \E m \in DOMAIN segs'[v].entries : segs'[v].entries[m] = e
    BY <1>14 DEF Holds
  <2>4. PICK j \in A : segs'[v] = segs[j]
    BY <1>7
  <2>5. PICK m \in DOMAIN segs[j].entries : segs[j].entries[m] = e
    BY <2>3, <2>4
  <2>6. i \notin A
    <3>1. ASSUME i \in A PROVE FALSE
      <4>1. PICK u \in DOMAIN segs' : segs'[u] = segs[i]
        BY <1>8, <3>1
      <4> QED
        BY <1>14, <2>2, <4>1 DEF Holds
    <3> QED
      BY <3>1
  <2>7. W!EndLsn(segs[i]) < l
    BY <1>3, <2>1, <2>6 DEF W!Expendable
  <2>8. ASSUME j < i PROVE FALSE
    <3>1. PICK a \in Seq(W!Entry) : a = segs[i].entries
      BY <1>1, <2>1, SegmentFields
    <3>2. PICK b \in Seq(W!Entry) : b = segs[j].entries
      BY <1>1, <1>6, <2>4, SegmentFields
    <3>3. Len(a) \in DOMAIN a /\ Len(b) \in DOMAIN b /\ a # <<>> /\ b # <<>>
      BY <2>2, <2>5, <3>1, <3>2
    <3>4. W!EndLsn(segs[i]) = a[Len(a)].lsn /\ W!EndLsn(segs[j]) = b[Len(b)].lsn
      BY <3>1, <3>2, <3>3 DEF W!EndLsn, W!Last
    <3>5. W!EndLsn(segs[j]) < W!EndLsn(segs[i])
      BY <1>6, <1>14, <2>8, <3>1, <3>2, <3>3, <3>4 DEF Ordered
    <3>6. segs[j].sealed
      BY <1>1, <1>2, <1>6, <2>8, <3>2, <3>3 DEF GoodSegments
    <3>7. ~(W!EndLsn(segs[j]) < l)
      BY <1>3, <3>6 DEF W!Expendable
    <3>8. W!EndLsn(segs[j]) \in Nat /\ W!EndLsn(segs[i]) \in Nat
      BY <1>1, <1>6, EndIsNumber
    <3> QED
      BY <2>7, <3>5, <3>7, <3>8
  <2>9. i < j
    BY <1>1, <1>6, <2>6, <2>8
  <2> QED
    BY <1>6, <1>14, <2>2, <2>5, <2>9 DEF Ordered
<1>15. ASSUME Ordered(segs), NEW e, Holds(segs, e), e.lsn >= l PROVE Holds(segs', e)
  <2>1. PICK i \in DOMAIN segs : \E k \in DOMAIN segs[i].entries : segs[i].entries[k] = e
    BY <1>15 DEF Holds
  <2>2. PICK k \in DOMAIN segs[i].entries : segs[i].entries[k] = e
    BY <2>1
  <2>3. W!EndLsn(segs[i]) \in Nat /\ e.lsn \in Nat /\ W!EndLsn(segs[i]) >= e.lsn
    BY <1>1, <1>15, <2>2, EndIsTop
  <2>4. i \in A
    BY <1>3, <1>15, <2>3 DEF W!Expendable
  <2>5. PICK m \in DOMAIN segs' : segs'[m] = segs[i]
    BY <1>8, <2>4
  <2> QED
    BY <2>2, <2>5 DEF Holds
<1> QED
  BY <1>12, <1>13, <1>14, <1>15

\* An opened log holds nothing.
LEMMA Opens ==
  ASSUME WalInv, NEW good \in SUBSET (DOMAIN files), W!Open(good)
  PROVE  WalInv'
<1>1. PICK z : z = Cardinality(good)
  OBVIOUS
<1>2. PICK b : b = [n \in 1..z |-> Nth(good, n)]
  OBVIOUS
<1>3. PICK last : last = IF good = {} THEN 0 ELSE W!Last(b)
  OBVIOUS
<1>4. /\ ~open /\ last < MaxSegment /\ open' /\ currentLsn' = 0
      /\ segs' = IF good = {} THEN <<W!NewSegment(1)>> ELSE [i \in DOMAIN b |-> W!NewSegment(b[i])]
      /\ nextId' = IF good = {} THEN 2 ELSE last + 1
      /\ files' = [x \in DOMAIN files \union (IF good = {} THEN {1} ELSE {}) |-> <<>>]
      /\ UNCHANGED <<migrating, migrated, session, before>>
  BY <1>1, <1>2, <1>3, SameInLog DEF W!Open
<1>5. /\ DOMAIN files \subseteq 1..MaxSegment /\ MaxSegment \in Nat /\ MaxLsn \in Nat
      /\ segs = <<>> /\ session = <<>> /\ migrated \in BOOLEAN /\ migrating \in -1..Len(Legacy)
  BY <1>4, LogBounds DEF WalInv
<1>6. open' \in BOOLEAN
  BY <1>4 DEF W!Open
<1>7. ASSUME NEW x \in 1..MaxSegment
      PROVE  /\ W!NewSegment(x) \in W!Segment /\ W!NewSegment(x).id = x
             /\ W!NewSegment(x).entries = <<>> /\ ~W!NewSegment(x).sealed
  BY <1>7 DEF W!NewSegment, W!Segment
<1>8. /\ GoodSegments(segs', files', nextId') /\ nextId' \in 1..(MaxSegment + 1)
      /\ DOMAIN files' \subseteq 1..MaxSegment
      /\ \A i \in DOMAIN segs' : segs'[i].entries = <<>>
  <2>1. CASE good = {}
    <3>1. 1 \in 1..MaxSegment
      BY <1>3, <1>4, <1>5, <2>1
    <3>2. PICK s : s = W!NewSegment(1)
      OBVIOUS
    <3>3. s \in W!Segment /\ s.id = 1 /\ s.entries = <<>> /\ ~s.sealed
      BY <1>7, <3>1, <3>2
    <3>4. segs' = <<s>> /\ nextId' = 2 /\ files' = [x \in DOMAIN files \union {1} |-> <<>>]
      BY <1>4, <2>1, <3>2
    <3>5. 1 \in DOMAIN files' /\ files'[1] = <<>> /\ DOMAIN files' \subseteq 1..MaxSegment /\ nextId' \in 1..(MaxSegment + 1)
      BY <1>5, <3>1, <3>4
    <3>6. GoodSegment(s, files', nextId')
      BY <3>3, <3>4, <3>5 DEF GoodSegment
    <3>7. segs' \in Seq(W!Segment) /\ Len(segs') = 1 /\ DOMAIN segs' = {1} /\ segs'[1] = s
      BY <3>3, <3>4
    <3>8. GoodSegments(segs', files', nextId')
      BY <3>3, <3>6, <3>7 DEF GoodSegments
    <3> QED
      BY <3>3, <3>5, <3>7, <3>8
  <2>2. CASE good # {}
    <3>1. /\ z \in 0..MaxSegment
          /\ \A m \in 1..z : Nth(good, m) \in good
          /\ \A v, m \in 1..z : v < m => Nth(good, v) < Nth(good, m)
          /\ \A x \in good : \E m \in 1..z : x = Nth(good, m)
      BY <1>1, <1>5, NthFacts
    <3>2. z \in Nat /\ z >= 1 /\ DOMAIN b = 1..z
      BY <1>2, <2>2, <3>1
    <3>3. \A m \in 1..z : b[m] \in good /\ b[m] \in 1..MaxSegment
      BY <1>2, <1>5, <3>1
    <3>4. \A v, m \in 1..z : v < m => b[v] < b[m]
      BY <1>2, <3>1
    <3>5. b \in Seq(1..MaxSegment) /\ Len(b) = z
      BY <3>2, <3>3, <1>2
    <3>6. last = b[z] /\ \A m \in 1..z : b[m] < last + 1
      <4>1. last = b[z]
        BY <1>3, <2>2, <3>5 DEF W!Last
      <4>2. \A m \in 1..z : m = z \/ m < z
        BY <3>2
      <4> QED
        BY <3>2, <3>3, <3>4, <4>1, <4>2
    <3>7. segs' = [i \in 1..z |-> W!NewSegment(b[i])] /\ nextId' = last + 1 /\ files' = [x \in DOMAIN files |-> <<>>]
      BY <1>4, <2>2, <3>2
    <3>8. ASSUME NEW i \in 1..z
          PROVE  /\ segs'[i] \in W!Segment /\ segs'[i].id = b[i] /\ segs'[i].entries = <<>> /\ ~segs'[i].sealed
                 /\ GoodSegment(segs'[i], files', nextId')
      <4>1. segs'[i] \in W!Segment /\ segs'[i].id = b[i] /\ segs'[i].entries = <<>> /\ ~segs'[i].sealed
        BY <1>7, <3>3, <3>7
      <4>2. b[i] \in DOMAIN files' /\ files'[b[i]] = <<>> /\ b[i] < nextId'
        BY <3>3, <3>6, <3>7
      <4> QED
        BY <4>1, <4>2 DEF GoodSegment
    <3>9. segs' \in Seq(W!Segment) /\ Len(segs') = z /\ DOMAIN segs' = 1..z
      BY <3>2, <3>7, <3>8
    <3>10. GoodSegments(segs', files', nextId')
      BY <3>2, <3>4, <3>8, <3>9 DEF GoodSegments
    <3>11. nextId' \in 1..(MaxSegment + 1)
      BY <1>5, <3>2, <3>3, <3>6, <3>7
    <3> QED
      BY <1>5, <3>7, <3>8, <3>9, <3>10, <3>11
  <2> QED
    BY <2>1, <2>2
<1>9. InOrder(segs', session', currentLsn')
  <2>1. session' = <<>> /\ Len(session') = 0 /\ DOMAIN session' = {} /\ DOMAIN <<>> = {}
    BY <1>4, <1>5
  <2>2. \A e : ~Holds(segs', e)
    BY <1>8, <2>1 DEF Holds
  <2>3. TailOf(segs', session')
    <3>1. 0 \in 0..Len(session') /\ \A x \in (0 + 1)..Len(session') : FALSE
      BY <2>1
    <3> QED
      BY <2>2, <3>1 DEF TailOf
  <2>4. Ordered(segs')
    BY <1>8, <2>1 DEF Ordered
  <2> QED
    BY <2>1, <2>3, <2>4 DEF InOrder, Ascending
<1> QED
  BY <1>4, <1>5, <1>6, <1>8, <1>9, SMTT(60) DEF WalInv

\* An empty log is in order.
LEMMA EmptyInOrder ==
  ASSUME NEW top
  PROVE  InOrder(<<>>, <<>>, top)
<1>1. DOMAIN <<>> = {} /\ Len(<<>>) = 0
  OBVIOUS
<1>2. 0 \in 0..0 /\ \A x \in (0 + 1)..0 : FALSE
  OBVIOUS
<1>3. \A e : ~Holds(<<>>, e)
  BY <1>1 DEF Holds
<1>4. TailOf(<<>>, <<>>)
  BY <1>1, <1>2, <1>3 DEF TailOf
<1> QED
  BY <1>1, <1>4 DEF InOrder, Ordered, Ascending

\* The files after a write.
LEMMA FilesOfWrite ==
  ASSUME WalInv, open, NEW e, NEW big, NEW fails, W!Write(e, big, fails)
  PROVE  DOMAIN files' \subseteq 1..MaxSegment
<1>1. PICK roll \in BOOLEAN : roll <=> ~W!CanAdd(W!Last(segs), big)
  OBVIOUS
<1>2. PICK ss : ss = IF roll THEN W!Rolled(segs) ELSE segs
  OBVIOUS
<1>3. PICK fs : fs = IF roll THEN W!Truncated(files, W!Last(ss).id) ELSE files
  OBVIOUS
<1>4. DOMAIN files' = DOMAIN fs /\ (roll => nextId <= MaxSegment)
  <2>1. files' = fs \/ files' = [fs EXCEPT ![W!Last(ss).id] = Append(@, e)]
    BY <1>1, <1>2, <1>3 DEF W!Write
  <2>2. roll => nextId <= MaxSegment
    BY <1>1 DEF W!Write
  <2> QED
    BY <2>1, <2>2
<1>5. CASE roll
  <2>1. nextId \in 1..MaxSegment /\ GoodSegments(segs, files, nextId)
    BY <1>4, <1>5, LogBounds DEF WalInv
  <2>2. W!Last(ss) = W!NewSegment(nextId)
    BY <1>2, <1>5, <2>1, SegmentRolls DEF W!Last
  <2>3. W!Last(ss).id = nextId
    BY <2>2 DEF W!NewSegment
  <2> QED
    BY <1>3, <1>4, <1>5, <2>1, <2>3 DEF W!Truncated, WalInv
<1>6. CASE ~roll
  BY <1>3, <1>4, <1>6 DEF WalInv
<1> QED
  BY <1>5, <1>6

\* Every step of the log keeps its invariant.
LEMMA WalStep == WalInv /\ W!WNext => WalInv'
<1> SUFFICES ASSUME WalInv, W!WNext PROVE WalInv'
  OBVIOUS
<1>1. /\ MaxLsn \in Nat /\ MaxSegment \in Nat /\ currentLsn \in 0..MaxLsn /\ migrating \in -1..Len(Legacy)
      /\ Legacy \in Seq(Payloads) /\ Len(Legacy) \in Nat /\ Len(Legacy) <= MaxLsn
  BY LogBounds DEF WalInv
<1>2. ASSUME NEW data \in Payloads, NEW big \in BOOLEAN, NEW fails \in BOOLEAN, W!Log(data, big, fails)
      PROVE  WalInv'
  <2>1. PICK e : e = [lsn |-> currentLsn + 1, data |-> data]
    OBVIOUS
  <2>2. /\ open /\ open' /\ currentLsn < MaxLsn /\ currentLsn' = currentLsn + 1
        /\ W!Write(e, big, fails) /\ open' \in BOOLEAN
        /\ UNCHANGED <<open, migrating, migrated, before>>
    BY <1>2, <2>1 DEF W!Log, WalInv
  <2>3. e \in W!Entry /\ e.lsn = currentLsn + 1
    BY <1>1, <2>1, <2>2 DEF W!Entry
  <2>4. DOMAIN files' \subseteq 1..MaxSegment
    BY <2>2, FilesOfWrite
  <2>5. /\ GoodSegments(segs', files', nextId') /\ nextId' \in 1..(MaxSegment + 1)
        /\ session' \in Seq(W!Entry)
        /\ \A top \in Nat : InOrder(segs, session, top) /\ top < e.lsn => InOrder(segs', session', e.lsn)
    BY <2>2, <2>3, <2>4, EntryWritten
  <2>6. ~migrated' => InOrder(segs', session', currentLsn')
    <3>1. currentLsn \in Nat /\ currentLsn < currentLsn + 1
      BY <1>1
    <3> QED
      BY <2>2, <2>3, <2>5, <3>1 DEF WalInv
  <2>7. currentLsn' \in 0..MaxLsn
    BY <1>1, <2>2
  <2> QED
    BY <2>2, <2>4, <2>5, <2>6, <2>7 DEF WalInv
<1>3. ASSUME W!StartMigration PROVE WalInv'
  <2>1. /\ open /\ migrating' = 0
        /\ UNCHANGED <<segs, files, currentLsn, nextId, open, migrated, session, before>>
    BY <1>3 DEF W!StartMigration
  <2>2. 0 \in -1..Len(Legacy)
    BY <1>1
  <2> QED
    BY <2>1, <2>2 DEF WalInv
<1>4. ASSUME W!MigrateLine PROVE WalInv'
  <2>1. PICK m \in Nat : m = migrating /\ m \in 0..(Len(Legacy) - 1)
    BY <1>4 DEF W!MigrateLine
  <2>2. PICK e : e = [lsn |-> m + 1, data |-> Legacy[m + 1]]
    OBVIOUS
  <2>3. /\ open /\ open' /\ W!Write(e, FALSE, FALSE) /\ migrating' = m + 1 /\ migrated' = TRUE
        /\ UNCHANGED <<currentLsn, open, before>>
    BY <1>4, <2>1, <2>2 DEF W!MigrateLine
  <2>4. m + 1 \in 1..Len(Legacy) /\ m + 1 \in 1..MaxLsn /\ m + 1 \in -1..Len(Legacy)
    BY <1>1, <2>1
  <2>5. Legacy[m + 1] \in Payloads
    BY <1>1, <2>4
  <2>6. e \in W!Entry
    BY <2>2, <2>4, <2>5 DEF W!Entry
  <2>7. DOMAIN files' \subseteq 1..MaxSegment
    BY <2>3, FilesOfWrite
  <2>8. /\ GoodSegments(segs', files', nextId') /\ nextId' \in 1..(MaxSegment + 1)
        /\ session' \in Seq(W!Entry)
    BY <2>3, <2>6, <2>7, EntryWritten
  <2>9. open' \in BOOLEAN /\ migrated' \in BOOLEAN
    BY <2>3 DEF WalInv
  <2> QED
    BY <1>1, <2>3, <2>4, <2>7, <2>8, <2>9 DEF WalInv
<1>5. ASSUME W!SealCurrentSegment PROVE WalInv'
  <2>1. /\ open /\ nextId <= MaxSegment /\ nextId' = nextId + 1
        /\ segs' = W!Rolled(segs) /\ files' = W!Truncated(files, nextId)
        /\ UNCHANGED <<currentLsn, open, migrating, migrated, session, before>>
    BY <1>5 DEF W!SealCurrentSegment
  <2>2. nextId \in 1..MaxSegment /\ GoodSegments(segs, files, nextId) /\ nextId' \in 1..(MaxSegment + 1)
    BY <1>1, <2>1 DEF WalInv
  <2>3. GoodSegments(segs', files', nextId') /\ SameEntries(segs', segs)
    BY <2>1, <2>2, SegmentRolls
  <2>4. DOMAIN files' \subseteq 1..MaxSegment
    BY <2>1, <2>2 DEF W!Truncated, WalInv
  <2>5. ~migrated => InOrder(segs', session', currentLsn')
    <3> SUFFICES ASSUME ~migrated PROVE InOrder(segs', session', currentLsn')
      OBVIOUS
    <3>1. InOrder(segs, session, currentLsn)
      BY DEF WalInv
    <3>2. Ordered(segs') /\ \A e : Holds(segs', e) <=> Holds(segs, e)
      BY <2>3, <3>1, NothingMoved DEF InOrder
    <3> QED
      BY <2>1, <3>1, <3>2 DEF InOrder, TailOf
  <2> QED
    BY <2>1, <2>2, <2>3, <2>4, <2>5 DEF WalInv
<1>6. ASSUME NEW l \in 1..(MaxLsn + 1), W!CleanupOldSegments(l) PROVE WalInv'
  <2>1. l \in Nat
    BY <1>1
  <2>2. /\ open /\ DOMAIN files' \subseteq DOMAIN files
        /\ UNCHANGED <<currentLsn, nextId, open, migrating, migrated, session, before>>
    BY <1>6 DEF W!CleanupOldSegments
  <2>3. /\ Thinned(segs', segs)
        /\ \A m \in DOMAIN segs' : segs'[m].id \in DOMAIN files' /\ files'[segs'[m].id] = files[segs'[m].id]
        /\ Ordered(segs) => \A d, e : Holds(segs, d) /\ ~Holds(segs', d) /\ Holds(segs', e) => d.lsn < e.lsn
    BY <1>6, <2>1, CleanupThins
  <2>4. GoodSegments(segs', files', nextId')
    <3>1. GoodSegments(segs, files, nextId) /\ nextId \in Nat
      BY <2>2, LogBounds DEF WalInv
    <3> QED
      BY <2>2, <2>3, <3>1, ThinnedIsGood
  <2>5. ~migrated => InOrder(segs', session', currentLsn')
    <3> SUFFICES ASSUME ~migrated PROVE InOrder(segs', session', currentLsn')
      OBVIOUS
    <3>1. InOrder(segs, session, currentLsn) /\ session \in Seq(W!Entry)
      BY DEF WalInv
    <3>2. Ordered(segs') /\ \A e : Holds(segs', e) => Holds(segs, e)
      BY <2>3, <3>1, PickedInOrder DEF InOrder, Thinned
    <3>3. TailOf(segs', session)
      BY <2>3, <3>1, <3>2, ThinnedIsTail DEF InOrder
    <3> QED
      BY <2>2, <3>1, <3>2, <3>3 DEF InOrder
  <2> QED
    BY <2>2, <2>4, <2>5 DEF WalInv
<1>7. ASSUME W!Close PROVE WalInv'
  <2>1. /\ ~open' /\ open' \in BOOLEAN /\ segs' = <<>> /\ session' = <<>> /\ migrating' = -1 /\ ~migrated'
        /\ migrated' \in BOOLEAN
        /\ UNCHANGED <<files, currentLsn, nextId>>
    BY <1>7 DEF W!Close
  <2>2. InOrder(<<>>, <<>>, currentLsn)
    BY EmptyInOrder
  <2>3. -1 \in -1..Len(Legacy) /\ <<>> \in Seq(W!Entry)
    BY <1>1
  <2> QED
    BY <2>1, <2>2, <2>3 DEF WalInv
<1>8. ASSUME NEW good \in SUBSET (DOMAIN files), W!Open(good) PROVE WalInv'
  BY <1>8, Opens
<1> QED
  BY <1>2, <1>3, <1>4, <1>5, <1>6, <1>7, <1>8 DEF W!WNext

\* Where the entries are.
LEMMA PlacesAre ==
  ASSUME NEW ss \in Seq(W!Segment), NEW l \in Nat, NEW p \in W!Places(ss, l)
  PROVE  /\ p = <<p[1], p[2]>> /\ p[1] \in DOMAIN ss /\ p[2] \in DOMAIN ss[p[1]].entries
         /\ p[1] \in Nat /\ p[2] \in Nat
         /\ ss[p[1]].entries[p[2]] \in W!Entry /\ ss[p[1]].entries[p[2]].lsn \in Nat
         /\ ss[p[1]].entries[p[2]].lsn >= l
<1>1. PICK i \in DOMAIN ss : p \in {i} \X DOMAIN ss[i].entries
  BY DEF W!Places
<1>2. p = <<p[1], p[2]>> /\ p[1] = i /\ p[2] \in DOMAIN ss[i].entries
  BY <1>1
<1>3. ss[p[1]].entries[p[2]].lsn >= l
  BY DEF W!Places
<1>4. ss[i] \in W!Segment /\ i \in Nat
  OBVIOUS
<1>5. PICK a \in Seq(W!Entry) : a = ss[i].entries
  BY <1>4, SegmentFields
<1>6. p[2] \in Nat /\ a[p[2]] \in W!Entry
  BY <1>2, <1>5
<1>7. \A e \in W!Entry : e.lsn \in Nat
  BY LogBounds DEF W!Entry
<1> QED
  BY <1>2, <1>3, <1>4, <1>5, <1>6, <1>7

\* The sorted entries of ss are t, if t has the same and is sorted.
LEMMA SortedAre ==
  ASSUME NEW ss \in Seq(W!Segment), Ordered(ss), NEW l \in Nat,
         NEW t \in Seq(W!Entry), Ascending(t),
         \A e : (Holds(ss, e) /\ e.lsn >= l) <=> \E x \in DOMAIN t : t[x] = e
  PROVE  W!SortedEntries(ss, l) = t
<1> DEFINE at(p) == ss[p[1]].entries[p[2]]
<1>1. PICK z \in Nat : z = Len(t) /\ DOMAIN t = 1..z
  OBVIOUS
<1>2. PICK P : P = W!Places(ss, l)
  OBVIOUS
<1>3. \A p \in P : /\ p = <<p[1], p[2]>> /\ p[1] \in DOMAIN ss /\ p[2] \in DOMAIN ss[p[1]].entries
                   /\ p[1] \in Nat /\ p[2] \in Nat /\ at(p).lsn \in Nat /\ at(p).lsn >= l
  BY <1>2, PlacesAre
<1>4. \A i \in DOMAIN ss : \A k \in DOMAIN ss[i].entries : ss[i].entries[k].lsn >= l => <<i, k>> \in P
  BY <1>2 DEF W!Places
<1>5. \A x \in 1..z : t[x].lsn \in Nat
  <2>1. \A e \in W!Entry : e.lsn \in Nat
    BY LogBounds DEF W!Entry
  <2> QED
    BY <1>1, <2>1
<1>6. \A x, y \in 1..z : x < y => t[x].lsn < t[y].lsn
  BY <1>1 DEF Ascending
<1>7. \A p \in P : \E x \in 1..z : t[x] = at(p)
  <2> SUFFICES ASSUME NEW p \in P PROVE \E x \in 1..z : t[x] = at(p)
    OBVIOUS
  <2>1. Holds(ss, at(p)) /\ at(p).lsn >= l
    BY <1>3 DEF Holds
  <2> QED
    BY <1>1, <2>1
<1>8. \A x \in 1..z : \E p \in P : at(p) = t[x]
  <2> SUFFICES ASSUME NEW x \in 1..z PROVE \E p \in P : at(p) = t[x]
    OBVIOUS
  <2>1. Holds(ss, t[x]) /\ t[x].lsn >= l
    BY <1>1
  <2>2. PICK i \in DOMAIN ss : \E k \in DOMAIN ss[i].entries : ss[i].entries[k] = t[x]
    BY <2>1 DEF Holds
  <2>3. PICK k \in DOMAIN ss[i].entries : ss[i].entries[k] = t[x]
    BY <2>2
  <2>4. <<i, k>> \in P /\ at(<<i, k>>) = t[x]
    BY <1>4, <2>1, <2>3
  <2> QED
    BY <2>4
<1>9. \A p, q \in P : at(p).lsn = at(q).lsn => p = q
  <2> SUFFICES ASSUME NEW p \in P, NEW q \in P, at(p).lsn = at(q).lsn PROVE p = q
    OBVIOUS
  <2>1. /\ p[1] \in Nat /\ q[1] \in Nat /\ p[2] \in Nat /\ q[2] \in Nat
        /\ p[1] \in DOMAIN ss /\ q[1] \in DOMAIN ss
        /\ p[2] \in DOMAIN ss[p[1]].entries /\ q[2] \in DOMAIN ss[q[1]].entries /\ at(p).lsn \in Nat
    BY <1>3
  <2>2. ASSUME p[1] < q[1] \/ q[1] < p[1] PROVE FALSE
    <3>1. at(p).lsn < at(q).lsn \/ at(q).lsn < at(p).lsn
      BY <2>1, <2>2 DEF Ordered
    <3> QED
      BY <2>1, <3>1
  <2>3. p[1] = q[1]
    BY <2>1, <2>2
  <2>4. ASSUME p[2] < q[2] \/ q[2] < p[2] PROVE FALSE
    <3>1. at(p).lsn < at(q).lsn \/ at(q).lsn < at(p).lsn
      BY <2>1, <2>3, <2>4 DEF Ordered
    <3> QED
      BY <2>1, <3>1
  <2>5. p[2] = q[2]
    BY <2>1, <2>4
  <2> QED
    BY <1>3, <2>3, <2>5
<1> HIDE DEF at
<1>10. PICK f \in [1..z -> P] : \A x \in 1..z : at(f[x]) = t[x]
  <2>1. PICK f : f = [x \in 1..z |-> CHOOSE p \in P : at(p) = t[x]]
    OBVIOUS
  <2>2. \A x \in 1..z : f[x] \in P /\ at(f[x]) = t[x]
    BY <1>8, <2>1
  <2>3. f \in [1..z -> P]
    BY <2>1, <2>2
  <2> QED
    BY <2>2, <2>3
<1>11. \A x, y \in 1..z : f[x] = f[y] => x = y
  <2> SUFFICES ASSUME NEW x \in 1..z, NEW y \in 1..z, f[x] = f[y], x # y PROVE FALSE
    OBVIOUS
  <2>1. t[x] = t[y] /\ (x < y \/ y < x)
    BY <1>10
  <2> QED
    BY <1>5, <1>6, <2>1
<1>12. \A p \in P : \E x \in 1..z : f[x] = p
  BY <1>7, <1>9, <1>10, SMTT(60)
<1>13. \A k \in 0..z : {f[x] : x \in 1..k} \subseteq P /\ Cardinality({f[x] : x \in 1..k}) = k
  <2> SUFFICES ASSUME NEW k \in 0..z PROVE {f[x] : x \in 1..k} \subseteq P /\ Cardinality({f[x] : x \in 1..k}) = k
    OBVIOUS
  <2>1. PICK B : B = {f[x] : x \in 1..k}
    OBVIOUS
  <2>2. PICK h : h = [x \in 1..k |-> f[x]]
    OBVIOUS
  <2>3. \A x \in 1..k : x \in 1..z
    BY <1>1
  <2>4. h \in [1..k -> B] /\ (\A x, y \in 1..k : h[x] = h[y] => x = y) /\ \A b \in B : \E x \in 1..k : h[x] = b
    BY <1>11, <2>1, <2>2, <2>3
  <2>5. h \in Bijection(1..k, B)
    BY <2>4 DEF Bijection, Injection, Surjection, IsInjective
  <2>6. ExistsBijection(1..k, B)
    BY <2>5 DEF ExistsBijection
  <2>7. k \in Nat /\ 1 \in Int /\ k \in Int /\ (IF 1 > k THEN 0 ELSE k - 1 + 1) = k
    BY <1>1
  <2>8. IsFiniteSet(1..k) /\ Cardinality(1..k) = k
    BY <2>7, FS_Interval
  <2>9. Cardinality(B) = Cardinality(1..k)
    BY <2>6, <2>8, FS_Bijection
  <2> QED
    BY <1>10, <2>1, <2>3, <2>8, <2>9
<1>14. Cardinality(P) = z
  <2>1. P = {f[x] : x \in 1..z} /\ z \in 0..z
    BY <1>1, <1>10, <1>12
  <2> QED
    BY <1>13, <2>1
<1>15. \A k \in 1..z : {q \in P : W!NotAfter(ss, q, f[k])} = {f[x] : x \in 1..k}
  <2> SUFFICES ASSUME NEW k \in 1..z PROVE {q \in P : W!NotAfter(ss, q, f[k])} = {f[x] : x \in 1..k}
    OBVIOUS
  <2>1. \A x \in 1..z : W!NotAfter(ss, f[x], f[k]) <=> x <= k
    <3> SUFFICES ASSUME NEW x \in 1..z PROVE W!NotAfter(ss, f[x], f[k]) <=> x <= k
      OBVIOUS
    <3>1. PICK p \in P, q \in P : p = f[x] /\ q = f[k] /\ at(p) = t[x] /\ at(q) = t[k]
      BY <1>10
    <3>2. CASE x < k
      <4>1. at(p).lsn < at(q).lsn
        BY <1>6, <3>1, <3>2
      <4> QED
        BY <3>1, <3>2, <4>1 DEF W!NotAfter, at
    <3>3. CASE k < x
      <4>1. at(q).lsn < at(p).lsn
        BY <1>6, <3>1, <3>3
      <4>2. ~(at(p).lsn < at(q).lsn) /\ at(p).lsn # at(q).lsn
        BY <1>5, <3>1, <4>1
      <4> QED
        BY <3>1, <3>3, <4>2 DEF W!NotAfter, at
    <3>4. CASE x = k
      <4>1. p = q /\ p[2] \in Nat
        BY <1>3, <3>1, <3>4
      <4> QED
        BY <3>1, <3>4, <4>1 DEF W!NotAfter, at
    <3> QED
      BY <3>2, <3>3, <3>4
  <2>2. \A x \in 1..k : x \in 1..z
    OBVIOUS
  <2> QED
    BY <1>10, <1>12, <2>1, <2>2
<1>16. ASSUME NEW n \in 1..z
       PROVE  at(CHOOSE p \in P : W!Cardinality({q \in P : W!NotAfter(ss, q, p)}) = n) = t[n]
  <2> DEFINE rank(p) == W!Cardinality({q \in P : W!NotAfter(ss, q, p)})
  <2>1. \A k \in 1..z : rank(f[k]) = k
    <3> SUFFICES ASSUME NEW k \in 1..z PROVE rank(f[k]) = k
      OBVIOUS
    <3>1. {q \in P : W!NotAfter(ss, q, f[k])} = {f[x] : x \in 1..k} /\ k \in 0..z
      BY <1>15
    <3> QED
      BY <1>13, <3>1, SameInLog
  <2> HIDE DEF rank
  <2>2. \E p \in P : rank(p) = n
    BY <1>10, <2>1
  <2>3. PICK p : p = CHOOSE q \in P : rank(q) = n
    OBVIOUS
  <2>4. p \in P /\ rank(p) = n
    BY <2>2, <2>3
  <2>5. p = f[n]
    BY <1>12, <2>1, <2>4
  <2> QED
    BY <1>10, <2>3, <2>5 DEF rank
<1>17. W!SortedEntries(ss, l) = [n \in 1..z |-> at(CHOOSE p \in P : W!Cardinality({q \in P : W!NotAfter(ss, q, p)}) = n)]
  BY <1>2, <1>14, SameInLog DEF W!SortedEntries, at
<1>18. W!SortedEntries(ss, l) = [n \in 1..z |-> t[n]]
  BY <1>16, <1>17
<1> QED
  BY <1>1, <1>18

\* A sorted sequence has the newest of s.
LEMMA TailSorted ==
  ASSUME NEW s \in Seq(W!Entry), Ascending(s), NEW H, IsTail(H, s)
  PROVE  \E t \in Seq(W!Entry) :
           /\ Ascending(t) /\ \A e : e \in H <=> \E x \in DOMAIN t : t[x] = e
           /\ \E n \in 0..Len(s) : t = SubSeq(s, n + 1, Len(s))
<1>1. PICK z \in Nat : z = Len(s) /\ DOMAIN s = 1..z
  OBVIOUS
<1>2. PICK n \in 0..z : \A e : e \in H <=> \E x \in (n + 1)..z : s[x] = e
  BY <1>1 DEF IsTail
<1>3. PICK t : t = SubSeq(s, n + 1, z)
  OBVIOUS
<1>4. t \in Seq(W!Entry) /\ DOMAIN t = 1..(z - n) /\ \A x \in 1..(z - n) : t[x] = s[x + n]
  BY <1>1, <1>3
<1>5. \A x \in 1..(z - n) : x + n \in (n + 1)..z /\ x + n \in 1..z
  BY <1>1
<1>6. \A x \in (n + 1)..z : x - n \in 1..(z - n) /\ (x - n) + n = x
  BY <1>1
<1>7. \A e : e \in H <=> \E x \in 1..(z - n) : t[x] = e
  <2>1. ASSUME NEW e \in H PROVE \E x \in 1..(z - n) : t[x] = e
    <3>1. PICK y \in (n + 1)..z : s[y] = e
      BY <1>2, <2>1
    <3>2. y - n \in 1..(z - n) /\ (y - n) + n = y
      BY <1>6
    <3>3. t[y - n] = s[(y - n) + n]
      BY <1>4, <3>2
    <3> QED
      BY <3>1, <3>2, <3>3
  <2>2. ASSUME NEW x \in 1..(z - n) PROVE t[x] \in H
    <3>1. x + n \in (n + 1)..z /\ t[x] = s[x + n]
      BY <1>4, <1>5
    <3> QED
      BY <1>2, <3>1
  <2> QED
    BY <2>1, <2>2
<1>8. ASSUME NEW a \in 1..(z - n), NEW b \in 1..(z - n), a < b PROVE t[a].lsn < t[b].lsn
  <2>1. a + n < b + n /\ a + n \in 1..z /\ b + n \in 1..z
    BY <1>1, <1>5, <1>8
  <2> QED
    BY <1>1, <1>4, <2>1 DEF Ascending
<1> QED
  BY <1>1, <1>3, <1>4, <1>7, <1>8, ZenonT(60) DEF Ascending

\* The entries that the segments hold from l on.
Since(ss, l) == {e \in W!Entry : Holds(ss, e) /\ e.lsn >= l}

\* get_entries_since_lsn answers the sequence of those entries in their order.
LEMMA SinceAre ==
  ASSUME NEW ss \in Seq(W!Segment), Ordered(ss), NEW l \in Nat, NEW t \in Seq(W!Entry), Ascending(t),
         \A e : e \in Since(ss, l) <=> \E x \in DOMAIN t : t[x] = e
  PROVE  W!SortedEntries(Select(ss, {i \in DOMAIN ss : W!EndLsn(ss[i]) >= l}), l) = t
<1>1. PICK B : B = {i \in DOMAIN ss : W!EndLsn(ss[i]) >= l}
  OBVIOUS
<1>2. B \in SUBSET (DOMAIN ss)
  BY <1>1
<1>3. PICK r : r = Select(ss, B)
  OBVIOUS
<1>4. r \in Seq(W!Segment) /\ Picked(r, ss)
  <2>1. /\ r \in Seq(W!Segment)
        /\ \A m \in DOMAIN r : \E i \in B : r[m] = ss[i]
        /\ \A v, m \in DOMAIN r : v < m => \E i, j \in B : i < j /\ r[v] = ss[i] /\ r[m] = ss[j]
    BY <1>2, <1>3, SelectFacts
  <2>2. ASSUME NEW v \in DOMAIN r, NEW m \in DOMAIN r, v < m
        PROVE  \E i \in DOMAIN ss : \E j \in DOMAIN ss : i < j /\ r[v] = ss[i] /\ r[m] = ss[j]
    <3>1. PICK i \in B : \E j \in B : i < j /\ r[v] = ss[i] /\ r[m] = ss[j]
      BY <2>1, <2>2
    <3>2. PICK j \in B : i < j /\ r[v] = ss[i] /\ r[m] = ss[j]
      BY <3>1
    <3> QED
      BY <1>2, <3>2
  <2> QED
    BY <1>2, <2>1, <2>2 DEF Picked
<1>5. Ordered(r) /\ \A e : Holds(r, e) => Holds(ss, e)
  BY <1>4, PickedInOrder
<1>6. \A i \in B : \E m \in DOMAIN r : r[m] = ss[i]
  BY <1>2, <1>3, SelectCovers
<1>7. ASSUME NEW e, Holds(ss, e), e.lsn >= l PROVE Holds(r, e)
  <2>1. PICK i \in DOMAIN ss : \E k \in DOMAIN ss[i].entries : ss[i].entries[k] = e
    BY <1>7 DEF Holds
  <2>2. PICK k \in DOMAIN ss[i].entries : ss[i].entries[k] = e
    BY <2>1
  <2>3. W!EndLsn(ss[i]) \in Nat /\ e.lsn \in Nat /\ W!EndLsn(ss[i]) >= e.lsn
    BY <2>2, EndIsTop
  <2>8. i \in B
    BY <1>1, <1>7, <2>3
  <2>9. PICK m \in DOMAIN r : r[m] = ss[i]
    BY <1>6, <2>8
  <2> QED
    BY <2>2, <2>9 DEF Holds
<1>8. \A e : (Holds(r, e) /\ e.lsn >= l) <=> \E x \in DOMAIN t : t[x] = e
  <2>1. ASSUME NEW e, Holds(r, e) PROVE e \in W!Entry
    BY <1>4, <2>1, SegmentFields DEF Holds
  <2> QED
    BY <1>5, <1>7, <2>1 DEF Since
<1>9. W!SortedEntries(r, l) = t
  BY <1>4, <1>5, <1>8, SortedAre
<1> QED
  BY <1>1, <1>3, <1>9

\* What is held from l on is the end of what was acknowledged.
LEMMA SinceIsTail ==
  ASSUME NEW ss, NEW s \in Seq(W!Entry), NEW top, InOrder(ss, s, top), NEW l \in Nat
  PROVE  IsTail(Since(ss, l), s)
<1>1. ASSUME NEW d, NEW e \in Since(ss, l), Holds(ss, d), d \notin Since(ss, l) PROVE d.lsn < e.lsn
  <2>1. PICK n \in 0..Len(s) : \A y : Holds(ss, y) <=> \E x \in (n + 1)..Len(s) : s[x] = y
    BY DEF InOrder, TailOf
  <2>2. \A x \in (n + 1)..Len(s) : s[x] \in W!Entry
    OBVIOUS
  <2>3. d \in W!Entry /\ e \in W!Entry
    BY <1>1, <2>1, <2>2 DEF Since
  <2>4. d.lsn \in Nat /\ e.lsn \in Nat
    BY <2>3, LogBounds DEF W!Entry
  <2> QED
    BY <1>1, <2>3, <2>4 DEF Since
<1>2. \A e \in Since(ss, l) : Holds(ss, e)
  BY DEF Since
<1> QED
  BY <1>1, <1>2, NewestAreTail DEF InOrder

\* Replay hands out the end of what was acknowledged.
LEMMA ReplayIsTail == WalInv => W!ReplayIsSuffix
<1> SUFFICES ASSUME WalInv, open, ~migrated
             PROVE  \E n \in 0..Len(session) : W!EntriesSince(0) = SubSeq(session, n + 1, Len(session))
  BY DEF W!ReplayIsSuffix
<1>1. segs \in Seq(W!Segment) /\ InOrder(segs, session, currentLsn) /\ session \in Seq(W!Entry)
  BY DEF WalInv, GoodSegments
<1>2. 0 \in Nat /\ Ordered(segs) /\ Ascending(session)
  BY <1>1 DEF InOrder
<1>3. IsTail(Since(segs, 0), session)
  BY <1>1, <1>2, SinceIsTail
<1>4. PICK t \in Seq(W!Entry) :
        /\ Ascending(t) /\ \A e : e \in Since(segs, 0) <=> \E x \in DOMAIN t : t[x] = e
        /\ \E n \in 0..Len(session) : t = SubSeq(session, n + 1, Len(session))
  BY <1>1, <1>2, <1>3, TailSorted
<1>5. W!EntriesSince(0) = t
  BY <1>1, <1>2, <1>4, SinceAre, SameInLog DEF W!EntriesSince
<1> QED
  BY <1>4, <1>5

\* Clean-up keeps what is asked for.
LEMMA CleanupKeeps ==
  ASSUME WalInv, NEW l \in 1..(MaxLsn + 1), W!CleanupOldSegments(l), ~migrated
  PROVE  W!EntriesSince(l)' = W!EntriesSince(l)
<1>1. l \in Nat
  BY LogBounds
<1>2. segs \in Seq(W!Segment) /\ InOrder(segs, session, currentLsn) /\ session \in Seq(W!Entry)
  BY DEF WalInv, GoodSegments, W!CleanupOldSegments
<1>3. Ordered(segs) /\ Ascending(session)
  BY <1>2 DEF InOrder
<1>4. /\ Thinned(segs', segs)
      /\ Ordered(segs) => \A d, e : Holds(segs, d) /\ ~Holds(segs', d) /\ Holds(segs', e) => d.lsn < e.lsn
  BY <1>1, CleanupThins
<1>5. segs' \in Seq(W!Segment) /\ Ordered(segs') /\ \A e : Holds(segs', e) => Holds(segs, e)
  BY <1>3, <1>4, PickedInOrder DEF Thinned
<1>6. ASSUME NEW e \in Since(segs, l) PROVE Holds(segs', e)
  BY <1>1, <1>3, <1>6, CleanupThins DEF Since
<1>7. Since(segs', l) = Since(segs, l)
  BY <1>5, <1>6 DEF Since
<1>8. IsTail(Since(segs, l), session)
  BY <1>1, <1>2, SinceIsTail
<1>9. PICK t \in Seq(W!Entry) :
        /\ Ascending(t) /\ \A e : e \in Since(segs, l) <=> \E x \in DOMAIN t : t[x] = e
        /\ \E n \in 0..Len(session) : t = SubSeq(session, n + 1, Len(session))
  BY <1>2, <1>3, <1>8, TailSorted
<1>10. W!EntriesSince(l) = t
  BY <1>1, <1>2, <1>3, <1>9, SinceAre, SameInLog DEF W!EntriesSince
<1>11. W!SortedEntries(Select(segs', {i \in DOMAIN segs' : W!EndLsn(segs'[i]) >= l}), l) = t
  BY <1>1, <1>5, <1>7, <1>9, SinceAre
<1>12. W!EntriesSince(l)' = W!SortedEntries(Select(segs', {i \in DOMAIN segs' : W!EndLsn(segs'[i]) >= l}), l)
  BY SameInLog DEF W!EntriesSince
<1> QED
  BY <1>10, <1>11, <1>12

(***************************************************************************)
(* Recovery from the log.  R is what get_segments_for_recovery answered of *)
(* the segments ss; its first m segments have been started, those after b  *)
(* are in the batch that runs.  qu, ts, rp and rj stand for what waits, the *)
(* tasks, what was handed out and what was rejected.                       *)
(***************************************************************************)
Applied == [seg : Nat, entry : W!Entry]

Answer(ss, from) == Select([i \in DOMAIN ss |-> i], {i \in DOMAIN ss : W!EndLsn(ss[i]) >= from})

Started(R, b, m, width, qu, ts, rp, rj) ==
  /\ m \in 0..Len(R) /\ b \in 0..m /\ m - b <= width
  /\ qu = SubSeq(R, m + 1, Len(R))
  /\ \A i \in DOMAIN ts : \E x \in (b + 1)..m : R[x] = i
  /\ \A i \in rj : \E x \in 1..m : R[x] = i
  /\ \A p \in DOMAIN rp : \E x \in 1..m : R[x] = rp[p].seg
  /\ \A p, q \in DOMAIN rp : \A x, y \in 1..m :
       p < q /\ R[x] = rp[p].seg /\ R[y] = rp[q].seg => x - y < width

\* The entries handed out so far are the first c of segment i.
Of(rp, i) == {p \in DOMAIN rp : rp[p].seg = i}
Row(ss, i, c) == [k \in 1..c |-> [seg |-> i, entry |-> ss[i].entries[k]]]
GotFar(ss, rp, i, c) ==
  /\ c \in 0..Len(ss[i].entries) /\ Select(rp, Of(rp, i)) = Row(ss, i, c)
  /\ \A p \in Of(rp, i) : \E k \in 1..c : rp[p].entry = ss[i].entries[k]

AtWork(ss, target, ts, rp, rj, i) ==
  /\ i \notin rj /\ ts[i] \in Nat
  /\ ts[i] > 0 => ss[i].stamped
  /\ \E c \in Nat : /\ c = (IF ts[i] = 0 THEN 0 ELSE ts[i] - 1)
                    /\ GotFar(ss, rp, i, c) /\ \A k \in 1..c : ss[i].entries[k].lsn <= target

Complete(ss, target, plain, rp, i) ==
  \E c \in 0..Len(ss[i].entries) :
    /\ GotFar(ss, rp, i, c)
    /\ plain => {k \in DOMAIN ss[i].entries : ss[i].entries[k].lsn <= target} = 1..c

\* What was handed out is there, sealed, and in its order within a segment.
Sound(ss, plain, rp) ==
  /\ rp \in Seq(Applied)
  /\ \A p \in DOMAIN rp :
       /\ rp[p].seg \in DOMAIN ss /\ ss[rp[p].seg].sealed
       /\ \E k \in DOMAIN ss[rp[p].seg].entries : rp[p].entry = ss[rp[p].seg].entries[k]
  /\ plain => \A p, q \in DOMAIN rp :
       p < q /\ rp[p].seg = rp[q].seg => rp[p].entry.lsn < rp[q].entry.lsn

Replayed(ss, R, m, target, plain, ts, rp, rj) ==
  /\ Sound(ss, plain, rp)
  /\ \A i \in DOMAIN ts : AtWork(ss, target, ts, rp, rj, i)
  /\ \A x \in 1..m : R[x] \notin DOMAIN ts /\ R[x] \notin rj => Complete(ss, target, plain, rp, R[x])

Running(ss, req, plain, qu, ts, rp, rj) ==
  /\ req.from \in Nat /\ req.target \in Nat /\ req.width \in Nat \ {0}
  /\ \E b, m \in Nat : /\ Started(Answer(ss, req.from), b, m, req.width, qu, ts, rp, rj)
                       /\ Replayed(ss, Answer(ss, req.from), m, req.target, plain, ts, rp, rj)

RecoveryInv ==
  /\ recovering \in BOOLEAN
  /\ ~recovering => queued = <<>> /\ tasks = <<>> /\ replayed = <<>> /\ rejected = {}
  /\ recovering => open /\ Running(segs, request, ~migrated, queued, tasks, replayed, rejected)

\* The segments to replay come in the order of the log, each once.
InTurn(ss, R) ==
  /\ R \in Seq(Nat)
  /\ \A x \in DOMAIN R : R[x] \in DOMAIN ss
  /\ \A x, y \in DOMAIN R : x < y => R[x] < R[y]

\* get_segments_for_recovery answers in that order.
LEMMA AnswerIs ==
  ASSUME NEW ss \in Seq(W!Segment), NEW from
  PROVE  InTurn(ss, Answer(ss, from))
<1>1. PICK z \in Nat : z = Len(ss) /\ DOMAIN ss = 1..z
  OBVIOUS
<1>2. PICK s : s = [i \in DOMAIN ss |-> i]
  OBVIOUS
<1>3. s \in Seq(Nat) /\ DOMAIN s = 1..z /\ \A i \in 1..z : s[i] = i
  BY <1>1, <1>2
<1>4. PICK B : B = {i \in DOMAIN ss : W!EndLsn(ss[i]) >= from}
  OBVIOUS
<1>5. B \in SUBSET (DOMAIN s) /\ B \subseteq 1..z
  BY <1>1, <1>3, <1>4
<1>6. PICK R : R = Select(s, B) /\ R = Answer(ss, from)
  BY <1>2, <1>4 DEF Answer
<1>7. /\ R \in Seq(Nat)
      /\ \A m \in DOMAIN R : \E i \in B : R[m] = s[i]
      /\ \A l, m \in DOMAIN R : l < m => \E i, j \in B : i < j /\ R[l] = s[i] /\ R[m] = s[j]
  <2>1. \A v \in Seq(Nat) : \A A \in SUBSET (DOMAIN v) :
          /\ Select(v, A) \in Seq(Nat)
          /\ \A m \in DOMAIN Select(v, A) : \E i \in A : Select(v, A)[m] = v[i]
          /\ \A l, m \in DOMAIN Select(v, A) : l < m =>
               \E i, j \in A : i < j /\ Select(v, A)[l] = v[i] /\ Select(v, A)[m] = v[j]
    BY SelectFacts
  <2>2. R = Select(s, B) /\ s \in Seq(Nat) /\ B \in SUBSET (DOMAIN s)
    BY <1>3, <1>5, <1>6
  <2> QED
    BY <2>1, <2>2
<1>8. ASSUME NEW x \in DOMAIN R, NEW y \in DOMAIN R, x < y PROVE R[x] < R[y]
  <2>1. PICK i \in B : \E j \in B : i < j /\ R[x] = s[i] /\ R[y] = s[j]
    BY <1>7, <1>8
  <2>2. PICK j \in B : i < j /\ R[x] = s[i] /\ R[y] = s[j]
    BY <2>1
  <2> QED
    BY <1>3, <1>5, <2>2
<1>9. \A x \in DOMAIN R : R[x] \in DOMAIN ss
  BY <1>1, <1>3, <1>5, <1>7
<1> QED
  BY <1>6, <1>7, <1>8, <1>9 DEF InTurn

\* Its answer, without the instance.
LEMMA Asked == \A from : W!Reaching(from) = Answer(segs, from)
<1> SUFFICES ASSUME NEW from PROVE W!Reaching(from) = Answer(segs, from)
  OBVIOUS
<1>1. W!Reaching(from)
        = W!Select([i \in DOMAIN segs |-> i], {i \in DOMAIN segs : W!EndLsn(segs[i]) >= from})
  BY DEF W!Reaching
<1> QED
  BY <1>1, SameInLog DEF Answer

\* One more entry reaches the callbacks.
LEMMA OneMore ==
  ASSUME NEW ss \in Seq(W!Segment), NEW rp \in Seq(Applied), NEW x \in Applied,
         NEW j \in DOMAIN ss, NEW c \in Nat, GotFar(ss, rp, j, c)
  PROVE  /\ x.seg # j => GotFar(ss, Append(rp, x), j, c)
         /\ x.seg = j /\ c < Len(ss[j].entries) /\ x.entry = ss[j].entries[c + 1] =>
              GotFar(ss, Append(rp, x), j, c + 1)
<1>1. PICK r \in Seq(Applied) : r = Append(rp, x)
  <2>1. Append(rp, x) \in Seq(Applied)
    OBVIOUS
  <2> QED
    BY <2>1
<1>2. PICK n \in Nat : n = Len(rp) /\ DOMAIN rp = 1..n
  OBVIOUS
<1>3. /\ DOMAIN r = 1..(n + 1) /\ r[n + 1] = x /\ \A p \in 1..n : r[p] = rp[p]
  BY <1>1, <1>2
<1>4. PICK B \in SUBSET (DOMAIN rp) : B = Of(rp, j)
  <2>1. Of(rp, j) \in SUBSET (DOMAIN rp)
    BY DEF Of
  <2> QED
    BY <2>1
<1>5. /\ Select(r, B) = Select(rp, B)
      /\ Select(r, B \cup {n + 1}) = Append(Select(rp, B), x)
  <2>1. \A v \in Seq(Applied) : \A A \in SUBSET (DOMAIN v) : \A e \in Applied :
          /\ Select(Append(v, e), A) = Select(v, A)
          /\ Select(Append(v, e), A \cup {Len(v) + 1}) = Append(Select(v, A), e)
    BY SelectPushed
  <2> QED
    BY <1>1, <1>2, <2>1
<1>6. ASSUME x.seg # j PROVE GotFar(ss, r, j, c)
  <2>1. Of(r, j) = B
    BY <1>2, <1>3, <1>4, <1>6 DEF Of
  <2>2. \A p \in B : r[p] = rp[p]
    BY <1>2, <1>3
  <2> QED
    BY <1>4, <1>5, <2>1, <2>2 DEF GotFar
<1>7. ASSUME x.seg = j, c < Len(ss[j].entries), x.entry = ss[j].entries[c + 1]
      PROVE  GotFar(ss, r, j, c + 1)
  <2>1. Of(r, j) = B \cup {n + 1}
    BY <1>2, <1>3, <1>4, <1>7 DEF Of
  <2>2. x = [seg |-> j, entry |-> ss[j].entries[c + 1]]
    BY <1>7 DEF Applied
  <2>3. Append(Row(ss, j, c), x) = Row(ss, j, c + 1)
    <3>1. PICK u : u = Row(ss, j, c)
      OBVIOUS
    <3>2. u = [k \in 1..c |-> u[k]] /\ \A k \in 1..c : u[k] = [seg |-> j, entry |-> ss[j].entries[k]]
      BY <3>1 DEF Row
    <3>3. Len(u) = c /\ DOMAIN u = 1..c
      BY <3>2
    <3>4. Append(u, x) = [k \in 1..(c + 1) |-> IF k = c + 1 THEN x ELSE u[k]]
      BY <3>2, <3>3
    <3> QED
      BY <2>2, <3>1, <3>2, <3>4 DEF Row
  <2>4. c + 1 \in 0..Len(ss[j].entries)
    <3>1. Len(ss[j].entries) \in Nat
      BY SegmentFields
    <3> QED
      BY <1>7, <3>1
  <2>5. \A p \in B \cup {n + 1} : \E k \in 1..(c + 1) : r[p].entry = ss[j].entries[k]
    BY <1>2, <1>3, <1>4, <1>7 DEF GotFar
  <2> QED
    BY <1>4, <1>5, <2>1, <2>3, <2>4, <2>5 DEF GotFar
<1> QED
  BY <1>1, <1>6, <1>7

\* A segment of which nothing was handed out.
LEMMA NothingYet ==
  ASSUME NEW ss \in Seq(W!Segment), NEW rp \in Seq(Applied), NEW i \in DOMAIN ss, Of(rp, i) = {}
  PROVE  GotFar(ss, rp, i, 0)
<1>1. Len(ss[i].entries) \in Nat
  BY SegmentFields
<1>2. Select(rp, {}) = <<>>
  <2>1. Cardinality({}) = 0 /\ {} \in SUBSET (DOMAIN rp)
    BY FS_EmptySet
  <2> QED
    BY <2>1 DEF Select, Selection
<1>3. Row(ss, i, 0) = <<>>
  BY DEF Row
<1> QED
  BY <1>1, <1>2, <1>3 DEF GotFar

\* A position of the answer is known by its segment.
LEMMA OnePlace ==
  ASSUME NEW ss \in Seq(W!Segment), NEW R, InTurn(ss, R), NEW x \in DOMAIN R, NEW y \in DOMAIN R, R[x] = R[y]
  PROVE  x = y
<1>1. x \in Int /\ y \in Int /\ R[x] \in Nat /\ R[y] \in Nat
  BY DEF InTurn
<1>2. ~(x < y) /\ ~(y < x)
  BY <1>1 DEF InTurn
<1> QED
  BY <1>1, <1>2

\* What is left of the end of a sequence when n more are taken.
LEMMA DropMore ==
  ASSUME NEW E, NEW R \in Seq(E), NEW m \in 0..Len(R), NEW n \in 0..(Len(R) - m)
  PROVE  SubSeq(SubSeq(R, m + 1, Len(R)), n + 1, Len(SubSeq(R, m + 1, Len(R)))) = SubSeq(R, m + n + 1, Len(R))
<1>1. PICK z \in Nat : z = Len(R)
  OBVIOUS
<1>2. m \in Nat /\ n \in Nat /\ m <= z /\ n <= z - m /\ m + n + 1 \in Nat
  BY <1>1
<1>3. PICK q \in Seq(E) : q = SubSeq(R, m + 1, z)
  <2>1. SubSeq(R, m + 1, z) \in Seq(E)
    BY <1>1, <1>2
  <2> QED
    BY <2>1
<1>4. Len(q) = z - m /\ \A k \in 1..(z - m) : q[k] = R[m + k]
  BY <1>1, <1>2, <1>3
<1>5. PICK u \in Seq(E) : u = SubSeq(q, n + 1, z - m)
  <2>1. SubSeq(q, n + 1, z - m) \in Seq(E)
    BY <1>1, <1>2, <1>4
  <2> QED
    BY <2>1
<1>6. PICK v \in Seq(E) : v = SubSeq(R, m + n + 1, z)
  <2>1. SubSeq(R, m + n + 1, z) \in Seq(E)
    BY <1>1, <1>2
  <2> QED
    BY <2>1
<1>7. Len(u) = z - m - n /\ \A k \in 1..(z - m - n) : u[k] = q[n + k]
  BY <1>1, <1>2, <1>4, <1>5
<1>8. Len(v) = z - m - n /\ \A k \in 1..(z - m - n) : v[k] = R[m + (n + k)]
  <2>1. PICK j \in Nat : j = m + n + 1
    BY <1>2
  <2>2. j >= 1 /\ j <= z + 1 /\ v = SubSeq(R, j, z)
    BY <1>1, <1>2, <1>6, <2>1
  <2>3. Len(v) = z - j + 1 /\ \A k \in 1..(z - j + 1) : v[k] = R[j + k - 1]
    BY <1>1, <2>2
  <2>4. z - j + 1 = z - m - n
    BY <1>1, <1>2, <2>1
  <2>5. \A k \in 1..(z - m - n) : j + k - 1 = m + (n + k)
    BY <1>1, <1>2, <2>1
  <2> QED
    BY <2>3, <2>4, <2>5
<1>9. ASSUME NEW k \in 1..(z - m - n) PROVE u[k] = v[k]
  <2>1. n + k \in 1..(z - m)
    BY <1>2
  <2> QED
    BY <1>4, <1>7, <1>8, <2>1
<1>10. u = v
  <2>1. PICK d : d = 1..(z - m - n)
    OBVIOUS
  <2>2. \A y \in Seq(E) : DOMAIN y = 1..Len(y) /\ y = [k \in DOMAIN y |-> y[k]]
    OBVIOUS
  <2>3. DOMAIN u = d /\ DOMAIN v = d
    BY <1>7, <1>8, <2>1, <2>2
  <2>4. [k \in d |-> u[k]] = [k \in d |-> v[k]]
    BY <1>9, <2>1
  <2> QED
    BY <2>2, <2>3, <2>4
<1> QED
  BY <1>1, <1>3, <1>4, <1>5, <1>6, <1>10

\* The next batch starts once the last one is over.
LEMMA BatchStarts ==
  ASSUME NEW ss \in Seq(W!Segment), NEW R, InTurn(ss, R), NEW b \in Nat, NEW m \in Nat,
         NEW width \in Nat \ {0}, NEW target, NEW plain, NEW qu, NEW rp, NEW rj,
         Started(R, b, m, width, qu, <<>>, rp, rj), Replayed(ss, R, m, target, plain, <<>>, rp, rj),
         qu # <<>>, NEW n, n = (IF Len(qu) < width THEN Len(qu) ELSE width),
         NEW ts, ts = [i \in Range(SubSeq(qu, 1, n)) |-> 0],
         NEW qv, qv = SubSeq(qu, n + 1, Len(qu))
  PROVE  /\ m + n \in Nat
         /\ Started(R, m, m + n, width, qv, ts, rp, rj)
         /\ Replayed(ss, R, m + n, target, plain, ts, rp, rj)
<1>1. PICK z \in Nat : z = Len(R) /\ DOMAIN R = 1..z /\ R \in Seq(Nat)
  BY DEF InTurn
<1>2. m \in 0..z /\ qu = SubSeq(R, m + 1, z) /\ qu \in Seq(Nat)
  <2>1. m \in 0..z /\ qu = SubSeq(R, m + 1, z)
    BY <1>1 DEF Started
  <2>2. SubSeq(R, m + 1, z) \in Seq(Nat)
    BY <1>1, <2>1
  <2> QED
    BY <2>1, <2>2
<1>3. Len(qu) = z - m /\ DOMAIN qu = 1..(z - m) /\ \A k \in 1..(z - m) : qu[k] = R[m + k]
  BY <1>1, <1>2
<1>4. n \in Nat /\ n >= 1 /\ n <= z - m /\ n <= width
  BY <1>2, <1>3
<1>5. DOMAIN ts = {R[m + k] : k \in 1..n} /\ \A i \in DOMAIN ts : ts[i] = 0
  <2>1. PICK f : f = SubSeq(qu, 1, n)
    OBVIOUS
  <2>2. DOMAIN f = 1..n /\ \A k \in 1..n : f[k] = R[m + k]
    <3>1. \A k \in 1..n : k \in 1..(z - m)
      BY <1>2, <1>4
    <3>2. DOMAIN f = 1..n /\ \A k \in 1..n : f[k] = qu[k]
      BY <1>2, <1>3, <1>4, <2>1
    <3> QED
      BY <1>3, <3>1, <3>2
  <2>3. Range(f) = {R[m + k] : k \in 1..n}
    BY <2>2 DEF Range
  <2> QED
    BY <2>1, <2>3
<1>6. qv = SubSeq(R, m + n + 1, z)
  <2>1. \A y \in Seq(Nat) : \A k \in 0..Len(y) : \A l \in 0..(Len(y) - k) :
          SubSeq(SubSeq(y, k + 1, Len(y)), l + 1, Len(SubSeq(y, k + 1, Len(y)))) = SubSeq(y, k + l + 1, Len(y))
    BY DropMore
  <2>2. m \in 0..Len(R) /\ n \in 0..(Len(R) - m)
    BY <1>1, <1>2, <1>4
  <2> QED
    BY <1>1, <1>2, <2>1, <2>2
<1>7. \A i \in DOMAIN ts : \E x \in (m + 1)..(m + n) : R[x] = i
  <2>1. \A k \in 1..n : m + k \in (m + 1)..(m + n)
    BY <1>4
  <2> QED
    BY <1>5, <2>1
<1>8. 1..m \subseteq 1..(m + n) /\ 1..(m + n) \subseteq 1..z
  BY <1>2, <1>4
<1>9. \A x \in 1..(m + n) : \A y \in 1..m : R[x] = R[y] => x = y
  BY <1>1, <1>8, OnePlace
<1>10. \A p \in DOMAIN rp : \E x \in 1..m : R[x] = rp[p].seg
  BY DEF Started
<1>11. Started(R, m, m + n, width, qv, ts, rp, rj)
  <2>1. m + n \in 0..Len(R) /\ m \in 0..(m + n) /\ (m + n) - m <= width
    BY <1>1, <1>2, <1>4
  <2>2. /\ \A i \in rj : \E x \in 1..(m + n) : R[x] = i
        /\ \A p \in DOMAIN rp : \E x \in 1..(m + n) : R[x] = rp[p].seg
    BY <1>8 DEF Started
  <2>3. ASSUME NEW p \in DOMAIN rp, NEW q \in DOMAIN rp, NEW x \in 1..(m + n), NEW y \in 1..(m + n),
               p < q, R[x] = rp[p].seg, R[y] = rp[q].seg
        PROVE  x - y < width
    <3>1. x \in 1..m /\ y \in 1..m
      BY <1>9, <1>10, <2>3
    <3> QED
      BY <2>3, <3>1 DEF Started
  <2> QED
    BY <1>1, <1>6, <1>7, <2>1, <2>2, <2>3 DEF Started
<1>12. Sound(ss, plain, rp)
  BY DEF Replayed
<1>13. ASSUME NEW i \in DOMAIN ts PROVE AtWork(ss, target, ts, rp, rj, i)
  <2>1. PICK y \in (m + 1)..(m + n) : R[y] = i
    BY <1>7
  <2>2. y \in 1..(m + n) /\ y \notin 1..m /\ y \in DOMAIN R /\ i \in DOMAIN ss
    <3>1. y \in 1..(m + n) /\ y \notin 1..m
      BY <1>4
    <3> QED
      BY <1>1, <1>8, <2>1, <3>1 DEF InTurn
  <2>3. i \notin rj
    BY <1>9, <2>1, <2>2 DEF Started
  <2>4. Of(rp, i) = {}
    BY <1>9, <1>10, <2>1, <2>2 DEF Of
  <2>5. GotFar(ss, rp, i, 0)
    BY <1>12, <2>2, <2>4, NothingYet DEF Sound
  <2>6. ts[i] = 0 /\ ~(ts[i] > 0) /\ \A k \in 1..0 : FALSE
    BY <1>5
  <2> QED
    BY <2>3, <2>5, <2>6 DEF AtWork
<1>14. ASSUME NEW x \in 1..(m + n), R[x] \notin DOMAIN ts, R[x] \notin rj
       PROVE  Complete(ss, target, plain, rp, R[x])
  <2>1. x \in 1..m
    <3>1. ASSUME x \notin 1..m PROVE FALSE
      <4>1. x - m \in 1..n /\ m + (x - m) = x
        BY <1>4, <1>14, <3>1
      <4> QED
        BY <1>5, <1>14, <4>1
    <3> QED
      BY <3>1
  <2>2. DOMAIN <<>> = {}
    OBVIOUS
  <2> QED
    BY <1>14, <2>1, <2>2 DEF Replayed
<1> QED
  BY <1>4, <1>11, <1>12, <1>13, <1>14 DEF Replayed

\* A segment passes validation.
LEMMA TaskChecked ==
  ASSUME NEW ss, NEW R, NEW b, NEW m, NEW width, NEW target, NEW plain, NEW qu, NEW ts, NEW rp, NEW rj,
         Started(R, b, m, width, qu, ts, rp, rj), Replayed(ss, R, m, target, plain, ts, rp, rj),
         NEW i \in DOMAIN ts, ts[i] = 0, ss[i].stamped, NEW us, us = [ts EXCEPT ![i] = 1]
  PROVE  Started(R, b, m, width, qu, us, rp, rj) /\ Replayed(ss, R, m, target, plain, us, rp, rj)
<1>1. DOMAIN us = DOMAIN ts /\ us[i] = 1 /\ \A j \in DOMAIN ts : j # i => us[j] = ts[j]
  OBVIOUS
<1>2. Started(R, b, m, width, qu, us, rp, rj)
  BY <1>1 DEF Started
<1>3. ASSUME NEW j \in DOMAIN us PROVE AtWork(ss, target, us, rp, rj, j)
  <2>1. AtWork(ss, target, ts, rp, rj, j)
    BY <1>1 DEF Replayed
  <2>2. CASE j # i
    BY <1>1, <2>1, <2>2 DEF AtWork
  <2>3. CASE j = i
    <3>1. i \notin rj /\ us[i] \in Nat /\ us[i] > 0 /\ us[i] - 1 = 0 /\ us[i] # 0
      BY <1>1, <2>1, <2>3 DEF AtWork
    <3>2. GotFar(ss, rp, i, 0) /\ \A k \in 1..0 : ss[i].entries[k].lsn <= target
      BY <2>1, <2>3 DEF AtWork
    <3> QED
      BY <2>3, <3>1, <3>2 DEF AtWork
  <2> QED
    BY <2>2, <2>3
<1>4. Replayed(ss, R, m, target, plain, us, rp, rj)
  BY <1>1, <1>3 DEF Replayed
<1> QED
  BY <1>2, <1>4

\* A task is over: its segment was refused, or replayed to the target.
LEMMA TaskEnds ==
  ASSUME NEW ss, NEW R, NEW b \in Nat, NEW m \in Nat, NEW width, NEW target, NEW plain, NEW qu, NEW ts, NEW rp, NEW rj,
         Started(R, b, m, width, qu, ts, rp, rj), Replayed(ss, R, m, target, plain, ts, rp, rj),
         NEW i \in DOMAIN ts, NEW us, us = [j \in DOMAIN ts \ {i} |-> ts[j]],
         NEW rk, (rk = rj \cup {i}) \/ (rk = rj /\ Complete(ss, target, plain, rp, i))
  PROVE  Started(R, b, m, width, qu, us, rp, rk) /\ Replayed(ss, R, m, target, plain, us, rp, rk)
<1>1. DOMAIN us = DOMAIN ts \ {i} /\ \A j \in DOMAIN us : us[j] = ts[j]
  OBVIOUS
<1>2. rj \subseteq rk /\ \A j \in rk : j \in rj \/ j = i
  OBVIOUS
<1>3. PICK x \in (b + 1)..m : R[x] = i
  BY DEF Started
<1>4. x \in 1..m
  BY <1>3
<1>5. Started(R, b, m, width, qu, us, rp, rk)
  BY <1>1, <1>2, <1>3, <1>4 DEF Started
<1>6. ASSUME NEW j \in DOMAIN us PROVE AtWork(ss, target, us, rp, rk, j)
  <2>1. AtWork(ss, target, ts, rp, rj, j) /\ j # i
    BY <1>1 DEF Replayed
  <2> QED
    BY <1>1, <1>2, <2>1 DEF AtWork
<1>7. ASSUME NEW y \in 1..m, R[y] \notin DOMAIN us, R[y] \notin rk
      PROVE  Complete(ss, target, plain, rp, R[y])
  <2>1. R[y] \notin rj
    BY <1>2, <1>7
  <2>2. CASE R[y] = i
    BY <1>7, <2>2
  <2>3. CASE R[y] # i
    BY <1>1, <1>7, <2>1, <2>3 DEF Replayed
  <2> QED
    BY <2>2, <2>3
<1>8. Replayed(ss, R, m, target, plain, us, rp, rk)
  BY <1>6, <1>7 DEF Replayed
<1> QED
  BY <1>5, <1>8

\* The task at its end, or at an entry beyond the target.
LEMMA TaskIsDone ==
  ASSUME NEW ss \in Seq(W!Segment), NEW target \in Nat, NEW plain, plain => Ordered(ss), NEW ts, NEW rp, NEW rj,
         NEW i \in DOMAIN ss, AtWork(ss, target, ts, rp, rj, i), ts[i] > 0,
         (ts[i] > Len(ss[i].entries)) \/ (ts[i] <= Len(ss[i].entries) /\ ss[i].entries[ts[i]].lsn > target)
  PROVE  Complete(ss, target, plain, rp, i)
<1>1. PICK c \in Nat : /\ c = ts[i] - 1 /\ ts[i] = c + 1
                       /\ GotFar(ss, rp, i, c) /\ \A k \in 1..c : ss[i].entries[k].lsn <= target
  BY DEF AtWork
<1>2. PICK s \in Seq(W!Entry) : s = ss[i].entries
  BY SegmentFields
<1>3. PICK z \in Nat : z = Len(s) /\ DOMAIN s = 1..z
  OBVIOUS
<1>4. \A k \in 1..z : s[k].lsn \in Nat
  <2>1. \A e \in W!Entry : e.lsn \in Nat
    BY LogBounds DEF W!Entry
  <2> QED
    BY <1>2, <1>3, <2>1
<1>5. c \in 0..z
  BY <1>1, <1>2, <1>3 DEF GotFar
<1>6. ASSUME plain PROVE {k \in DOMAIN s : s[k].lsn <= target} = 1..c
  <2>1. \A k \in 1..c : k \in DOMAIN s /\ s[k].lsn <= target
    BY <1>1, <1>2, <1>3, <1>5
  <2>2. ASSUME NEW k \in 1..z, s[k].lsn <= target, k \notin 1..c PROVE FALSE
    <3>1. k >= c + 1 /\ c + 1 \in 1..z
      BY <1>5, <2>2
    <3>2. s[c + 1].lsn > target /\ s[c + 1].lsn \in Nat
      BY <1>1, <1>2, <1>3, <1>4, <3>1
    <3>3. k # c + 1
      BY <1>4, <2>2, <3>2
    <3>4. s[c + 1].lsn < s[k].lsn
      BY <1>2, <1>3, <1>6, <3>1, <3>3 DEF Ordered
    <3> QED
      BY <1>4, <2>2, <3>1, <3>2, <3>4
  <2> QED
    BY <1>3, <2>1, <2>2
<1> QED
  BY <1>1, <1>2, <1>3, <1>5, <1>6 DEF Complete

\* The next entry of segment i is handed out.
Handed(ss, target, ts, rp, i, us, rq) ==
  /\ i \in DOMAIN ts /\ ts[i] \in Nat /\ ts[i] > 0
  /\ ts[i] <= Len(ss[i].entries) /\ ss[i].entries[ts[i]].lsn <= target
  /\ \A j \in DOMAIN ss : ss[j].stamped => ss[j].sealed \/ ss[j].entries = <<>>
  /\ us = [ts EXCEPT ![i] = ts[i] + 1]
  /\ rq = Append(rp, [seg |-> i, entry |-> ss[i].entries[ts[i]]])

\* An entry that is handed out keeps the progress exact.
LEMMA EntryGiven ==
  ASSUME NEW ss \in Seq(W!Segment), NEW R, InTurn(ss, R), NEW b \in Nat, NEW m \in Nat, NEW width \in Nat,
         NEW target \in Nat, NEW plain, plain => Ordered(ss), NEW qu, NEW ts, NEW rp, NEW rj,
         Started(R, b, m, width, qu, ts, rp, rj), Replayed(ss, R, m, target, plain, ts, rp, rj),
         NEW i, NEW us, NEW rq, Handed(ss, target, ts, rp, i, us, rq)
  PROVE  Started(R, b, m, width, qu, us, rq, rj) /\ Replayed(ss, R, m, target, plain, us, rq, rj)
<1>0. PICK d \in Nat : d = ts[i] /\ d > 0
  BY DEF Handed
<1>1. /\ DOMAIN us = DOMAIN ts /\ i \in DOMAIN ts /\ us[i] = d + 1
      /\ \A j \in DOMAIN ts : j # i => us[j] = ts[j]
  BY <1>0 DEF Handed
<1>2. PICK z \in Nat : z = Len(R) /\ DOMAIN R = 1..z
  BY DEF InTurn
<1>3. m \in 0..z /\ b \in 0..m /\ m - b <= width
  BY <1>2 DEF Started
<1>4. PICK y \in (b + 1)..m : R[y] = i
  BY <1>1 DEF Started
<1>5. y \in 1..m /\ 1..m \subseteq DOMAIN R /\ y \in DOMAIN R
  BY <1>2, <1>3, <1>4
<1>6. i \in DOMAIN ss
  BY <1>4, <1>5 DEF InTurn
<1>7. PICK s \in Seq(W!Entry) : s = ss[i].entries
  BY <1>6, SegmentFields
<1>8. d \in DOMAIN s /\ s[d] \in W!Entry /\ s[d].lsn <= target /\ i \in Nat
  <2>1. d <= Len(s) /\ s[d].lsn <= target
    BY <1>0, <1>7 DEF Handed
  <2>2. d \in DOMAIN s
    BY <1>0, <1>7, <2>1
  <2> QED
    BY <1>6, <1>7, <2>1, <2>2
<1>9. PICK x \in Applied : x.seg = i /\ x.entry = s[d] /\ rq = Append(rp, x)
  <2>1. PICK x : x = [seg |-> i, entry |-> s[d]]
    OBVIOUS
  <2>2. x \in Applied /\ x.seg = i /\ x.entry = s[d]
    BY <1>8, <2>1 DEF Applied
  <2>3. rq = Append(rp, x)
    BY <1>0, <1>7, <2>1 DEF Handed
  <2> QED
    BY <2>2, <2>3
<1>10. rp \in Seq(Applied) /\ Sound(ss, plain, rp)
  BY DEF Replayed, Sound
<1>11. PICK n \in Nat : n = Len(rp) /\ DOMAIN rp = 1..n
  BY <1>10
<1>12. /\ rq \in Seq(Applied) /\ DOMAIN rq = 1..(n + 1) /\ rq[n + 1] = x
       /\ \A p \in 1..n : rq[p] = rp[p]
  BY <1>9, <1>10, <1>11
<1>13. AtWork(ss, target, ts, rp, rj, i)
  BY <1>1 DEF Replayed
<1>14. PICK c \in Nat : /\ c = d - 1 /\ d = c + 1
                        /\ GotFar(ss, rp, i, c) /\ \A k \in 1..c : ss[i].entries[k].lsn <= target
  <2>1. PICK c \in Nat : /\ c = (IF ts[i] = 0 THEN 0 ELSE ts[i] - 1)
                         /\ GotFar(ss, rp, i, c) /\ \A k \in 1..c : ss[i].entries[k].lsn <= target
    BY <1>13 DEF AtWork
  <2>2. c = d - 1 /\ d = c + 1
    BY <1>0, <2>1
  <2> QED
    BY <2>1, <2>2
<1>15. ss[i].stamped /\ ss[i].sealed
  <2>1. ss[i].stamped
    BY <1>0, <1>13 DEF AtWork
  <2>2. ss[i].entries # <<>>
    BY <1>7, <1>8
  <2> QED
    BY <1>6, <2>1, <2>2 DEF Handed
<1>16. Started(R, b, m, width, qu, us, rq, rj)
  <2>1. \A p \in DOMAIN rq : \E u \in 1..m : R[u] = rq[p].seg
    <3>1. \A p \in 1..n : \E u \in 1..m : R[u] = rp[p].seg
      BY <1>11 DEF Started
    <3> QED
      BY <1>4, <1>5, <1>9, <1>11, <1>12, <3>1, SMTT(60)
  <2>2. ASSUME NEW p \in DOMAIN rq, NEW q \in DOMAIN rq, NEW u \in 1..m, NEW v \in 1..m,
               p < q, R[u] = rq[p].seg, R[v] = rq[q].seg
        PROVE  u - v < width
    <3>1. p \in 1..n /\ (q \in 1..n \/ q = n + 1)
      BY <1>11, <1>12, <2>2
    <3>2. CASE q \in 1..n
      BY <1>11, <1>12, <2>2, <3>1, <3>2 DEF Started
    <3>3. CASE q = n + 1
      <4>1. R[v] = R[y] /\ v \in DOMAIN R
        BY <1>4, <1>5, <1>9, <1>12, <2>2, <3>3
      <4>2. v = y
        BY <1>5, <4>1, OnePlace
      <4> QED
        BY <1>3, <1>4, <4>2
    <3> QED
      BY <3>1, <3>2, <3>3
  <2> QED
    BY <1>1, <2>1, <2>2 DEF Started
<1>17. Sound(ss, plain, rq)
  <2>1. ASSUME NEW p \in DOMAIN rq
        PROVE  /\ rq[p].seg \in DOMAIN ss /\ ss[rq[p].seg].sealed
               /\ \E k \in DOMAIN ss[rq[p].seg].entries : rq[p].entry = ss[rq[p].seg].entries[k]
    <3>1. CASE p = n + 1
      BY <1>6, <1>7, <1>8, <1>9, <1>12, <1>15, <3>1, SMTT(60)
    <3>2. CASE p # n + 1
      <4>1. p \in DOMAIN rp /\ rq[p] = rp[p]
        BY <1>11, <1>12, <3>2
      <4> QED
        BY <1>10, <4>1 DEF Sound
    <3> QED
      BY <3>1, <3>2
  <2>2. ASSUME plain, NEW p \in DOMAIN rq, NEW q \in DOMAIN rq, p < q, rq[p].seg = rq[q].seg
        PROVE  rq[p].entry.lsn < rq[q].entry.lsn
    <3>1. p \in 1..n /\ (q \in 1..n \/ q = n + 1)
      BY <1>11, <1>12, <2>2
    <3>2. CASE q \in 1..n
      BY <1>10, <1>11, <1>12, <2>2, <3>1, <3>2 DEF Sound
    <3>3. CASE q = n + 1
      <4>1. rp[p].seg = i /\ rq[p] = rp[p] /\ p \in DOMAIN rp
        BY <1>9, <1>11, <1>12, <2>2, <3>1, <3>3
      <4>2. PICK k \in 1..c : rp[p].entry = ss[i].entries[k]
        BY <1>14, <4>1 DEF GotFar, Of
      <4>3. k \in DOMAIN s /\ k < d
        BY <1>7, <1>8, <1>14, <4>2
      <4>4. s[k].lsn < s[d].lsn
        BY <1>6, <1>7, <1>8, <2>2, <4>3 DEF Ordered
      <4> QED
        BY <1>7, <1>9, <1>12, <3>3, <4>1, <4>2, <4>4
    <3> QED
      BY <3>1, <3>2, <3>3
  <2> QED
    BY <1>12, <2>1, <2>2 DEF Sound
<1>18. ASSUME NEW j \in DOMAIN ss, j # i, NEW f \in Nat, GotFar(ss, rp, j, f)
       PROVE  GotFar(ss, rq, j, f)
  BY <1>9, <1>10, <1>18, OneMore
<1>19. ASSUME NEW j \in DOMAIN us PROVE AtWork(ss, target, us, rq, rj, j)
  <2>1. AtWork(ss, target, ts, rp, rj, j) /\ j \in DOMAIN ts
    BY <1>1 DEF Replayed
  <2>2. CASE j = i
    <3>1. c < Len(s) /\ s[c + 1] = s[d]
      BY <1>7, <1>8, <1>14
    <3>2. GotFar(ss, rq, i, c + 1)
      BY <1>6, <1>7, <1>9, <1>10, <1>14, <3>1, OneMore
    <3>3. \A k \in 1..(c + 1) : ss[i].entries[k].lsn <= target
      <4>1. \A k \in 1..(c + 1) : k \in 1..c \/ k = d
        BY <1>14
      <4> QED
        BY <1>7, <1>8, <1>14, <4>1
    <3>4. c + 1 \in Nat /\ c + 1 = us[i] - 1 /\ us[i] > 0 /\ us[i] # 0 /\ us[i] \in Nat /\ i \notin rj
      BY <1>1, <1>13, <1>14 DEF AtWork
    <3> QED
      BY <1>15, <2>2, <3>2, <3>3, <3>4 DEF AtWork
  <2>3. CASE j # i
    <3>1. PICK f \in Nat : /\ f = (IF ts[j] = 0 THEN 0 ELSE ts[j] - 1)
                           /\ GotFar(ss, rp, j, f) /\ \A k \in 1..f : ss[j].entries[k].lsn <= target
      BY <2>1 DEF AtWork
    <3>2. j \in DOMAIN ss
      <4>1. PICK u \in (b + 1)..m : R[u] = j
        BY <2>1 DEF Started
      <4>2. u \in DOMAIN R
        BY <1>2, <1>3
      <4> QED
        BY <4>1, <4>2 DEF InTurn
    <3>3. GotFar(ss, rq, j, f)
      BY <1>18, <2>3, <3>1, <3>2
    <3> QED
      BY <1>1, <2>1, <2>3, <3>1, <3>3 DEF AtWork
  <2> QED
    BY <2>2, <2>3
<1>20. ASSUME NEW u \in 1..m, R[u] \notin DOMAIN us, R[u] \notin rj
       PROVE  Complete(ss, target, plain, rq, R[u])
  <2>1. PICK j : j = R[u]
    OBVIOUS
  <2>2. j # i /\ j \in DOMAIN ss /\ Complete(ss, target, plain, rp, j)
    BY <1>1, <1>5, <1>20, <2>1 DEF Replayed, InTurn
  <2>3. PICK f \in 0..Len(ss[j].entries) :
          /\ GotFar(ss, rp, j, f)
          /\ plain => {k \in DOMAIN ss[j].entries : ss[j].entries[k].lsn <= target} = 1..f
    BY <2>2 DEF Complete
  <2>4. GotFar(ss, rq, j, f)
    <3>1. f \in Nat
      BY <2>2, <2>3, SegmentFields
    <3> QED
      BY <1>18, <2>2, <2>3, <3>1
  <2> QED
    BY <2>1, <2>3, <2>4 DEF Complete
<1> QED
  BY <1>16, <1>17, <1>19, <1>20 DEF Replayed

\* What a step of the recovery has to show, the log being left alone.
LEMMA Goes ==
  ASSUME WalInv, RecoveryInv, recovering
  PROVE  /\ open /\ segs \in Seq(W!Segment) /\ InTurn(segs, Answer(segs, request.from))
         /\ request.from \in Nat /\ request.target \in Nat /\ request.width \in Nat \ {0}
         /\ \A j \in DOMAIN segs : segs[j].stamped => segs[j].sealed \/ segs[j].entries = <<>>
         /\ ~migrated => Ordered(segs)
<1>1. open /\ GoodSegments(segs, files, nextId)
  BY DEF RecoveryInv, WalInv
<1>2. segs \in Seq(W!Segment)
  BY <1>1 DEF GoodSegments
<1>3. \A j \in DOMAIN segs : segs[j].stamped => segs[j].sealed \/ segs[j].entries = <<>>
  BY <1>1 DEF GoodSegments, GoodSegment
<1>4. ~migrated => Ordered(segs)
  BY DEF WalInv, InOrder
<1>5. Running(segs, request, ~migrated, queued, tasks, replayed, rejected)
  BY DEF RecoveryInv
<1> QED
  BY <1>1, <1>2, <1>3, <1>4, <1>5, AnswerIs DEF Running

\* Every step of the log or of the recovery keeps the invariant of the recovery.
LEMMA RecoveryKept == WalInv /\ RecoveryInv /\ W!Next => RecoveryInv'
<1> SUFFICES ASSUME WalInv, RecoveryInv, W!Next PROVE RecoveryInv'
  OBVIOUS
<1>1. CASE ~recovering /\ UNCHANGED W!rvars
  BY <1>1 DEF RecoveryInv, W!rvars
<1>2. CASE W!RecoveryStep /\ UNCHANGED W!wvars
  <2>1. segs' = segs /\ open' = open /\ migrated' = migrated
    BY <1>2 DEF W!wvars
  <2>2. ASSUME NEW from, NEW target, NEW w \in Widths, from \in Nat, target \in Nat,
               W!StartRecovery(from, target, w)
        PROVE  RecoveryInv'
    <3>1. /\ open /\ ~recovering /\ recovering'
          /\ request' = [from |-> from, target |-> target, width |-> w]
          /\ queued' = Answer(segs, from) /\ tasks' = tasks /\ replayed' = replayed /\ rejected' = rejected
      BY <2>2, Asked DEF W!StartRecovery
    <3>2. tasks = <<>> /\ replayed = <<>> /\ rejected = {}
      BY <3>1 DEF RecoveryInv
    <3>3. PICK R : R = Answer(segs, from)
      OBVIOUS
    <3>4. segs \in Seq(W!Segment)
      BY <3>1 DEF WalInv, GoodSegments
    <3>5. R \in Seq(Nat)
      BY <3>3, <3>4, AnswerIs DEF InTurn
    <3>6. w \in Nat \ {0}
      BY LogBounds
    <3>7. Started(R, 0, 0, w, R, <<>>, <<>>, {})
      <4>1. Len(R) \in Nat /\ R = SubSeq(R, 0 + 1, Len(R)) /\ DOMAIN <<>> = {}
        BY <3>5
      <4> QED
        BY <3>6, <4>1 DEF Started
    <3>8. Replayed(segs, R, 0, target, ~migrated, <<>>, <<>>, {})
      <4>1. <<>> \in Seq(Applied) /\ DOMAIN <<>> = {} /\ \A x \in 1..0 : FALSE
        OBVIOUS
      <4> QED
        BY <4>1 DEF Replayed, Sound
    <3>9. 0 \in Nat /\ request'.from = from /\ request'.target = target /\ request'.width = w
      BY <3>1
    <3>10. Running(segs, request', ~migrated, queued', tasks', replayed', rejected')
      BY <2>2, <3>1, <3>2, <3>3, <3>6, <3>7, <3>8, <3>9 DEF Running
    <3> QED
      BY <2>1, <3>1, <3>10 DEF RecoveryInv
  <2>3. ASSUME recovering, recovering' = recovering, request' = request, NEW b \in Nat, NEW m \in Nat,
               Started(Answer(segs, request.from), b, m, request.width, queued', tasks', replayed', rejected'),
               Replayed(segs, Answer(segs, request.from), m, request.target, ~migrated, tasks', replayed', rejected')
        PROVE  RecoveryInv'
    <3>1. Running(segs, request', ~migrated, queued', tasks', replayed', rejected')
      BY <2>3, Goes DEF Running
    <3> QED
      BY <2>1, <2>3, <3>1, Goes DEF RecoveryInv
  <2>4. ASSUME W!StartBatch PROVE RecoveryInv'
    <3>1. /\ recovering /\ recovering' = recovering /\ request' = request
          /\ queued # <<>> /\ tasks = <<>> /\ replayed' = replayed /\ rejected' = rejected
      BY <2>4 DEF W!StartBatch
    <3>2. PICK n : n = IF Len(queued) < request.width THEN Len(queued) ELSE request.width
      OBVIOUS
    <3>3. /\ tasks' = [i \in Range(SubSeq(queued, 1, n)) |-> 0]
          /\ queued' = SubSeq(queued, n + 1, Len(queued))
      BY <2>4, <3>2, SameInLog DEF W!StartBatch
    <3>4. PICK R : R = Answer(segs, request.from)
      OBVIOUS
    <3>5. PICK m \in Nat : \E b \in Nat :
            /\ Started(R, b, m, request.width, queued, <<>>, replayed, rejected)
            /\ Replayed(segs, R, m, request.target, ~migrated, <<>>, replayed, rejected)
      BY <3>1, <3>4 DEF RecoveryInv, Running
    <3>6. /\ m + n \in Nat
          /\ Started(R, m, m + n, request.width, queued', tasks', replayed, rejected)
          /\ Replayed(segs, R, m + n, request.target, ~migrated, tasks', replayed, rejected)
      BY <3>1, <3>2, <3>3, <3>4, <3>5, Goes, BatchStarts, ZenonT(60)
    <3> QED
      BY <2>3, <3>1, <3>4, <3>6
  <2>5. ASSUME NEW i \in DOMAIN tasks, W!ApplyEntry(i) PROVE RecoveryInv'
    <3>1. recovering
      BY <2>5 DEF RecoveryInv
    <3>2. PICK R : R = Answer(segs, request.from)
      OBVIOUS
    <3>3. PICK m \in Nat : \E b \in Nat :
            /\ Started(R, b, m, request.width, queued, tasks, replayed, rejected)
            /\ Replayed(segs, R, m, request.target, ~migrated, tasks, replayed, rejected)
      BY <3>1, <3>2 DEF RecoveryInv, Running
    <3>4. PICK b \in Nat :
            /\ Started(R, b, m, request.width, queued, tasks, replayed, rejected)
            /\ Replayed(segs, R, m, request.target, ~migrated, tasks, replayed, rejected)
      BY <3>3
    <3>5. /\ recovering' = recovering /\ request' = request /\ queued' = queued /\ rejected' = rejected
          /\ tasks[i] > 0
      BY <2>5 DEF W!ApplyEntry
    <3>6. AtWork(segs, request.target, tasks, replayed, rejected, i) /\ tasks[i] \in Nat
      BY <2>5, <3>4 DEF Replayed, AtWork
    <3>7. i \in DOMAIN segs
      <4>1. PICK x \in (b + 1)..m : R[x] = i
        BY <2>5, <3>4 DEF Started
      <4>2. m \in 0..Len(R) /\ R \in Seq(Nat)
        BY <3>1, <3>2, <3>4, Goes DEF Started, InTurn
      <4>3. x \in DOMAIN R
        BY <4>1, <4>2
      <4> QED
        BY <3>1, <3>2, <4>1, <4>3, Goes DEF InTurn
    <3>8. CASE (tasks[i] > Len(segs[i].entries))
               \/ (tasks[i] <= Len(segs[i].entries) /\ segs[i].entries[tasks[i]].lsn > request.target)
      <4>1. tasks' = [j \in DOMAIN tasks \ {i} |-> tasks[j]] /\ replayed' = replayed
        BY <2>5, <3>8 DEF W!ApplyEntry, W!EndTask
      <4>2. Complete(segs, request.target, ~migrated, replayed, i)
        BY <3>1, <3>5, <3>6, <3>7, <3>8, Goes, TaskIsDone
      <4>3. /\ Started(R, b, m, request.width, queued, tasks', replayed, rejected)
            /\ Replayed(segs, R, m, request.target, ~migrated, tasks', replayed, rejected)
        BY <2>5, <3>4, <4>1, <4>2, TaskEnds
      <4> QED
        BY <2>3, <3>1, <3>2, <3>5, <4>1, <4>3
    <3>9. CASE ~((tasks[i] > Len(segs[i].entries))
                 \/ (tasks[i] <= Len(segs[i].entries) /\ segs[i].entries[tasks[i]].lsn > request.target))
      <4>1. /\ replayed' = Append(replayed, [seg |-> i, entry |-> segs[i].entries[tasks[i]]])
            /\ tasks' = [tasks EXCEPT ![i] = tasks[i] + 1]
        BY <2>5, <3>9 DEF W!ApplyEntry
      <4>2. PICK s \in Seq(W!Entry) : s = segs[i].entries
        <5>1. segs \in Seq(W!Segment)
          BY <3>1, Goes
        <5> QED
          BY <3>7, <5>1, SegmentFields
      <4>3. tasks[i] <= Len(s)
        BY <3>6, <3>9, <4>2
      <4>4. s[tasks[i]].lsn \in Nat
        <5>1. tasks[i] \in DOMAIN s /\ \A e \in W!Entry : e.lsn \in Nat
          BY <3>5, <3>6, <4>3, LogBounds DEF W!Entry
        <5> QED
          BY <5>1
      <4>5. s[tasks[i]].lsn <= request.target
        BY <3>1, <3>9, <4>2, <4>3, <4>4, Goes
      <4>6. Handed(segs, request.target, tasks, replayed, i, tasks', replayed')
        BY <2>5, <3>1, <3>5, <3>6, <4>1, <4>2, <4>3, <4>5, Goes DEF Handed
      <4>7. /\ Started(R, b, m, request.width, queued, tasks', replayed', rejected)
            /\ Replayed(segs, R, m, request.target, ~migrated, tasks', replayed', rejected)
        BY <3>1, <3>2, <3>4, <4>6, Goes, EntryGiven
      <4> QED
        BY <2>3, <3>1, <3>2, <3>5, <4>7
    <3> QED
      BY <3>8, <3>9
  <2>6. ASSUME NEW i \in DOMAIN tasks, NEW ok \in BOOLEAN, W!Validate(i, ok) PROVE RecoveryInv'
    <3>1. recovering
      BY <2>6 DEF RecoveryInv
    <3>2. PICK R : R = Answer(segs, request.from)
      OBVIOUS
    <3>3. PICK m \in Nat : \E b \in Nat :
            /\ Started(R, b, m, request.width, queued, tasks, replayed, rejected)
            /\ Replayed(segs, R, m, request.target, ~migrated, tasks, replayed, rejected)
      BY <3>1, <3>2 DEF RecoveryInv, Running
    <3>4. PICK b \in Nat :
            /\ Started(R, b, m, request.width, queued, tasks, replayed, rejected)
            /\ Replayed(segs, R, m, request.target, ~migrated, tasks, replayed, rejected)
      BY <3>3
    <3>5. /\ recovering' = recovering /\ request' = request /\ queued' = queued /\ replayed' = replayed
          /\ tasks[i] = 0
      BY <2>6 DEF W!Validate
    <3>6. CASE ok
      <4>1. segs[i].stamped /\ tasks' = [tasks EXCEPT ![i] = 1] /\ rejected' = rejected
        BY <2>6, <3>6 DEF W!Validate
      <4>2. /\ Started(R, b, m, request.width, queued, tasks', replayed, rejected)
            /\ Replayed(segs, R, m, request.target, ~migrated, tasks', replayed, rejected)
        <5>1. PICK us : us = tasks'
          OBVIOUS
        <5>2. i \in DOMAIN tasks /\ tasks[i] = 0 /\ segs[i].stamped /\ us = [tasks EXCEPT ![i] = 1]
          BY <2>6, <3>5, <4>1, <5>1
        <5>3. /\ Started(R, b, m, request.width, queued, us, replayed, rejected)
              /\ Replayed(segs, R, m, request.target, ~migrated, us, replayed, rejected)
          BY <3>4, <5>2, TaskChecked, ZenonT(60)
        <5> QED
          BY <5>1, <5>3
      <4> QED
        BY <2>3, <3>1, <3>2, <3>5, <4>1, <4>2
    <3>7. CASE ~ok
      <4>1. tasks' = [j \in DOMAIN tasks \ {i} |-> tasks[j]] /\ rejected' = rejected \cup {i}
        BY <2>6, <3>7 DEF W!Validate, W!EndTask
      <4>2. /\ Started(R, b, m, request.width, queued, tasks', replayed, rejected')
            /\ Replayed(segs, R, m, request.target, ~migrated, tasks', replayed, rejected')
        BY <2>6, <3>4, <4>1, TaskEnds
      <4> QED
        BY <2>3, <3>1, <3>2, <3>5, <4>2
    <3> QED
      BY <3>6, <3>7
  <2>7. ASSUME W!FinishRecovery PROVE RecoveryInv'
    BY <2>7 DEF W!FinishRecovery, RecoveryInv
  <2>8. ASSUME NEW r \in W!Requests PROVE r[1] \in Nat /\ r[2] \in Nat
    BY LogBounds DEF W!Requests
  <2> QED
    BY <1>2, <2>2, <2>4, <2>5, <2>6, <2>7, <2>8 DEF W!RecoveryStep
<1> QED
  BY <1>1, <1>2 DEF W!Next

(***************************************************************************)
(* What the two invariants say.                                            *)
(***************************************************************************)
LEMMA TypesOfLog == WalInv => W!WTypeOK
<1> SUFFICES ASSUME WalInv PROVE W!WTypeOK
  OBVIOUS
<1>1. segs \in Seq(W!Segment) /\ \A i \in DOMAIN segs : segs[i].id \in DOMAIN files
  <2>1. CASE open
    BY <2>1 DEF WalInv, GoodSegments, GoodSegment
  <2>2. CASE ~open
    BY <2>2 DEF WalInv
  <2> QED
    BY <2>1, <2>2
<1> QED
  BY <1>1 DEF WalInv, W!WTypeOK

\* What replay knows is in the files.
LEMMA OnDisk == WalInv => W!ReplayedIsOnDisk
BY DEF WalInv, GoodSegments, GoodSegment, W!ReplayedIsOnDisk

\* What was handed out is of sealed segments.
LEMMA SealedOnly == RecoveryInv => W!RecoveredIsSealed
<1> SUFFICES ASSUME RecoveryInv, NEW p \in DOMAIN replayed PROVE segs[replayed[p].seg].sealed
  BY DEF W!RecoveredIsSealed
<1>1. replayed # <<>>
  OBVIOUS
<1> QED
  BY <1>1 DEF RecoveryInv, Running, Replayed, Sound

\* At the end of a recovery every segment is complete.
LEMMA CompleteAtTheEnd == WalInv /\ RecoveryInv => W!RecoveryIsComplete
<1> SUFFICES ASSUME WalInv, RecoveryInv, recovering, queued = <<>>, tasks = <<>>, ~migrated,
                    NEW i \in W!Range(W!Reaching(request.from)) \ rejected
             PROVE  W!Select(replayed, {p \in DOMAIN replayed : replayed[p].seg = i})
                      = [p \in {p \in DOMAIN segs[i].entries : segs[i].entries[p].lsn <= request.target} |->
                           [seg |-> i, entry |-> segs[i].entries[p]]]
  BY DEF W!RecoveryIsComplete
<1>1. PICK R : R = Answer(segs, request.from)
  OBVIOUS
<1>2. R \in Seq(Nat)
  BY <1>1, Goes DEF InTurn
<1>3. PICK x \in DOMAIN R : R[x] = i
  BY <1>1, Asked, SameInLog DEF Range
<1>4. PICK m \in Nat : /\ m \in 0..Len(R) /\ <<>> = SubSeq(R, m + 1, Len(R))
                       /\ Replayed(segs, R, m, request.target, TRUE, <<>>, replayed, rejected)
  BY <1>1 DEF RecoveryInv, Running, Started
<1>5. m = Len(R)
  <2>1. PICK z \in Nat : z = Len(R)
    BY <1>2
  <2>2. Len(SubSeq(R, m + 1, z)) = z - m /\ Len(<<>>) = 0
    BY <1>2, <1>4, <2>1
  <2>3. Len(SubSeq(R, m + 1, z)) = 0 /\ m \in 0..z
    BY <1>4, <2>1, <2>2
  <2> QED
    BY <2>1, <2>2, <2>3
<1>6. Complete(segs, request.target, TRUE, replayed, i)
  <2>1. x \in 1..m /\ R[x] \notin DOMAIN <<>> /\ R[x] \notin rejected
    BY <1>2, <1>3, <1>5
  <2> QED
    BY <1>3, <1>4, <2>1 DEF Replayed
<1>7. PICK c : /\ Select(replayed, Of(replayed, i)) = Row(segs, i, c)
               /\ {k \in DOMAIN segs[i].entries : segs[i].entries[k].lsn <= request.target} = 1..c
  BY <1>6 DEF Complete, GotFar
<1>8. W!Select(replayed, {p \in DOMAIN replayed : replayed[p].seg = i}) = Row(segs, i, c)
  BY <1>7, SameInLog DEF Of
<1> QED
  BY <1>7, <1>8 DEF Row

\* The segments of the answer from y to before x are as many as that.
LEMMA PassedOver ==
  ASSUME NEW ss \in Seq(W!Segment), NEW R, InTurn(ss, R), NEW x \in DOMAIN R, NEW y \in DOMAIN R, y < x,
         NEW S, S = {i \in Range(R) : R[y] <= i /\ i < R[x]}
  PROVE  S # {} /\ Cardinality(S) = x - y
<1>1. PICK z \in Nat : z = Len(R) /\ DOMAIN R = 1..z /\ \A k \in 1..z : R[k] \in Nat
  BY DEF InTurn
<1>2. x \in 1..z /\ y \in 1..z /\ x - 1 \in Nat
  BY <1>1
<1>3. ASSUME NEW k \in 1..z, R[y] <= R[k], R[k] < R[x] PROVE k \in y..(x - 1)
  <2>1. ~(k < y) /\ ~(x <= k)
    <3>1. k < y => R[k] < R[y]
      BY <1>1, <1>2 DEF InTurn
    <3>2. x < k => R[x] < R[k]
      BY <1>1, <1>2 DEF InTurn
    <3> QED
      BY <1>1, <1>2, <1>3, <3>1, <3>2
  <2> QED
    BY <1>2, <2>1
<1>4. ASSUME NEW k \in y..(x - 1) PROVE k \in 1..z /\ R[y] <= R[k] /\ R[k] < R[x]
  <2>1. k \in 1..z /\ y <= k /\ k < x
    BY <1>2
  <2>2. y = k \/ R[y] < R[k]
    <3>1. y \in DOMAIN R /\ k \in DOMAIN R /\ (y = k \/ y < k)
      BY <1>1, <1>2, <2>1
    <3> QED
      BY <3>1 DEF InTurn
  <2>3. R[k] < R[x]
    <3>1. k \in DOMAIN R /\ x \in DOMAIN R
      BY <1>1, <1>2, <2>1
    <3> QED
      BY <2>1, <3>1 DEF InTurn
  <2> QED
    BY <1>1, <1>2, <2>1, <2>2, <2>3
<1>5. S = {R[k] : k \in y..(x - 1)}
  <2>1. Range(R) = {R[k] : k \in 1..z}
    BY <1>1 DEF Range
  <2> QED
    BY <1>3, <1>4, <2>1
<1>6. PICK f : f = [k \in y..(x - 1) |-> R[k]]
  OBVIOUS
<1>7. ExistsBijection(y..(x - 1), S)
  <2>1. ASSUME NEW k \in y..(x - 1), NEW l \in y..(x - 1), R[k] = R[l] PROVE k = l
    BY <1>1, <1>4, <2>1, OnePlace
  <2>2. f \in [y..(x - 1) -> S] /\ \A i \in S : \E k \in y..(x - 1) : f[k] = i
    BY <1>5, <1>6
  <2>3. \A k, l \in y..(x - 1) : f[k] = f[l] => k = l
    BY <1>6, <2>1
  <2>4. IsInjective(f)
    BY <1>6, <2>3 DEF IsInjective
  <2>5. f \in Injection(y..(x - 1), S)
    BY <2>2, <2>4 DEF Injection
  <2>6. f \in Surjection(y..(x - 1), S)
    BY <2>2 DEF Surjection
  <2> QED
    BY <2>5, <2>6 DEF ExistsBijection, Bijection
<1>8. IsFiniteSet(y..(x - 1)) /\ Cardinality(y..(x - 1)) = x - y
  <2>1. y \in Int /\ x - 1 \in Int /\ ~(y > x - 1) /\ (x - 1) - y + 1 = x - y
    BY <1>2
  <2> QED
    BY <2>1, FS_Interval
<1>9. Cardinality(S) = x - y
  BY <1>7, <1>8, FS_Bijection
<1>10. R[y] \in S
  BY <1>2, <1>5
<1> QED
  BY <1>9, <1>10

\* An entry is overtaken only by one of its batch.
LEMMA OvertakenInBatch == WalInv /\ RecoveryInv => W!OvertakenOnlyInBatch
<1> SUFFICES ASSUME WalInv, RecoveryInv, ~migrated, NEW p \in DOMAIN replayed, NEW q \in DOMAIN replayed,
                    p < q, replayed[q].entry.lsn < replayed[p].entry.lsn
             PROVE  LET passed == {i \in W!Range(W!Reaching(request.from)) :
                                     replayed[q].seg <= i /\ i < replayed[p].seg}
                    IN passed # {} /\ W!Cardinality(passed) < request.width
  BY DEF W!OvertakenOnlyInBatch
<1>1. recovering
  BY DEF RecoveryInv
<1>2. PICK R : R = Answer(segs, request.from)
  OBVIOUS
<1>3. InTurn(segs, R) /\ Ordered(segs) /\ segs \in Seq(W!Segment)
  BY <1>1, <1>2, Goes
<1>4. PICK m \in Nat : \E b \in Nat :
        /\ Started(R, b, m, request.width, queued, tasks, replayed, rejected)
        /\ Replayed(segs, R, m, request.target, ~migrated, tasks, replayed, rejected)
  BY <1>1, <1>2 DEF RecoveryInv, Running
<1>5. Sound(segs, ~migrated, replayed)
  BY <1>4 DEF Replayed
<1>6. PICK x \in 1..m : R[x] = replayed[p].seg
  BY <1>4 DEF Started
<1>7. PICK y \in 1..m : R[y] = replayed[q].seg
  BY <1>4 DEF Started
<1>8. x \in DOMAIN R /\ y \in DOMAIN R /\ x - y < request.width
  <2>1. m \in 0..Len(R) /\ R \in Seq(Nat)
    BY <1>3, <1>4 DEF Started, InTurn
  <2>2. x - y < request.width
    BY <1>4, <1>6, <1>7 DEF Started
  <2> QED
    BY <2>1, <2>2
<1>9. R[x] \in Nat /\ R[y] \in Nat /\ x \in Nat /\ y \in Nat
  BY <1>3, <1>8 DEF InTurn
<1>10. replayed[p].entry.lsn \in Nat /\ replayed[q].entry.lsn \in Nat
  <2>1. replayed[p].entry \in W!Entry /\ replayed[q].entry \in W!Entry
    <3>1. replayed[p] \in Applied /\ replayed[q] \in Applied
      BY <1>5 DEF Sound
    <3> QED
      BY <3>1 DEF Applied
  <2>2. \A e \in W!Entry : e.lsn \in Nat
    BY LogBounds DEF W!Entry
  <2> QED
    BY <2>1, <2>2
<1>11. R[x] # R[y]
  BY <1>5, <1>6, <1>7, <1>10 DEF Sound
<1>12. ~(R[x] < R[y])
  <2> SUFFICES ASSUME R[x] < R[y] PROVE FALSE
    OBVIOUS
  <2>1. PICK k \in DOMAIN segs[R[x]].entries : replayed[p].entry = segs[R[x]].entries[k]
    BY <1>5, <1>6 DEF Sound
  <2>2. PICK l \in DOMAIN segs[R[y]].entries : replayed[q].entry = segs[R[y]].entries[l]
    BY <1>5, <1>7 DEF Sound
  <2>3. R[x] \in DOMAIN segs /\ R[y] \in DOMAIN segs
    BY <1>3, <1>8 DEF InTurn
  <2>4. replayed[p].entry.lsn < replayed[q].entry.lsn
    BY <1>3, <2>1, <2>2, <2>3 DEF Ordered
  <2> QED
    BY <1>10, <2>4
<1>13. y < x
  <2>1. x < y => R[x] < R[y]
    BY <1>3, <1>8 DEF InTurn
  <2> QED
    BY <1>9, <1>11, <1>12, <2>1
<1>14. PICK S : S = {i \in Range(R) : R[y] <= i /\ i < R[x]}
  OBVIOUS
<1>15. S # {} /\ Cardinality(S) = x - y
  BY <1>3, <1>8, <1>13, <1>14, PassedOver
<1>16. S = {i \in W!Range(W!Reaching(request.from)) : replayed[q].seg <= i /\ i < replayed[p].seg}
  BY <1>2, <1>6, <1>7, <1>14, Asked, SameInLog
<1>17. W!Cardinality(S) < request.width
  BY <1>8, <1>15, SameInLog
<1> QED
  BY <1>15, <1>16, <1>17

(***************************************************************************)
(* The theorems about the segmented log.                                   *)
(***************************************************************************)
LEMMA LogBegins == W!Init => WalInv /\ RecoveryInv
<1> SUFFICES ASSUME W!Init PROVE WalInv /\ RecoveryInv
  OBVIOUS
<1>1. /\ segs = <<>> /\ files = <<>> /\ currentLsn = 0 /\ nextId = 1
      /\ open = FALSE /\ migrating = -1 /\ migrated = FALSE /\ session = <<>>
      /\ recovering = FALSE /\ queued = <<>> /\ tasks = <<>> /\ replayed = <<>> /\ rejected = {}
  BY DEF W!Init, W!WInit
<1>2. InOrder(<<>>, <<>>, 0)
  BY EmptyInOrder
<1>3. DOMAIN <<>> \subseteq 1..MaxSegment /\ <<>> \in Seq(W!Entry) /\ 0 \in 0..MaxLsn /\ 1 \in 1..(MaxSegment + 1)
  BY LogBounds
<1>4. -1 \in -1..Len(Legacy)
  <2>1. Len(Legacy) \in Nat
    BY LogBounds
  <2> QED
    BY <2>1
<1> QED
  BY <1>1, <1>2, <1>3, <1>4 DEF WalInv, RecoveryInv

\* Both invariants are kept, whichever component a behaviour is about.
LEMMA LogGoesOn == WalInv /\ RecoveryInv /\ [MCNext]_mcvars => WalInv' /\ RecoveryInv'
<1> SUFFICES ASSUME WalInv, RecoveryInv, [MCNext]_mcvars PROVE WalInv' /\ RecoveryInv'
  OBVIOUS
<1>1. CASE W!Next
  <2>1. WalInv'
    <3>1. CASE W!WNext
      BY <3>1, WalStep
    <3>2. CASE UNCHANGED W!wvars
      BY <3>2 DEF WalInv, W!wvars
    <3> QED
      BY <1>1, <3>1, <3>2 DEF W!Next
  <2> QED
    BY <1>1, <2>1, RecoveryKept
<1>2. CASE UNCHANGED wal
  BY <1>2 DEF wal, WalInv, RecoveryInv
<1> QED
  BY <1>1, <1>2 DEF MCNext, mcvars

\* Replay is exact, for any sizes of the log and of the batches
\* (segmented_wal.cpp, recovery_manager.cpp): what replay hands out is the end of
\* what was acknowledged and is on disk, whatever was rolled, sealed, cleaned up
\* or refused; a recovery applies sealed segments only, every entry up to its
\* target once, and out of order only within a batch.
THEOREM ReplayStaysExact == MCSpec => []ReplayIsExact
<1>1. MCInit => WalInv /\ RecoveryInv
  BY LogBegins DEF MCInit
<1>2. WalInv /\ RecoveryInv /\ [MCNext]_mcvars => WalInv' /\ RecoveryInv'
  BY LogGoesOn
<1>3. WalInv /\ RecoveryInv => ReplayIsExact
  BY TypesOfLog, ReplayIsTail, OnDisk, SealedOnly, CompleteAtTheEnd, OvertakenInBatch
     DEF ReplayIsExact, W!ReplayIsExact
<1> QED
  BY <1>1, <1>2, <1>3, PTL DEF MCSpec

\* No step takes back what a later one relies on: clean-up keeps the entries that
\* are asked for (segmented_wal.cpp), pruning the newest checkpoint
\* (checkpoint_manager.cpp), a node its vote (raft_node.cpp).
THEOREM PromisesStand ==
  ASSUME RaftConstants
  PROVE  MCSpec => PromisesAreKept
<1> DEFINE Cleaned == \A l \in 1..(MaxLsn + 1) :
                        W!CleanupOldSegments(l) /\ ~migrated => W!EntriesSince(l)' = W!EntriesSince(l)
           Newest == K!FinishCreate => making.id \in kept'
<1>1. MCInit => WalInv /\ RecoveryInv /\ CheckpointInv
  BY LogBegins, CheckpointsBegin DEF MCInit
<1>2. WalInv /\ RecoveryInv /\ CheckpointInv /\ [MCNext]_mcvars
        => WalInv' /\ RecoveryInv' /\ CheckpointInv'
  <2> SUFFICES ASSUME WalInv, RecoveryInv, CheckpointInv, [MCNext]_mcvars
               PROVE  WalInv' /\ RecoveryInv' /\ CheckpointInv'
    OBVIOUS
  <2>1. K!CNext \/ UNCHANGED checkpoints
    BY DEF MCNext, mcvars
  <2>2. CheckpointInv'
    BY <2>1, CheckpointStep, CheckpointStutters DEF checkpoints
  <2> QED
    BY <2>2, LogGoesOn
<1>3. WalInv => [Cleaned]_(W!wvars)
  <2> SUFFICES ASSUME WalInv PROVE Cleaned
    OBVIOUS
  <2> QED
    BY CleanupKeeps
<1>4. CheckpointInv => [Newest]_(K!cvars)
  BY NewestStays
<1>5. MCInit => RInit
  BY DEF MCInit
<1>6. [MCNext]_mcvars => [RNext]_rvars
  BY DEF MCNext, mcvars
<1>7. MCSpec => RSpec
  BY <1>5, <1>6, PTL DEF MCSpec, RSpec
<1>8. MCSpec => [][Cleaned]_(W!wvars)
  BY <1>1, <1>2, <1>3, PTL DEF MCSpec
<1>9. MCSpec => [][Newest]_(K!cvars)
  BY <1>1, <1>2, <1>4, PTL DEF MCSpec
<1> QED
  BY <1>7, <1>8, <1>9, VotesAreKept DEF PromisesAreKept, W!CleanupKeepsNeeded, K!PruningKeepsNewest
=============================================================================
