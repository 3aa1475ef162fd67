--------------------------- MODULE GatewayProofs ---------------------------
(***************************************************************************)
(* Proofs about the gateway (BountyApi, IndexerWorker), for any workers,   *)
(* requests, pollers and rounds.                                           *)
(*                                                                         *)
(* What is promised of the row and of the table of karma must also hold of *)
(* every copy a session keeps, since a session writes what it computed     *)
(* from its copy.  What a copy relies on (the claims and outcomes the      *)
(* gateway accepted, the log, the closed application) only grows, so copies*)
(* stay good whatever the others do.                                       *)
(***************************************************************************)
EXTENDS GatewayProperties, TLAPS

Statuses == {"open", "claimed", "submitted", "rejected", "disputed", "closed"}

Rows == [status : Statuses, worker : Agents \cup {Nobody}, rejections : Nat,
         payout : Payouts]

Karmas == [Agents -> Int]

Decisions == {"worker_win", "creator_win", "split"}

Operations == {"claim", "submit", "approve", "reject", "dispute"} \cup Decisions

Entries == [round : Nat, line : {Methods[m].line : m \in DOMAIN Methods}]

-----------------------------------------------------------------------------
(* Good copies, given what was accepted `h', the reasons `c' a row may be     *)
(* closed for, the outcomes `o' it may show and the number `n' of lines.   *)

GoodRow(row, h, c, o) ==
  /\ row \in Rows
  /\ row.worker \in h \cup {Nobody}
  /\ row.status = "closed" => c # {}
  /\ row.payout # "" => row.payout \in o

GoodKarma(k, h) ==
  /\ k \in Karmas
  /\ \A w \in Workers \ h : k[w] = InitialKarma

GoodSession(s, h, c, o) ==
  \/ s = Unused \/ s = Served
  \/ /\ s \in [at : {"row", "karma", "creator"}, op : Operations,
               user : Agents, row : Rows, seen : Karmas]
     /\ GoodRow(s.row, h, c, o) /\ GoodKarma(s.seen, h)
     /\ s.op = "claim" => s.user \in h
     /\ s.op = "approve" => "PAYOUT" \in h
     /\ s.op \in Decisions => Resolutions[s.op] \in h

GoodPoll(s, h, c, o, n) ==
  \/ s = Asleep
  \/ /\ s \in [at : {"loaded"}, row : Rows, karma : Karmas]
     /\ GoodRow(s.row, h, c, o) /\ GoodKarma(s.karma, h)
  \/ /\ s \in [at : {"applying"}, todo : SUBSET (1 .. n), loaded : Rows,
               row : Rows, seen : Karmas, karma : Karmas]
     /\ GoodRow(s.row, h, c, o) /\ GoodKarma(s.karma, h)

\* Why the row may be shown as closed, and the outcomes it may show.
Causes ==
  (accepted \cap Payouts) \cup (IF app.state = "closed" THEN {"chain"} ELSE {})

Outcomes == accepted \cup LoggedOutcomes

ChainTypeOK ==
  /\ app \in [state : Statuses, agent : Agents \cup {Nobody}]
  /\ round \in Nat
  /\ logs \in Seq(Entries)
  /\ pool \in Seq(Call)

\* A settlement in the log is that of a closed application.
LogsSettle ==
  \A i \in DOMAIN logs : logs[i].line \in DOMAIN Outcome => app.state = "closed"

DatabaseGood ==
  GoodRow(bounty, accepted, Causes, Outcomes) /\ GoodKarma(karma, accepted)

RequestsGood ==
  /\ DOMAIN request = Requests
  /\ \A r \in Requests : GoodSession(request[r], accepted, Causes, Outcomes)

PollsGood ==
  /\ DOMAIN poll = Pollers
  /\ \A p \in Pollers :
       GoodPoll(poll[p], accepted, Causes, Outcomes, Len(logs))

GatewayInv ==
  ChainTypeOK /\ LogsSettle /\ DatabaseGood /\ RequestsGood /\ PollsGood

-----------------------------------------------------------------------------
(* Copies.                                                                 *)

\* What a copy relies on may grow.
LEMMA CopiesStayGood ==
  ASSUME NEW h, NEW c, NEW o, NEW n \in Nat, NEW h2, NEW c2, NEW o2,
         NEW n2 \in Nat, h \subseteq h2, c \subseteq c2, o \subseteq o2, n <= n2
  PROVE  /\ \A row : GoodRow(row, h, c, o) => GoodRow(row, h2, c2, o2)
         /\ \A k : GoodKarma(k, h) => GoodKarma(k, h2)
         /\ \A s : GoodSession(s, h, c, o) => GoodSession(s, h2, c2, o2)
         /\ \A s : GoodPoll(s, h, c, o, n) => GoodPoll(s, h2, c2, o2, n2)
<1>1. ASSUME NEW row, GoodRow(row, h, c, o) PROVE GoodRow(row, h2, c2, o2)
  BY <1>1 DEF GoodRow
<1>2. ASSUME NEW k, GoodKarma(k, h) PROVE GoodKarma(k, h2)
  BY <1>2 DEF GoodKarma
<1>3. ASSUME NEW s, GoodSession(s, h, c, o) PROVE GoodSession(s, h2, c2, o2)
  BY <1>3, <1>1, <1>2 DEF GoodSession
<1>4. ASSUME NEW s, GoodPoll(s, h, c, o, n) PROVE GoodPoll(s, h2, c2, o2, n2)
  <2>1. SUBSET (1 .. n) \subseteq SUBSET (1 .. n2)
    OBVIOUS
  <2>2. [at : {"applying"}, todo : SUBSET (1 .. n), loaded : Rows,
         row : Rows, seen : Karmas, karma : Karmas]
          \subseteq
        [at : {"applying"}, todo : SUBSET (1 .. n2), loaded : Rows,
         row : Rows, seen : Karmas, karma : Karmas]
    BY <2>1
  <2> QED BY <1>4, <1>1, <1>2, <2>2 DEF GoodPoll
<1> QED BY <1>1, <1>2, <1>3, <1>4

\* The flush takes every column from one of two good copies.
LEMMA FlushedRow ==
  ASSUME NEW h, NEW c, NEW o, NEW table, NEW loaded, NEW changed,
         GoodRow(table, h, c, o), GoodRow(changed, h, c, o)
  PROVE  GoodRow(Flush(table, loaded, changed), h, c, o)
<1> DEFINE row == Flush(table, loaded, changed)
<1>1. DOMAIN table = {"status", "worker", "rejections", "payout"}
  BY DEF GoodRow, Rows
<1>2. row = [f \in {"status", "worker", "rejections", "payout"} |->
               IF changed[f] # loaded[f] THEN changed[f] ELSE table[f]]
  BY <1>1 DEF Flush
<1>3. /\ row.status \in {table.status, changed.status}
      /\ row.worker \in {table.worker, changed.worker}
      /\ row.rejections \in {table.rejections, changed.rejections}
      /\ row.payout \in {table.payout, changed.payout}
  BY <1>2
<1>4. row = [status |-> row.status, worker |-> row.worker,
             rejections |-> row.rejections, payout |-> row.payout]
  BY <1>2
<1> HIDE DEF row
<1>5. /\ row.status \in Statuses /\ row.worker \in Agents \cup {Nobody}
      /\ row.rejections \in Nat /\ row.payout \in Payouts
  BY <1>3 DEF GoodRow, Rows
<1>6. row \in Rows
  BY <1>4, <1>5 DEF Rows
<1> QED BY <1>3, <1>6 DEF GoodRow, row

LEMMA FlushedKarma ==
  ASSUME NEW h, NEW table, NEW loaded, NEW changed,
         GoodKarma(table, h), GoodKarma(changed, h)
  PROVE  GoodKarma(Flush(table, loaded, changed), h)
BY DEF GoodKarma, Flush, Karmas, Agents

LEMMA BumpedKarma ==
  ASSUME NEW h, NEW k, NEW a \in h \cup {Nobody, Creator}, NEW by \in Int,
         GoodKarma(k, h)
  PROVE  GoodKarma(Bump(k, a, by), h)
BY AppAssumption DEF GoodKarma, Bump, Karmas, Agents

\* What the handlers make of the row (claim_bounty ... resolve_dispute).
LEMMA WrittenGood ==
  ASSUME NEW h, NEW c, NEW o, NEW row, NEW s,
         GoodRow(row, h, c, o), GoodSession(s, h, c, o), s.at = "row",
         h \subseteq o, h \cap Payouts \subseteq c
  PROVE  GoodRow(Written(row, s), h, c, o)
<1>1. /\ s.op \in Operations /\ s.user \in Agents
      /\ GoodRow(s.row, h, c, o)
      /\ s.op = "claim" => s.user \in h
      /\ s.op = "approve" => "PAYOUT" \in h
      /\ s.op \in Decisions => Resolutions[s.op] \in h
  BY DEF GoodSession, Unused, Served
<1>2. ASSUME NEW payout \in {"PAYOUT", "REFUND", "SPLIT"}, payout \in h
      PROVE  GoodRow(Closed(row, payout), h, c, o)
  BY <1>2 DEF Closed, GoodRow, Rows, Statuses, Payouts
<1>3. CASE s.op = "claim"
  BY <1>1, <1>3 DEF Written, Claimed, GoodRow, Rows, Statuses
<1>4. CASE s.op = "submit"
  BY <1>4 DEF Written, GoodRow, Rows, Statuses
<1>5. CASE s.op = "approve"
  BY <1>1, <1>2, <1>5 DEF Written
<1>6. CASE s.op = "reject"
  <2> DEFINE more == row.rejections + 1
  <2>1. more \in Nat
    <3>1. row \in Rows
      BY DEF GoodRow
    <3>2. row.rejections \in Nat
      BY <3>1 DEF Rows
    <3> QED BY <3>2
  <2>2. Written(row, s) = [row EXCEPT !.status = "rejected", !.rejections = more]
    BY <1>6 DEF Written
  <2> HIDE DEF more
  <2> QED BY <2>1, <2>2 DEF GoodRow, Rows, Statuses
<1>7. CASE s.op = "dispute"
  BY <1>7 DEF Written, GoodRow, Rows, Statuses
<1>8. CASE s.op \in Decisions
  <2>1. Resolutions[s.op] \in {"PAYOUT", "REFUND", "SPLIT"}
    BY <1>8 DEF Decisions, Resolutions
  <2>2. Written(row, s) = Closed(row, Resolutions[s.op])
    BY <1>8 DEF Written, Decisions
  <2> QED BY <1>1, <1>2, <1>8, <2>1, <2>2
<1> QED BY <1>1, <1>3, <1>4, <1>5, <1>6, <1>7, <1>8 DEF Operations

\* What they make of the karma (approve_work, reject_work).
LEMMA KarmaAfterGood ==
  ASSUME NEW h, NEW c, NEW o, NEW s, GoodSession(s, h, c, o),
         s.at \in {"karma", "creator"}
  PROVE  GoodKarma(KarmaAfter(s), h)
<1>1. GoodKarma(s.seen, h) /\ s.row.worker \in h \cup {Nobody, Creator}
  <2>1. s # Unused /\ s # Served
    BY DEF Unused, Served
  <2>2. /\ s \in [at : {"row", "karma", "creator"}, op : Operations,
                 user : Agents, row : Rows, seen : Karmas]
        /\ GoodRow(s.row, h, c, o) /\ GoodKarma(s.seen, h)
    BY <2>1 DEF GoodSession
  <2> QED BY <2>2 DEF GoodRow
<1> DEFINE w == s.row.worker
           wp == WorkerPenalty(s.row.rejections)
           cp == CreatorPenalty(s.row.rejections)
           wneg == -wp
           cneg == -cp
<1>2. wp \in Nat /\ cp \in Nat
  BY DEF WorkerPenalty, CreatorPenalty
<1>3. Creator \in h \cup {Nobody, Creator}
  OBVIOUS
<1>w. w \in h \cup {Nobody, Creator}
  BY <1>1
<1>k. KarmaAfter(s) \in {Bump(Bump(s.seen, w, 10), Creator, 5),
                         Bump(s.seen, w, wneg), Bump(s.seen, Creator, cneg)}
  BY DEF KarmaAfter
<1>n. wneg \in Int /\ cneg \in Int
  BY <1>2
<1> HIDE DEF w, wneg, cneg
<1>4. GoodKarma(Bump(s.seen, w, 10), h) /\ GoodKarma(Bump(s.seen, w, wneg), h)
  BY <1>1, <1>w, <1>n, BumpedKarma
<1>5. GoodKarma(Bump(Bump(s.seen, w, 10), Creator, 5), h)
  BY <1>3, <1>4, BumpedKarma
<1>6. GoodKarma(Bump(s.seen, Creator, cneg), h)
  BY <1>1, <1>3, <1>n, BumpedKarma
<1> QED BY <1>4, <1>5, <1>6, <1>k

\* The lines the worker knows, with what it concludes.
LEMMA AwardTyped ==
  \A line \in DOMAIN Outcome :
    Outcome[line] \in Payouts /\ Award[line][1] \in Int /\ Award[line][2] \in Int
<1> SUFFICES ASSUME NEW line \in DOMAIN Outcome
             PROVE  /\ Outcome[line] \in Payouts
                    /\ Award[line][1] \in Int /\ Award[line][2] \in Int
  OBVIOUS
<1>1. line \in {"auto_released_hitm", "dispute_timeout_split",
               "dispute_resolved_agent_win", "dispute_resolved_creator_win",
               "dispute_resolved_split"}
  BY DEF Outcome
<1>2. Outcome[line] \in {"PAYOUT", "SPLIT", "REFUND"}
  BY <1>1 DEF Outcome
<1>3. Award[line] \in {<<3, 2>>, <<-1, -1>>, <<5, -5>>, <<-5, 5>>, <<0, 0>>}
  BY <1>1 DEF Award
<1>4. Award[line][1] \in Int /\ Award[line][2] \in Int
  <2> DEFINE award == Award[line]
  <2> HIDE DEF award
  <2> SUFFICES award[1] \in Int /\ award[2] \in Int
    BY DEF award
  <2>1. \/ award = <<3, 2>> \/ award = <<-1, -1>> \/ award = <<5, -5>>
        \/ award = <<-5, 5>> \/ award = <<0, 0>>
    BY <1>3 DEF award
  <2> QED BY <2>1
<1> QED BY <1>2, <1>4 DEF Payouts

LEMMA ExpiryIsNoOutcome == "claim_expired" \notin DOMAIN Outcome
BY DEF Outcome

\* A line that tells an outcome is a cause for it.
Backed(entry, c, o) ==
  entry.line \in DOMAIN Outcome => c # {} /\ Outcome[entry.line] \in o

\* What a log line makes of the session (indexer_worker).
LEMMA AppliedGood ==
  ASSUME NEW h, NEW c, NEW o, NEW n \in Nat, NEW s, NEW entry,
         GoodPoll(s, h, c, o, n), s.at = "applying", Backed(entry, c, o)
  PROVE  /\ GoodPoll(Apply(s, entry), h, c, o, n)
         /\ Apply(s, entry).at = "applying" /\ Apply(s, entry).todo = s.todo
<1>1. /\ s \in [at : {"applying"}, todo : SUBSET (1 .. n), loaded : Rows,
                row : Rows, seen : Karmas, karma : Karmas]
      /\ GoodRow(s.row, h, c, o) /\ GoodKarma(s.karma, h)
  BY DEF GoodPoll, Asleep
<1>2. s.row.worker \in h \cup {Nobody, Creator} /\ Creator \in h \cup {Nobody, Creator}
  BY <1>1 DEF GoodRow
<1> DEFINE t == Apply(s, entry)
           Becomes(row, k) ==
             /\ GoodRow(row, h, c, o) /\ GoodKarma(k, h)
             /\ t = [s EXCEPT !.row = row, !.karma = k]
<1> SUFFICES GoodPoll(t, h, c, o, n) /\ t.at = "applying" /\ t.todo = s.todo
  OBVIOUS
<1> HIDE DEF t
<1>3. ASSUME NEW row, NEW k, Becomes(row, k)
      PROVE  GoodPoll(t, h, c, o, n) /\ t.at = "applying" /\ t.todo = s.todo
  <2>1. row \in Rows /\ k \in Karmas
    BY <1>3 DEF GoodRow, GoodKarma
  <2>2. /\ t \in [at : {"applying"}, todo : SUBSET (1 .. n), loaded : Rows,
                 row : Rows, seen : Karmas, karma : Karmas]
        /\ t.row = row /\ t.karma = k /\ t.at = "applying" /\ t.todo = s.todo
    BY <1>1, <1>3, <2>1
  <2> QED BY <1>3, <2>2 DEF GoodPoll
<1>4. CASE entry.line \in DOMAIN Outcome
  <2> DEFINE payout == Outcome[entry.line]
             k1 == Bump(s.karma, s.row.worker, Award[entry.line][1])
             k2 == Bump(k1, Creator, Award[entry.line][2])
  <2>1. CASE s.row.status = "closed"
    BY <1>1, <1>4, <2>1, ExpiryIsNoOutcome DEF t, Apply
  <2>2. CASE s.row.status # "closed"
    <3>1. GoodRow(Closed(s.row, payout), h, c, o)
      BY <1>1, <1>4, AwardTyped DEF Backed, Closed, GoodRow, Rows, Statuses
    <3>2. GoodKarma(k1, h)
      BY <1>1, <1>2, <1>4, AwardTyped, BumpedKarma
    <3>3. GoodKarma(k2, h)
      BY <1>2, <1>4, <3>2, AwardTyped, BumpedKarma
    <3>4. t = [s EXCEPT !.row = Closed(s.row, payout), !.karma = k2]
      BY <1>1, <1>4, <2>2, ExpiryIsNoOutcome DEF t, Apply, Settle
    <3>5. Becomes(Closed(s.row, payout), k2)
      BY <3>1, <3>3, <3>4
    <3> HIDE DEF Becomes
    <3> QED BY <1>3, <3>5
  <2> QED BY <2>1, <2>2
<1>5. CASE entry.line \notin DOMAIN Outcome /\ entry.line = "claim_expired"
  <2> DEFINE k == Bump(s.karma, s.row.worker, -20)
  <2>1. CASE s.row.status = "open"
    BY <1>1, <1>5, <2>1, ExpiryIsNoOutcome DEF t, Apply
  <2>2. CASE s.row.status # "open"
    <3>1. GoodRow(OpenAgain(s.row), h, c, o)
      BY <1>1 DEF OpenAgain, GoodRow, Rows, Statuses
    <3>2. GoodKarma(k, h)
      <4>1. -20 \in Int
        OBVIOUS
      <4> QED BY <1>1, <1>2, <4>1, BumpedKarma
    <3>3. t = [s EXCEPT !.row = OpenAgain(s.row), !.karma = k]
      BY <1>1, <1>5, <2>2, ExpiryIsNoOutcome DEF t, Apply, Reopened
    <3>4. Becomes(OpenAgain(s.row), k)
      BY <3>1, <3>2, <3>3
    <3> HIDE DEF Becomes
    <3> QED BY <1>3, <3>4
  <2> QED BY <2>1, <2>2
<1>6. CASE entry.line \notin DOMAIN Outcome /\ entry.line # "claim_expired"
  <2> DEFINE row == [s.row EXCEPT !.status = "disputed"]
  <2>1. GoodRow(row, h, c, o)
    BY <1>1 DEF GoodRow, Rows, Statuses
  <2>2. t = [s EXCEPT !.row = row, !.karma = s.karma]
    BY <1>1, <1>6 DEF t, Apply
  <2>3. Becomes(row, s.karma)
    BY <1>1, <2>1, <2>2
  <2> HIDE DEF Becomes
  <2> QED BY <1>3, <2>3
<1> QED BY <1>4, <1>5, <1>6

-----------------------------------------------------------------------------
(* The chain.                                                              *)

\* The row of a method in the table of EscrowApp.
Row(m, accepts, leaves, line) ==
  /\ Methods[m].accepts = accepts /\ Methods[m].leaves = leaves
  /\ Methods[m].line = line

LEMMA MethodRows ==
  /\ Row("claim_bounty", {"open"}, "claimed", "")
  /\ Row("submit_work", {"claimed", "rejected"}, "submitted", "")
  /\ Row("approve_work", {"submitted"}, "closed", "")
  /\ Row("reject_work", {"submitted"}, "rejected", "")
  /\ Row("submit_dispute", {"submitted", "rejected"}, "disputed",
         "dispute_submitted")
  /\ Row("auto_release", {"submitted"}, "closed", "auto_released_hitm")
  /\ Row("claim_abandoned", {"rejected"}, "closed", "")
  /\ Row("expire_claim", {"claimed"}, "open", "claim_expired")
  /\ Row("timeout_dispute", {"disputed"}, "closed", "dispute_timeout_split")
  /\ Row("auto_resolve_creator_win", {"disputed"}, "closed", "")
  /\ Row("agent_win", {"disputed"}, "closed", "dispute_resolved_agent_win")
  /\ Row("creator_win", {"disputed"}, "closed", "dispute_resolved_creator_win")
  /\ Row("split", {"disputed"}, "closed", "dispute_resolved_split")
BY DEF Row, Methods, Method

LEMMA MethodTable ==
  \A m \in DOMAIN Methods :
    /\ "closed" \notin Methods[m].accepts
    /\ Methods[m].leaves \in Statuses
    /\ Methods[m].line \in DOMAIN Outcome => Methods[m].leaves = "closed"
<1> DEFINE Fine(m) ==
      /\ "closed" \notin Methods[m].accepts
      /\ Methods[m].leaves \in Statuses
      /\ Methods[m].line \in DOMAIN Outcome => Methods[m].leaves = "closed"
<1>1. DOMAIN Methods =
        {"claim_bounty", "submit_work", "approve_work", "reject_work",
         "submit_dispute", "auto_release", "claim_abandoned",
         "expire_claim", "timeout_dispute", "auto_resolve_creator_win",
         "agent_win", "creator_win", "split"}
  BY DEF Methods
<1>2. /\ "" \notin DOMAIN Outcome /\ "claim_expired" \notin DOMAIN Outcome
      /\ "dispute_submitted" \notin DOMAIN Outcome
  BY DEF Outcome
<1>3. ASSUME NEW m, NEW accepts, NEW leaves, NEW line, Row(m, accepts, leaves, line),
             "closed" \notin accepts, leaves \in Statuses,
             line \in DOMAIN Outcome => leaves = "closed"
      PROVE  Fine(m)
  BY <1>3 DEF Row
<1> HIDE DEF Fine
<1>4. Fine("claim_bounty") /\ Fine("submit_work") /\ Fine("approve_work")
  BY <1>2, <1>3, MethodRows DEF Statuses
<1>5. Fine("reject_work") /\ Fine("submit_dispute") /\ Fine("auto_release")
  BY <1>2, <1>3, MethodRows DEF Statuses
<1>6. Fine("claim_abandoned") /\ Fine("expire_claim") /\ Fine("timeout_dispute")
  BY <1>2, <1>3, MethodRows DEF Statuses
<1>7. Fine("auto_resolve_creator_win") /\ Fine("agent_win")
  BY <1>2, <1>3, MethodRows DEF Statuses
<1>8. Fine("creator_win") /\ Fine("split")
  BY <1>2, <1>3, MethodRows DEF Statuses
<1>9. \A m \in DOMAIN Methods : Fine(m)
  BY <1>1, <1>4, <1>5, <1>6, <1>7, <1>8
<1> QED BY <1>9 DEF Fine

\* What only grows: the claims and outcomes accepted, the log, and a
\* closed application.
Grows ==
  /\ accepted \subseteq accepted'
  /\ LoggedOutcomes \subseteq LoggedOutcomes'
  /\ Len(logs) <= Len(logs)'
  /\ app.state = "closed" => app'.state = "closed"

\* A call of the application is logged by what it leaves, and a closed
\* application takes none (EscrowApp).
LEMMA ExecuteStep ==
  ASSUME ChainTypeOK, LogsSettle, NEW call \in Call, Execute(call),
         pool' \in Seq(Call)
  PROVE  /\ ChainTypeOK' /\ LogsSettle'
         /\ LoggedOutcomes \subseteq LoggedOutcomes'
         /\ Len(logs) <= Len(logs)' /\ app.state # "closed"
<1> DEFINE m == call.method
           line == Methods[m].line
<1>1. m \in DOMAIN Methods /\ call.sender \in Agents
  BY DEF Call
<1>2. app.state # "closed"
  BY <1>1, MethodTable DEF Execute, Passes
<1>3. /\ app' = After(app, call) /\ round' = round + 1
      /\ logs' = IF line = "" THEN logs
                 ELSE Append(logs, [round |-> round', line |-> line])
  BY DEF Execute
<1>4. app' \in [state : Statuses, agent : Agents \cup {Nobody}]
  BY <1>1, <1>3, MethodTable DEF After, ChainTypeOK
<1>5. app'.state = Methods[m].leaves
  BY <1>3 DEF After
<1>6. round' \in Nat
  <2>1. round \in Nat
    BY DEF ChainTypeOK
  <2>2. round' = round + 1
    BY <1>3
  <2> QED BY <2>1, <2>2
<1>7. CASE line = ""
  <2>1. logs' = logs
    BY <1>3, <1>7
  <2>2. \A i \in DOMAIN logs : logs[i].line \notin DOMAIN Outcome
    BY <1>2 DEF LogsSettle
  <2> QED BY <1>2, <1>4, <1>6, <2>1, <2>2 DEF ChainTypeOK, LogsSettle, LoggedOutcomes
<1>8. CASE line # ""
  <2> DEFINE entry == [round |-> round', line |-> line]
  <2>1. entry \in Entries
    BY <1>1, <1>6 DEF Entries
  <2>2. logs' = Append(logs, entry)
    BY <1>3, <1>8
  <2> HIDE DEF entry
  <2>3. /\ logs' \in Seq(Entries) /\ Len(logs') = Len(logs) + 1
        /\ \A i \in DOMAIN logs : logs'[i] = logs[i] /\ i \in DOMAIN logs'
        /\ \A i \in DOMAIN logs' : i \in DOMAIN logs \/ logs'[i] = entry
    BY <2>1, <2>2 DEF ChainTypeOK
  <2>4. entry.line \in DOMAIN Outcome => app'.state = "closed"
    BY <1>1, <1>5, MethodTable DEF entry
  <2>5. LogsSettle'
    BY <1>2, <2>3, <2>4 DEF LogsSettle
  <2>6. Range(logs) \subseteq Range(logs)'
    BY <2>3 DEF Range
  <2>7. LoggedOutcomes \subseteq LoggedOutcomes'
    BY <2>6 DEF LoggedOutcomes
  <2>8. Len(logs) <= Len(logs)'
    BY <2>3 DEF ChainTypeOK
  <2> QED BY <1>2, <1>4, <1>6, <2>3, <2>5, <2>7, <2>8 DEF ChainTypeOK
<1> QED BY <1>7, <1>8

LEMMA ChainStep ==
  ASSUME ChainTypeOK, LogsSettle, AppNext, UNCHANGED accepted
  PROVE  ChainTypeOK' /\ LogsSettle' /\ Grows
<1>1. CASE Confirm
  <2>1. Head(pool) \in Call /\ Tail(pool) \in Seq(Call)
    BY <1>1 DEF Confirm, ChainTypeOK
  <2> QED BY <1>1, <2>1, ExecuteStep DEF Confirm, Grows
<1>2. CASE Expire
  <2>1. Tail(pool) \in Seq(Call)
    BY <1>2 DEF Expire, ChainTypeOK
  <2> QED BY <1>2, <2>1 DEF Expire, ChainTypeOK, LogsSettle, LoggedOutcomes, Grows
<1>3. CASE CallDirectly
  <2>1. PICK call \in Calls : Execute(call)
    BY <1>3 DEF CallDirectly
  <2>2. call \in Call
    BY DEF Calls
  <2> QED BY <1>3, <2>1, <2>2, ExecuteStep DEF CallDirectly, Grows, ChainTypeOK
<1>4. CASE EmptyBlock
  BY <1>4 DEF EmptyBlock, ChainTypeOK, LogsSettle, LoggedOutcomes, Grows
<1> QED BY <1>1, <1>2, <1>3, <1>4 DEF AppNext

LEMMA HandStep ==
  ASSUME ChainTypeOK, Hand
  PROVE  /\ pool' \in Seq(Call)
         /\ UNCHANGED <<app, round, logs>>
<1>1. ASSUME NEW call \in Calls, Send(call)
      PROVE  pool' \in Seq(Call) /\ UNCHANGED <<app, round, logs>>
  <2>1. call \in Call
    BY DEF Calls
  <2> QED BY <1>1, <2>1 DEF Send, ChainTypeOK
<1> QED BY <1>1 DEF Hand, ChainTypeOK, appVars

-----------------------------------------------------------------------------
(* Requests and polls.                                                     *)

\* Whatever happens, the copies stay good.
LEMMA GrowthKeepsCopies ==
  ASSUME GatewayInv, ChainTypeOK', Grows
  PROVE  /\ GoodRow(bounty, accepted', Causes', Outcomes')
         /\ GoodKarma(karma, accepted')
         /\ \A r \in Requests :
              GoodSession(request[r], accepted', Causes', Outcomes')
         /\ \A p \in Pollers :
              GoodPoll(poll[p], accepted', Causes', Outcomes', Len(logs)')
<1>1. accepted \subseteq accepted' /\ Causes \subseteq Causes' /\ Outcomes \subseteq Outcomes'
  BY DEF Grows, Causes, Outcomes
<1>2. Len(logs) \in Nat /\ Len(logs)' \in Nat /\ Len(logs) <= Len(logs)'
  BY DEF Grows, GatewayInv, ChainTypeOK
<1> QED
  BY <1>1, <1>2, CopiesStayGood DEF GatewayInv, DatabaseGood, RequestsGood, PollsGood

\* A handler that loads keeps a good copy of what it has loaded.
LEMMA LoadStep ==
  ASSUME GatewayInv, NEW r \in Requests, NEW op \in Operations,
         NEW user \in Agents, Load(r, op, user),
         UNCHANGED <<app, round, logs, workerVars>>, pool' \in Seq(Call),
         accepted \subseteq accepted', op = "claim" => user \in accepted',
         op = "approve" => "PAYOUT" \in accepted',
         op \in Decisions => Resolutions[op] \in accepted'
  PROVE  GatewayInv'
<1>1. ChainTypeOK' /\ LogsSettle' /\ Grows
  BY DEF GatewayInv, ChainTypeOK, LogsSettle, LoggedOutcomes, Grows
<1>2. /\ bounty' = bounty /\ karma' = karma /\ poll' = poll
      /\ request' = [request EXCEPT ![r] = Session("row", op, user, bounty, karma)]
  BY DEF Load, dbVars, workerVars
<1>3. GoodSession(Session("row", op, user, bounty, karma), accepted', Causes', Outcomes')
  BY <1>1, GrowthKeepsCopies DEF GoodSession, Session, GoodRow, GoodKarma
<1>4. DatabaseGood'
  BY <1>1, <1>2, GrowthKeepsCopies DEF DatabaseGood
<1>5. RequestsGood'
  BY <1>1, <1>2, <1>3, GrowthKeepsCopies DEF RequestsGood, GatewayInv
<1>6. PollsGood'
  BY <1>1, <1>2, GrowthKeepsCopies DEF PollsGood, GatewayInv
<1> QED BY <1>1, <1>4, <1>5, <1>6 DEF GatewayInv

\* A step that hands nothing to the node and writes good copies.
LEMMA WriteStep ==
  ASSUME GatewayInv, UNCHANGED <<appVars, accepted>>,
         GoodRow(bounty', accepted, Causes, Outcomes), GoodKarma(karma', accepted),
         DOMAIN request' = Requests, DOMAIN poll' = Pollers,
         \A r \in Requests :
           \/ request'[r] = request[r]
           \/ GoodSession(request'[r], accepted, Causes, Outcomes),
         \A p \in Pollers :
           \/ poll'[p] = poll[p]
           \/ GoodPoll(poll'[p], accepted, Causes, Outcomes, Len(logs))
  PROVE  GatewayInv'
<1>1. accepted' = accepted /\ Causes' = Causes /\ Outcomes' = Outcomes /\ Len(logs)' = Len(logs)
  BY DEF appVars, Causes, Outcomes, LoggedOutcomes
<1>2. ChainTypeOK' /\ LogsSettle'
  BY DEF GatewayInv, ChainTypeOK, LogsSettle, appVars
<1>3. DatabaseGood'
  BY <1>1 DEF DatabaseGood
<1>4. RequestsGood'
  BY <1>1 DEF RequestsGood, GatewayInv
<1>5. PollsGood'
  BY <1>1 DEF PollsGood, GatewayInv
<1> QED BY <1>2, <1>3, <1>4, <1>5 DEF GatewayInv

\* Outcomes include what was accepted, causes the settlements among it.
LEMMA AcceptedCounts == accepted \subseteq Outcomes /\ accepted \cap Payouts \subseteq Causes
BY DEF Outcomes, Causes

LEMMA CommitRowStep ==
  ASSUME GatewayInv, NEW r \in Requests, CommitRow(r), UNCHANGED workerVars
  PROVE  GatewayInv'
<1> DEFINE s == request[r]
           award == IF s.op = "worker_win" THEN Bump(s.seen, s.row.worker, 5)
                                           ELSE s.seen
           next == IF s.op \in {"approve", "reject"}
                     THEN Session("karma", s.op, s.user, bounty', karma')
                     ELSE Served
<1>1. /\ s.at = "row" /\ bounty' = Flush(bounty, s.row, Written(s.row, s))
      /\ karma' = Flush(karma, s.seen, award)
      /\ request' = [request EXCEPT ![r] = next]
      /\ UNCHANGED <<appVars, accepted>> /\ poll' = poll
  BY DEF CommitRow, workerVars
<1>2. GoodSession(s, accepted, Causes, Outcomes)
  BY DEF GatewayInv, RequestsGood
<1>3. GoodRow(bounty, accepted, Causes, Outcomes) /\ GoodKarma(karma, accepted)
  BY DEF GatewayInv, DatabaseGood
<1>5. /\ s.op \in Operations /\ s.user \in Agents
      /\ GoodKarma(s.seen, accepted) /\ s.row.worker \in accepted \cup {Nobody, Creator}
      /\ GoodRow(s.row, accepted, Causes, Outcomes)
      /\ s.op = "approve" => "PAYOUT" \in accepted
  <2>1. s # Unused /\ s # Served
    BY <1>1 DEF Unused, Served
  <2>2. /\ s \in [at : {"row", "karma", "creator"}, op : Operations,
                 user : Agents, row : Rows, seen : Karmas]
        /\ GoodRow(s.row, accepted, Causes, Outcomes) /\ GoodKarma(s.seen, accepted)
        /\ s.op = "approve" => "PAYOUT" \in accepted
    BY <1>2, <2>1 DEF GoodSession
  <2> QED BY <2>2 DEF GoodRow
<1>4. GoodRow(bounty', accepted, Causes, Outcomes)
  <2>1. GoodRow(Written(s.row, s), accepted, Causes, Outcomes)
    BY <1>1, <1>2, <1>5, AcceptedCounts, WrittenGood
  <2> QED BY <1>1, <1>3, <2>1, FlushedRow
<1>6. GoodKarma(award, accepted)
  <2>1. 5 \in Int
    OBVIOUS
  <2>2. GoodKarma(Bump(s.seen, s.row.worker, 5), accepted)
    BY <1>5, <2>1, BumpedKarma
  <2> QED BY <1>5, <2>2
<1>7. GoodKarma(karma', accepted)
  BY <1>1, <1>3, <1>6, FlushedKarma
<1>8. GoodSession(next, accepted, Causes, Outcomes)
  BY <1>4, <1>5, <1>7 DEF GoodSession, Session, GoodRow, GoodKarma, Decisions
<1> HIDE DEF s, next, award
<1>9. /\ DOMAIN request' = Requests /\ DOMAIN poll' = Pollers
      /\ request'[r] = next
      /\ \A q \in Requests : q # r => request'[q] = request[q]
  BY <1>1 DEF GatewayInv, RequestsGood, PollsGood
<1> QED BY <1>1, <1>4, <1>7, <1>8, <1>9, WriteStep

LEMMA ServeStep ==
  ASSUME GatewayInv, NEW r \in Requests, NEW s,
         UNCHANGED <<appVars, bounty, accepted, poll>>,
         request' = [request EXCEPT ![r] = s], GoodKarma(karma', accepted),
         s = Served \/ GoodSession(s, accepted, Causes, Outcomes)
  PROVE  GatewayInv'
<1>1. GoodSession(s, accepted, Causes, Outcomes)
  BY DEF GoodSession
<1>2. /\ DOMAIN request' = Requests /\ DOMAIN poll' = Pollers
      /\ request'[r] = s
      /\ \A q \in Requests : q # r => request'[q] = request[q]
  BY DEF GatewayInv, RequestsGood, PollsGood
<1>3. GoodRow(bounty', accepted, Causes, Outcomes)
  BY DEF GatewayInv, DatabaseGood
<1> QED BY <1>1, <1>2, <1>3, WriteStep

LEMMA CommitKarmaStep ==
  ASSUME GatewayInv, NEW r \in Requests, CommitKarma(r), UNCHANGED workerVars
  PROVE  GatewayInv'
<1> DEFINE s == request[r]
           next == IF s.at = "karma" /\ s.op = "reject"
                     THEN Session("creator", s.op, s.user, bounty, karma')
                     ELSE Served
<1>1. /\ request[r].at \in {"karma", "creator"}
      /\ karma' = Flush(karma, request[r].seen, KarmaAfter(request[r]))
      /\ request' = [request EXCEPT ![r] = next]
      /\ UNCHANGED <<appVars, bounty, accepted, poll>>
  BY DEF CommitKarma, workerVars
<1>2. GoodSession(request[r], accepted, Causes, Outcomes) /\ GoodKarma(karma, accepted)
  BY DEF GatewayInv, RequestsGood, DatabaseGood
<1>3. GoodKarma(KarmaAfter(request[r]), accepted)
  BY <1>1, <1>2, KarmaAfterGood
<1>4. GoodKarma(karma', accepted)
  BY <1>1, <1>2, <1>3, FlushedKarma
<1>5. next = Served \/ GoodSession(next, accepted, Causes, Outcomes)
  <2> SUFFICES ASSUME s.op = "reject", s.at = "karma"
               PROVE  GoodSession(Session("creator", s.op, s.user, bounty, karma'),
                                  accepted, Causes, Outcomes)
    OBVIOUS
  <2>1. s # Unused /\ s # Served
    BY DEF Unused, Served
  <2>2. s.op \in Operations /\ s.user \in Agents
    BY <1>2, <2>1 DEF GoodSession
  <2>3. GoodRow(bounty, accepted, Causes, Outcomes)
    BY DEF GatewayInv, DatabaseGood
  <2> QED BY <1>4, <2>2, <2>3 DEF GoodSession, Session, GoodRow, GoodKarma, Decisions
<1> HIDE DEF next
<1> QED BY <1>1, <1>4, <1>5, ServeStep

LEMMA ApiStep ==
  ASSUME GatewayInv, ApiNext, UNCHANGED workerVars
  PROVE  GatewayInv'
<1> USE DEF Operations, Decisions
<1>c. ChainTypeOK /\ pool \in Seq(Call)
  BY DEF GatewayInv, ChainTypeOK
<1>1. ASSUME NEW r \in Requests, NEW user \in Agents, ClaimBounty(r, user)
      PROVE  GatewayInv'
  <2>1. Hand /\ Load(r, "claim", user)
        /\ accepted' = accepted \cup {user}
    BY <1>1 DEF ClaimBounty
  <2>2. pool' \in Seq(Call) /\ UNCHANGED <<app, round, logs>>
    BY <1>c, <2>1, HandStep
  <2> QED BY <2>1, <2>2, LoadStep
<1>2. ASSUME NEW r \in Requests, NEW user \in Agents, SubmitWork(r, user)
      PROVE  GatewayInv'
  <2>1. Hand /\ Load(r, "submit", user) /\ accepted' = accepted
    BY <1>2 DEF SubmitWork
  <2>2. pool' \in Seq(Call) /\ UNCHANGED <<app, round, logs>>
    BY <1>c, <2>1, HandStep
  <2> QED BY <2>1, <2>2, LoadStep
<1>3. ASSUME NEW r \in Requests, NEW user \in Agents, ApproveWork(r, user)
      PROVE  GatewayInv'
  <2>1. Hand /\ Load(r, "approve", user)
        /\ accepted' = accepted \cup {"PAYOUT"}
    BY <1>3 DEF ApproveWork
  <2>2. pool' \in Seq(Call) /\ UNCHANGED <<app, round, logs>>
    BY <1>c, <2>1, HandStep
  <2> QED BY <2>1, <2>2, LoadStep
<1>4. ASSUME NEW r \in Requests, NEW user \in Agents, RejectWork(r, user)
      PROVE  GatewayInv'
  <2>1. Hand /\ Load(r, "reject", user) /\ accepted' = accepted
    BY <1>4 DEF RejectWork
  <2>2. pool' \in Seq(Call) /\ UNCHANGED <<app, round, logs>>
    BY <1>c, <2>1, HandStep
  <2> QED BY <2>1, <2>2, LoadStep
<1>5. ASSUME NEW r \in Requests, NEW user \in Agents, DisputeWork(r, user)
      PROVE  GatewayInv'
  <2>1. Hand /\ Load(r, "dispute", user) /\ accepted' = accepted
    BY <1>5 DEF DisputeWork
  <2>2. pool' \in Seq(Call) /\ UNCHANGED <<app, round, logs>>
    BY <1>c, <2>1, HandStep
  <2> QED BY <2>1, <2>2, LoadStep
<1>6. ASSUME NEW r \in Requests, NEW d \in DOMAIN Resolutions,
             AdminResolveDispute(r, d)
      PROVE  GatewayInv'
  <2>1. d \in Decisions /\ Creator \in Agents
    BY DEF Resolutions, Agents
  <2>2. /\ Load(r, d, Creator) /\ accepted' = accepted \cup {Resolutions[d]}
        /\ UNCHANGED appVars
    BY <1>6 DEF AdminResolveDispute
  <2>3. pool' \in Seq(Call) /\ UNCHANGED <<app, round, logs>>
    BY <1>c, <2>2 DEF appVars
  <2> QED BY <2>1, <2>2, <2>3, LoadStep
<1>7. ASSUME NEW r \in Requests, Abort(r)
      PROVE  GatewayInv'
  BY <1>7, ServeStep DEF Abort, dbVars, workerVars, GatewayInv, DatabaseGood
<1> QED
  BY <1>1, <1>2, <1>3, <1>4, <1>5, <1>6, <1>7, CommitRowStep, CommitKarmaStep
     DEF ApiNext

\* A step of a poller that leaves the database alone.
LEMMA PollStep ==
  ASSUME GatewayInv, NEW p \in Pollers, NEW s, Set(p, s),
         GoodPoll(s, accepted, Causes, Outcomes, Len(logs)),
         UNCHANGED <<appVars, apiVars>>
  PROVE  GatewayInv'
<1>1. /\ DOMAIN poll' = Pollers /\ poll'[p] = s
      /\ \A q \in Pollers : q # p => poll'[q] = poll[q]
  BY DEF GatewayInv, PollsGood, Set
<1>2. GoodRow(bounty', accepted, Causes, Outcomes) /\ GoodKarma(karma', accepted)
  BY DEF GatewayInv, DatabaseGood, apiVars
<1>3. request' = request /\ DOMAIN request' = Requests /\ accepted' = accepted
  BY DEF GatewayInv, RequestsGood, apiVars
<1> QED BY <1>1, <1>2, <1>3, WriteStep

\* The row follows a good status of the state box.
LEMMA SyncStep ==
  ASSUME GatewayInv, NEW p \in Pollers, bounty' \in {bounty, Synced(bounty)},
         LoadActive(p), UNCHANGED <<appVars, karma, request, accepted>>
  PROVE  GatewayInv'
<1>1. GoodRow(bounty, accepted, Causes, Outcomes) /\ GoodKarma(karma, accepted)
  BY DEF GatewayInv, DatabaseGood
<1>2. GoodRow(Synced(bounty), accepted, Causes, Outcomes)
  <2>1. app.state \in Statuses /\ (app.state = "closed" => Causes # {})
    BY DEF GatewayInv, ChainTypeOK, Causes
  <2> QED BY <1>1, <2>1 DEF Synced, GoodRow, Rows
<1>3. GoodRow(bounty', accepted, Causes, Outcomes)
  BY <1>1, <1>2
<1> DEFINE s == [at |-> "loaded", row |-> bounty', karma |-> karma]
<1>4. /\ GoodPoll(s, accepted, Causes, Outcomes, Len(logs))
      /\ GoodPoll(Asleep, accepted, Causes, Outcomes, Len(logs))
  BY <1>1, <1>3 DEF GoodPoll, GoodRow, GoodKarma
<1>5. poll' = [poll EXCEPT ![p] = s] \/ poll' = [poll EXCEPT ![p] = Asleep]
  BY DEF LoadActive, Set
<1> HIDE DEF s
<1>6. /\ DOMAIN poll' = Pollers
      /\ poll'[p] = s \/ poll'[p] = Asleep
      /\ \A q \in Pollers : q # p => poll'[q] = poll[q]
  BY <1>5 DEF GatewayInv, PollsGood
<1>7. request' = request /\ DOMAIN request' = Requests
  BY DEF GatewayInv, RequestsGood
<1> QED BY <1>1, <1>3, <1>4, <1>6, <1>7, WriteStep

LEMMA WorkerStep ==
  ASSUME GatewayInv, WorkerNext
  PROVE  GatewayInv'
<1>1. ASSUME NEW p \in Pollers, SyncState(p) \/ BoxUnread(p) \/ SearchFails(p)
      PROVE  GatewayInv'
  <2>1. /\ bounty' \in {bounty, Synced(bounty)} /\ LoadActive(p)
        /\ UNCHANGED <<appVars, karma, request, accepted>>
    BY <1>1 DEF SyncState, BoxUnread, SearchFails
  <2> QED BY <2>1, SyncStep
<1>2. ASSUME NEW p \in Pollers
      PROVE  GoodPoll(poll[p], accepted, Causes, Outcomes, Len(logs))
  BY DEF GatewayInv, PollsGood
<1>3. GoodPoll(Asleep, accepted, Causes, Outcomes, Len(logs))
  BY DEF GoodPoll
<1>4. ASSUME NEW p \in Pollers, FetchLogs(p)
      PROVE  GatewayInv'
  <2> DEFINE s(lines) == [at |-> "applying", todo |-> lines,
                          loaded |-> poll[p].row, row |-> poll[p].row,
                          seen |-> poll[p].karma, karma |-> poll[p].karma]
  <2>1. PICK lines \in {Fetched(p), {}} :
          Set(p, IF lines = {} THEN Asleep ELSE s(lines))
    BY <1>4 DEF FetchLogs
  <2>2. lines \in SUBSET (1 .. Len(logs))
    BY <2>1 DEF Fetched, GatewayInv, ChainTypeOK
  <2>3. poll[p].at = "loaded" /\ UNCHANGED <<appVars, apiVars>>
    BY <1>4 DEF FetchLogs
  <2>4. /\ poll[p].row \in Rows /\ poll[p].karma \in Karmas
        /\ GoodRow(poll[p].row, accepted, Causes, Outcomes)
        /\ GoodKarma(poll[p].karma, accepted)
    <3>1. /\ poll[p] # Asleep
          /\ poll[p] \notin [at : {"applying"}, todo : SUBSET (1 .. Len(logs)),
                            loaded : Rows, row : Rows, seen : Karmas,
                            karma : Karmas]
      BY <2>3 DEF Asleep
    <3>2. /\ GoodRow(poll[p].row, accepted, Causes, Outcomes)
          /\ GoodKarma(poll[p].karma, accepted)
      BY <1>2, <3>1 DEF GoodPoll
    <3> QED BY <3>2 DEF GoodRow, GoodKarma
  <2>5. GoodPoll(s(lines), accepted, Causes, Outcomes, Len(logs))
    BY <2>2, <2>4 DEF GoodPoll
  <2> HIDE DEF s
  <2>6. CASE lines = {}
    BY <1>3, <2>1, <2>3, <2>6, PollStep
  <2>7. CASE lines # {}
    BY <2>1, <2>3, <2>5, <2>7, PollStep
  <2> QED BY <2>6, <2>7
<1>5. ASSUME NEW p \in Pollers, ApplyLine(p)
      PROVE  GatewayInv'
  <2>1. PICK i \in poll[p].todo :
          Set(p, [Apply(poll[p], logs[i]) EXCEPT !.todo = @ \ {i}])
    BY <1>5 DEF ApplyLine
  <2>2. poll[p].at = "applying" /\ UNCHANGED <<appVars, apiVars>>
    BY <1>5 DEF ApplyLine
  <2>3. poll[p].todo \in SUBSET (1 .. Len(logs))
    BY <1>2, <2>2 DEF GoodPoll, Asleep
  <2>4. i \in DOMAIN logs /\ Len(logs) \in Nat
    BY <2>1, <2>3 DEF GatewayInv, ChainTypeOK
  <2>5. Backed(logs[i], Causes, Outcomes)
    <3> SUFFICES ASSUME logs[i].line \in DOMAIN Outcome
                 PROVE  Causes # {} /\ Outcome[logs[i].line] \in Outcomes
      BY DEF Backed
    <3>1. app.state = "closed"
      BY <2>4 DEF GatewayInv, LogsSettle
    <3>2. logs[i] \in Range(logs)
      BY <2>4 DEF Range
    <3>3. Outcome[logs[i].line] \in LoggedOutcomes
      BY <3>2 DEF LoggedOutcomes
    <3> QED BY <3>1, <3>3 DEF Causes, Outcomes
  <2> DEFINE a == Apply(poll[p], logs[i])
             s == [a EXCEPT !.todo = @ \ {i}]
  <2>6. /\ GoodPoll(a, accepted, Causes, Outcomes, Len(logs))
        /\ a.at = "applying" /\ a.todo = poll[p].todo
    <3>1. GoodPoll(poll[p], accepted, Causes, Outcomes, Len(logs))
      BY <1>2
    <3>2. Len(logs) \in Nat
      BY <2>4
    <3>3. poll[p].at = "applying"
      BY <2>2
    <3> QED BY <3>1, <3>2, <3>3, <2>5, AppliedGood
  <2>7. GoodPoll(s, accepted, Causes, Outcomes, Len(logs))
    <3> HIDE DEF a
    <3>1. /\ a \in [at : {"applying"}, todo : SUBSET (1 .. Len(logs)),
                   loaded : Rows, row : Rows, seen : Karmas, karma : Karmas]
          /\ GoodRow(a.row, accepted, Causes, Outcomes) /\ GoodKarma(a.karma, accepted)
      BY <2>6 DEF GoodPoll, Asleep
    <3>2. /\ s \in [at : {"applying"}, todo : SUBSET (1 .. Len(logs)),
                   loaded : Rows, row : Rows, seen : Karmas, karma : Karmas]
          /\ s.row = a.row /\ s.karma = a.karma
      BY <3>1
    <3> HIDE DEF s
    <3> QED BY <3>1, <3>2 DEF GoodPoll
  <2> QED BY <2>1, <2>2, <2>7, PollStep
<1>6. ASSUME NEW p \in Pollers, CommitPoll(p)
      PROVE  GatewayInv'
  <2>1. /\ poll[p].at = "applying" /\ Set(p, Asleep)
        /\ bounty' = Flush(bounty, poll[p].loaded, poll[p].row)
        /\ karma' = Flush(karma, poll[p].seen, poll[p].karma)
        /\ UNCHANGED <<appVars, request, accepted>>
    BY <1>6 DEF CommitPoll
  <2>2. /\ GoodRow(poll[p].row, accepted, Causes, Outcomes)
        /\ GoodKarma(poll[p].karma, accepted)
    BY <1>2, <2>1 DEF GoodPoll, Asleep
  <2>3. GoodRow(bounty', accepted, Causes, Outcomes) /\ GoodKarma(karma', accepted)
    BY <2>1, <2>2, FlushedRow, FlushedKarma DEF GatewayInv, DatabaseGood
  <2>4. /\ DOMAIN poll' = Pollers /\ poll'[p] = Asleep
        /\ \A q \in Pollers : q # p => poll'[q] = poll[q]
    BY <2>1 DEF GatewayInv, PollsGood, Set
  <2>5. request' = request /\ DOMAIN request' = Requests
    BY <2>1 DEF GatewayInv, RequestsGood
  <2> QED BY <1>3, <2>1, <2>3, <2>4, <2>5, WriteStep
<1>7. ASSUME NEW p \in Pollers, PollFails(p) \/ Restart(p)
      PROVE  GatewayInv'
  <2>1. Set(p, Asleep) /\ UNCHANGED <<appVars, apiVars>>
    BY <1>7 DEF PollFails, Restart
  <2> QED BY <1>3, <2>1, PollStep
<1> QED BY <1>1, <1>4, <1>5, <1>6, <1>7 DEF WorkerNext, Poll

-----------------------------------------------------------------------------
(* The theorems.                                                           *)

LEMMA GatewayInvInit == Init => GatewayInv
<1> SUFFICES ASSUME Init PROVE GatewayInv
  OBVIOUS
<1>1. /\ app = [state |-> "open", agent |-> Nobody] /\ round = 1
      /\ logs = <<>> /\ pool = <<>> /\ accepted = {}
      /\ bounty = [status |-> "open", worker |-> Nobody, rejections |-> 0,
                   payout |-> ""]
      /\ karma = [a \in Agents |-> InitialKarma]
      /\ request = [r \in Requests |-> Unused]
      /\ poll = [p \in Pollers |-> Asleep]
  BY DEF Init, AppInit, ApiInit
<1>2. ChainTypeOK /\ LogsSettle
  <2>1. <<>> \in Seq(Entries) /\ <<>> \in Seq(Call) /\ DOMAIN <<>> = {}
    OBVIOUS
  <2> QED BY <1>1, <2>1 DEF ChainTypeOK, LogsSettle, Statuses
<1>3. DatabaseGood
  BY <1>1, ApiAssumption
     DEF DatabaseGood, GoodRow, GoodKarma, Rows, Karmas, Statuses, Payouts, Agents
<1>4. RequestsGood /\ PollsGood
  BY <1>1 DEF RequestsGood, PollsGood, GoodSession, GoodPoll
<1> QED BY <1>2, <1>3, <1>4 DEF GatewayInv

LEMMA GatewayInvStep == GatewayInv /\ [Next]_vars => GatewayInv'
<1> SUFFICES ASSUME GatewayInv, [Next]_vars PROVE GatewayInv'
  OBVIOUS
<1>1. CASE AppNext /\ UNCHANGED <<apiVars, workerVars>>
  <2>1. ChainTypeOK' /\ LogsSettle' /\ Grows
    BY <1>1, ChainStep DEF GatewayInv, apiVars
  <2>2. /\ bounty' = bounty /\ karma' = karma /\ request' = request /\ poll' = poll
    BY <1>1 DEF apiVars, workerVars
  <2>3. DatabaseGood'
    BY <2>1, <2>2, GrowthKeepsCopies DEF DatabaseGood
  <2>4. RequestsGood' /\ PollsGood'
    BY <2>1, <2>2, GrowthKeepsCopies DEF RequestsGood, PollsGood, GatewayInv
  <2> QED BY <2>1, <2>3, <2>4 DEF GatewayInv
<1>2. CASE ApiNext /\ UNCHANGED workerVars
  BY <1>2, ApiStep
<1>3. CASE WorkerNext
  BY <1>3, WorkerStep
<1>4. CASE UNCHANGED vars
  <2>1. /\ UNCHANGED <<appVars, accepted, bounty, karma, request, poll>>
    BY <1>4 DEF vars, apiVars, workerVars
  <2> QED BY <2>1, WriteStep DEF GatewayInv, DatabaseGood, RequestsGood, PollsGood
<1> QED BY <1>1, <1>2, <1>3, <1>4 DEF Next

THEOREM GatewayInvariant == Spec => []GatewayInv
BY GatewayInvInit, GatewayInvStep, PTL DEF Spec

\* Awards and penalties reach nobody but the creator and agents whose claim
\* the gateway accepted, for any number of requests and pollers:
\* StrangersKeepKarma.
THEOREM StrangersAlwaysKeepKarma == Spec => []StrangersKeepKarma
<1>1. GatewayInv => StrangersKeepKarma
  BY DEF GatewayInv, DatabaseGood, GoodKarma, StrangersKeepKarma
<1> QED BY <1>1, GatewayInvariant, PTL

\* No bounty is shown as closed, and none with an outcome, unless the
\* application has settled or the gateway has accepted an approval or decided a
\* dispute with that outcome, whatever transactions the requests brought and
\* whichever session wrote last: SettlementHasCause.
THEOREM SettlementAlwaysHasCause == Spec => []SettlementHasCause
<1>1. GatewayInv => SettlementHasCause
  BY DEF GatewayInv, DatabaseGood, GoodRow, Causes, Outcomes, SettlementHasCause
<1> QED BY <1>1, GatewayInvariant, PTL
=============================================================================
