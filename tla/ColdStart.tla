----------------------------- MODULE ColdStart -----------------------------
(***************************************************************************)
(* The reputation of agents and the records it comes from: collateral      *)
(* deposits and vouches of routers/coldstart.py, the penalties of an       *)
(* administrator, the agents a login creates.  DisputePanel adds the       *)
(* evaluators' rows, which move the same karma.                            *)
(*                                                                         *)
(* A handler reads rows into a session, decides, and commits new values in *)
(* one transaction.  Handlers run in the thread pools of two processes, so *)
(* others commit in between; the rows have no version, a commit writes the *)
(* columns its session changed whatever they hold by now, and only a       *)
(* unique key makes it fail.                                               *)
(*                                                                         *)
(* Left out: amounts other than "at least 5 ALGO"; the Algos themselves,   *)
(* which no handler moves; outcomes of a release other than the two named; *)
(* requests that are refused, and lists.                                   *)
(***************************************************************************)
EXTENDS Integers, FiniteSets, SequencesExt

CONSTANTS
  Agents,
  Handlers,             \* requests served at a time
  Bounties,             \* bounties a vouch may name; it may name none
  NoBounty,
  Mixes,                \* kinds of requests that are made in one behaviour
  Veterans,             \* agents that are already known
  OldKarma,             \* and their karma
  Stake,                \* karma at stake in a vouch
  Penalty,              \* karma an administrator takes
  MaxDeposits, MaxVouches, MaxPenalties     \* bounds

ASSUME ColdStartAssumption ==
  /\ IsFiniteSet(Agents) /\ Veterans \subseteq Agents
  /\ {OldKarma, Stake, Penalty} \subseteq Nat
  /\ {MaxDeposits, MaxVouches, MaxPenalties} \subseteq Nat
  /\ NoBounty \notin Bounties

VARIABLES
  mix,                  \* the kinds of requests of this behaviour
  karma,                \* table agents: column karma of the agents it has
  has_collateral,       \* and the other two columns
  vouched_by_count,
  deposits,             \* table collateral_deposits, by id
  vouches,              \* table vouches, by id
  handler,              \* the session of each request
  penalties,            \* history: penalties of the administrator
  fined,                \* history: karma lost by penalties and lost stakes
  twice,                \* history: agents with a deposit that two sessions ended
  raced                 \* history: agents of which a session wrote over
                        \* what another had committed

tables == <<karma, has_collateral, vouched_by_count, deposits, vouches>>
histories == <<mix, penalties, fined, twice, raced>>
coldVars == <<tables, histories, handler>>

NewKarma == 25          \* of an agent that logs in for the first time

Idle == [at |-> "idle"]
Known == DOMAIN karma

ColdInit ==
  /\ mix \in Mixes
  /\ karma = [a \in Veterans |-> OldKarma]
  /\ has_collateral = [a \in Agents |-> FALSE]
  /\ vouched_by_count = [a \in Agents |-> 0]
  /\ deposits = <<>> /\ vouches = <<>>
  /\ penalties = 0 /\ fined = [a \in Agents |-> 0]
  /\ twice = {} /\ raced = {}
  /\ handler = [h \in Handlers |-> Idle]

\* A table with the rows of f written over those of g.
Over(f, g) ==
  [x \in DOMAIN f \cup DOMAIN g |-> IF x \in DOMAIN f THEN f[x] ELSE g[x]]

Only(a, value) == [b \in {a} |-> value]

Floor(k) == IF k < 0 THEN 0 ELSE k

\* Columns karma a session changes: a value set to what it was is not written.
Changes(to) ==
  [a \in {b \in DOMAIN to : to[b] # karma[b]} |->
     [seen |-> karma[a], karma |-> to[a]]]

NoChange == [a \in {} |-> 0]

\* What is left of the session when its handler has read and decided: the row
\* to write, its id (0 for a new one) and the karma to write.
Decide(h, op, id, row, changes) ==
  /\ op \in mix /\ handler[h] = Idle
  /\ handler' = [handler EXCEPT ![h] = [at |-> op, id |-> id, row |-> row,
                                        changes |-> changes]]
  /\ UNCHANGED <<tables, histories>>

\* The same for a session that has loaded the agent's flag as well, and sets it
\* to flag: it too is written only if that is a change.
DecideFlag(h, at, id, row, changes, flag) ==
  /\ handler[h] = Idle
  /\ handler' = [handler EXCEPT ![h] = [at |-> at, id |-> id, row |-> row,
                                        changes |-> changes, flag |-> flag,
                                        loaded |-> has_collateral[row.agent]]]
  /\ UNCHANGED <<tables, histories>>

-----------------------------------------------------------------------------
(* Handlers: what they read and decide.                                    *)

\* auth_verify: an agent that has no row gets one.
Login(h, a) ==
  /\ a \notin Known
  /\ Decide(h, "login", 0, [agent |-> a], NoChange)

Locked(a) == {i \in DOMAIN deposits : /\ deposits[i].agent = a
                                      /\ deposits[i].status = "locked"}

DepositCollateral(h, a, large) ==
  /\ "deposit" \in mix
  /\ a \in Known /\ Locked(a) = {} /\ Len(deposits) < MaxDeposits
  /\ DecideFlag(h, "deposit", 0, [agent |-> a, large |-> large, status |-> "locked"],
                IF large THEN Changes(Only(a, karma[a] + 10)) ELSE NoChange, TRUE)

ActiveVouches(a, b) ==
  {i \in DOMAIN vouches : /\ vouches[i].by = a /\ vouches[i].for = b
                          /\ vouches[i].status = "active"}

\* count is the number of vouches to write.
CreateVouch(h, a, b, bounty) ==
  /\ {a, b} \subseteq Known /\ a # b
  /\ ActiveVouches(a, b) = {} /\ Len(vouches) < MaxVouches
  /\ LET elite == karma[a] >= 25
     IN  Decide(h, "vouch", 0,
                [by |-> a, for |-> b, bounty |-> bounty, status |-> "active",
                 elite |-> elite, count |-> vouched_by_count[b] + 1],
                IF elite THEN Changes(Only(a, karma[a] + 5)) ELSE NoChange)

\* Any caller may resolve any vouch, with any word for the outcome.
ResolveVouch(h, i, outcome) ==
  LET v == vouches[i]
      With(by, for) == Changes(Over(Only(v.by, by), Only(v.for, for)))
  IN  /\ v.status = "active"
      /\ Decide(h, "resolve", i, [v EXCEPT !.status = outcome],
           CASE outcome = "resolved" -> With(karma[v.by] + 5, karma[v.for] + 3)
             [] outcome = "slashed"  ->
                  With(Floor(karma[v.by] - Stake), karma[v.for] - 1)
             [] OTHER -> NoChange)

\* A release that succeeds looks for another locked deposit before it commits.
ReleaseCollateral(h, i, outcome) ==
  LET d == deposits[i]
      Ends(at, k) == DecideFlag(h, at, i, [d EXCEPT !.status = outcome],
                                Changes(Only(d.agent, k)), has_collateral[d.agent])
  IN  /\ "release" \in mix /\ d.status = "locked"
      /\ \/ outcome = "released" /\ Ends("look", karma[d.agent] + 15)
         \/ outcome = "slashed" /\ Ends("release", karma[d.agent] - 5)

Looked(h, found) ==
  LET s == handler[h]
  IN  /\ s.at = "look"
      /\ handler' = [handler EXCEPT ![h] =
           [at |-> "release", id |-> s.id, row |-> s.row, changes |-> s.changes,
            flag |-> IF found = {} THEN FALSE ELSE s.flag, loaded |-> s.loaded]]
      /\ UNCHANGED <<tables, histories>>

\* With pending changes flushed the query would not find the session's deposit.
MutantLookForLocked(h) == Looked(h, Locked(handler[h].row.agent) \ {handler[h].id})

\* The session's own change is not flushed: the query finds its own deposit,
\* unless another session has ended that one since.
LookForLocked(h) == Looked(h, Locked(handler[h].row.agent))

\* resolve_quarantine with the action penalize, which is applied again to a
\* quarantine that is already resolved.
Penalize(h, a) ==
  /\ a \in Known /\ penalties < MaxPenalties
  /\ Decide(h, "penalize", 0, [agent |-> a],
            Changes(Only(a, Floor(karma[a] - Penalty))))

-----------------------------------------------------------------------------
(* The commit of a session s.                                              *)

\* The primary key of agents and uq_vouch; a NULL differs from every other.
Duplicate(s) ==
  \/ s.at = "login" /\ s.row.agent \in Known
  \/ /\ s.at = "vouch" /\ s.row.bounty # NoBounty
     /\ \E i \in DOMAIN vouches : /\ vouches[i].by = s.row.by
                                  /\ vouches[i].for = s.row.for
                                  /\ vouches[i].bounty = s.row.bounty

\* The values the session computed.
KarmaAfter(changes) ==
  [a \in Known |-> IF a \in DOMAIN changes THEN changes[a].karma ELSE karma[a]]

Flag(s) ==
  IF s.at \in {"deposit", "release"} /\ s.flag # s.loaded
    THEN [has_collateral EXCEPT ![s.row.agent] = s.flag]
    ELSE has_collateral

DepositsAfter(s) ==
  CASE s.at = "deposit" -> Append(deposits, s.row)
    [] s.at = "release" -> [deposits EXCEPT ![s.id] = s.row]
    [] OTHER -> deposits

MutantVouchesAfter(s) ==
  IF s.at = "vouch" THEN Append(vouches, s.row) ELSE vouches

VouchesAfter(s) ==
  CASE s.at = "vouch"   -> Append(vouches, s.row)
    [] s.at = "resolve" -> [vouches EXCEPT ![s.id] = s.row]
    [] OTHER -> vouches

Overwritten(changes) ==
  {a \in DOMAIN changes : a \in Known /\ changes[a].seen # karma[a]}

\* A deposit another session has ended meanwhile is ended once more.
Twice(s) ==
  IF s.at = "release" /\ deposits[s.id].status # "locked" THEN {s.row.agent} ELSE {}

\* So is a vouch, and a count that has moved is written over.
Again(s) ==
  CASE s.at = "release" -> Twice(s)
    [] s.at = "resolve" /\ vouches[s.id].status # "active"  -> {s.row.by, s.row.for}
    [] s.at = "vouch" /\ vouched_by_count[s.row.for] + 1 # s.row.count -> {s.row.for}
    [] OTHER -> {}

\* The agent a session fines, by an amount the rows do not tell.
Fines(s) ==
  CASE s.at = "penalize" -> {s.row.agent}
    [] s.at = "resolve" /\ s.row.status = "slashed" -> {s.row.by}
    [] OTHER -> {}

Fine(agents, changes) ==
  [a \in Agents |-> IF a \in agents \cap DOMAIN changes
                      THEN fined[a] + changes[a].seen - changes[a].karma
                      ELSE fined[a]]

Commits == {"login", "deposit", "vouch", "resolve", "release", "penalize"}

Commit(h) ==
  LET s == handler[h]
  IN  /\ s.at \in Commits /\ ~Duplicate(s)
      /\ karma' = IF s.at = "login" THEN Over(Only(s.row.agent, NewKarma), karma)
                  ELSE KarmaAfter(s.changes)
      /\ has_collateral' = Flag(s)
      /\ vouched_by_count' = IF s.at # "vouch" THEN vouched_by_count
           ELSE [vouched_by_count EXCEPT ![s.row.for] = s.row.count]
      /\ deposits' = DepositsAfter(s)
      /\ vouches' = VouchesAfter(s)
      /\ handler' = [handler EXCEPT ![h] = Idle]
      /\ penalties' = penalties + (IF s.at = "penalize" THEN 1 ELSE 0)
      /\ fined' = Fine(Fines(s), s.changes)
      /\ twice' = twice \cup Twice(s)
      /\ raced' = raced \cup Overwritten(s.changes) \cup Again(s)
      /\ UNCHANGED mix

\* A unique key refuses the commit, or the process dies.
Abort(h) ==
  /\ handler[h] # Idle
  /\ handler' = [handler EXCEPT ![h] = Idle]
  /\ UNCHANGED <<tables, histories>>

ColdNext ==
  \E h \in Handlers :
    \/ \E a \in Agents :
         \/ Login(h, a) \/ Penalize(h, a)
         \/ \E large \in BOOLEAN : DepositCollateral(h, a, large)
         \/ \E b \in Agents, bounty \in Bounties \cup {NoBounty} :
              CreateVouch(h, a, b, bounty)
    \/ \E i \in DOMAIN deposits, outcome \in {"released", "slashed"} :
         ReleaseCollateral(h, i, outcome)
    \/ \E i \in DOMAIN vouches, outcome \in {"resolved", "slashed", "expired"} :
         ResolveVouch(h, i, outcome)
    \/ LookForLocked(h) \/ Commit(h) \/ Abort(h)
=============================================================================
