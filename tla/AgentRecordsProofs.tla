------------------------- MODULE AgentRecordsProofs -------------------------
(***************************************************************************)
(* The four invariants of AgentRecords and DisputePanel, for any agents,   *)
(* sessions, pollers and amounts.                                          *)
(*                                                                         *)
(* LockedIsFlagged and WithholdingExplained are about columns derived from *)
(* others and written by sessions that may be stale.  RecordsInv says what *)
(* a session still knows by the time it commits.  An agent that has the    *)
(* flag, or of which two sessions have ended one deposit, stays such an    *)
(* agent (Covered), and a deposit that has ended stays ended: so a session *)
(* that lowers the flag ends its deposit for the second time.  The sum a   *)
(* tax session has seen stays between what has been taken and added since, *)
(* because those two histories only grow.                                  *)
(*                                                                         *)
(* RowsJustified: PanelInv says that each vote a session or a poll holds   *)
(* has its cause already (Caused), and that causes stay (Grows).           *)
(*                                                                         *)
(* KarmaExplained: KarmaInv says how much a session will move the karma of *)
(* each agent (Raises) and which row will say so (Balanced); its step      *)
(* counts rows, one that is added or one that is replaced.                 *)
(***************************************************************************)
EXTENDS AgentRecords, SequenceTheorems, FiniteSetTheorems, TLAPS

DepositRows ==
  [agent : Agents, large : BOOLEAN, status : {"locked", "released", "slashed"}]

TaxRows ==
  [jurisdiction : Jurisdictions \cup {""}, cumulative : Int, rate : {0, 24, 25}]

Covered == {a \in Agents : has_collateral[a] \/ a \in twice}

Ended(rows) == {i \in DOMAIN rows : rows[i].status # "locked"}

\* What UpdateTaxInfo and RecordPayout leave in a session.
TaxSession(row, cr, db) ==
  /\ row.agent \in Agents /\ row.paid \in Int
  /\ row.seen \in TaxRows /\ row.tax \in TaxRows
  /\ -db[row.agent] <= row.seen.cumulative /\ row.seen.cumulative <= cr[row.agent]
  /\ row.tax.cumulative = row.seen.cumulative + row.paid
  /\ row.tax.rate = Withheld(row.tax)

\* What deposit_collateral and release_collateral leave in one.
DepositSession(s, covered) ==
  /\ s.row \in DepositRows /\ s.flag = TRUE /\ s.loaded \in BOOLEAN
  /\ s.loaded => s.row.agent \in covered

ReleaseSession(s, rows) ==
  /\ s.id \in DOMAIN rows /\ s.row.agent = rows[s.id].agent
  /\ s.row \in DepositRows /\ s.row.status # "locked"
  /\ s.flag \in BOOLEAN /\ s.loaded \in BOOLEAN
  /\ s.flag # s.loaded => s.flag = FALSE /\ s.id \in Ended(rows)

SessionOk(s, rows, covered, cr, db) ==
  /\ s.at = "deposit" => DepositSession(s, covered)
  /\ s.at = "look" => ReleaseSession(s, rows) /\ s.flag = s.loaded
  /\ s.at = "release" => ReleaseSession(s, rows)
  /\ s.at = "tax" => TaxSession(s.row, cr, db)

Flagged(rows, covered) ==
  \A i \in DOMAIN rows : rows[i].status = "locked" => rows[i].agent \in covered

Explained(row, cr, db, known) ==
  /\ row \in TaxRows
  /\ -db <= row.cumulative /\ row.cumulative <= cr
  /\ row.rate > 0 => cr > Threshold
  /\ known => row.cumulative = cr - db /\ row.rate = Withheld(row)

RecordsInv ==
  /\ deposits \in Seq(DepositRows)
  /\ has_collateral \in [Agents -> BOOLEAN]
  /\ Flagged(deposits, Covered)
  /\ credited \in [Agents -> Nat] /\ debited \in [Agents -> Nat]
  /\ tax = [a \in Agents |-> tax[a]]
  /\ \A a \in Agents : Explained(tax[a], credited[a], debited[a], a \notin misread)
  /\ handler = [h \in Handlers |-> handler[h]]
  /\ \A h \in Handlers : SessionOk(handler[h], deposits, Covered, credited, debited)

-----------------------------------------------------------------------------
(* Steps that touch none of it, or a single session.                       *)

\* What both properties depend on besides the sessions.
watched == <<deposits, has_collateral, twice, credited, debited, tax, misread>>

LEMMA IdleIsOk == \A rows, c, cr, db : SessionOk(Idle, rows, c, cr, db)
BY DEF SessionOk, Idle

LEMMA OneSession ==
  ASSUME RecordsInv, UNCHANGED watched, NEW h \in Handlers, NEW s,
         handler' = [handler EXCEPT ![h] = s],
         SessionOk(s, deposits, Covered, credited, debited)
  PROVE  RecordsInv'
<1>1. handler' = [k \in Handlers |-> IF k = h THEN s ELSE handler[k]]
  BY DEF RecordsInv
<1>2. Covered' = Covered
  BY DEF Covered, watched
<1>3. \A k \in Handlers :
        SessionOk(handler'[k], deposits', Covered', credited', debited')
  BY <1>1, <1>2 DEF RecordsInv, watched
<1>4. handler' = [k \in Handlers |-> handler'[k]]
  BY <1>1
<1> QED BY <1>2, <1>3, <1>4 DEF RecordsInv, watched

LEMMA NoSession ==
  ASSUME RecordsInv, UNCHANGED watched, UNCHANGED handler
  PROVE  RecordsInv'
<1>1. Covered' = Covered
  BY DEF Covered, watched
<1> QED BY <1>1 DEF RecordsInv, watched

\* The sessions of other operations hold nothing that is derived.
LEMMA OtherSession ==
  ASSUME NEW s, s.at \notin {"deposit", "look", "release", "tax"},
         NEW rows, NEW c, NEW cr, NEW db
  PROVE  SessionOk(s, rows, c, cr, db)
BY DEF SessionOk

\* Decide leaves everything but the session of its handler.
LEMMA DecideOk ==
  ASSUME RecordsInv, NEW h \in Handlers, NEW op, NEW id, NEW row, NEW changes,
         Decide(h, op, id, row, changes),
         UNCHANGED <<credited, debited, tax, misread>>,
         SessionOk([at |-> op, id |-> id, row |-> row, changes |-> changes],
                   deposits, Covered, credited, debited)
  PROVE  RecordsInv'
<1>1. UNCHANGED watched
  BY DEF Decide, watched, tables, histories
<1> QED BY <1>1, OneSession DEF Decide

-----------------------------------------------------------------------------
(* Taxes.                                                                  *)

LEMMA RateFits ==
  ASSUME NEW jurisdiction PROVE Rate(jurisdiction) \in {0, 24, 25}
BY DEF Rate

LEMMA WithheldFits ==
  ASSUME NEW row
  PROVE  /\ Withheld(row) \in {0, 24, 25}
         /\ Withheld(row) > 0 => row.cumulative > Threshold
BY RateFits DEF Withheld

\* The stored rate of an up-to-date row is the one /me/tax/withholding shows.
LEMMA WithheldIsDetermined ==
  ASSUME NEW row \in TaxRows PROVE Withheld(row) = Determined(row)
<1>1. row.cumulative \in Int
  BY DEF TaxRows
<1>2. Rate(row.jurisdiction) \in {0, 24, 25}
  BY RateFits
<1> QED BY <1>1, <1>2 DEF Withheld, Determined, Threshold

\* The rate depends on the other two columns.
LEMMA WithheldOfEqual ==
  ASSUME NEW r, NEW q, r.cumulative = q.cumulative,
         r.jurisdiction = q.jurisdiction
  PROVE  Withheld(r) = Withheld(q)
BY DEF Withheld

LEMMA MovedOk ==
  ASSUME NEW row \in TaxRows, NEW j \in Jurisdictions
  PROVE  /\ Moved(row, j) \in TaxRows
         /\ Moved(row, j).cumulative = row.cumulative
         /\ Moved(row, j).rate = Withheld(Moved(row, j))
<1> DEFINE to == [row EXCEPT !.jurisdiction = j]
           new == Moved(row, j)
<1>1. to \in TaxRows /\ to.cumulative = row.cumulative
  BY DEF TaxRows
<1>2. new = [to EXCEPT !.rate = Withheld(to)]
  BY DEF Moved
<1>3. Withheld(to) \in {0, 24, 25}
  BY WithheldFits
<1> HIDE DEF to, new
<1>4. /\ new \in TaxRows /\ new.cumulative = to.cumulative
      /\ new.jurisdiction = to.jurisdiction /\ new.rate = Withheld(to)
  BY <1>1, <1>2, <1>3 DEF TaxRows
<1>5. Withheld(new) = Withheld(to)
  BY <1>4, WithheldOfEqual
<1>6. new \in TaxRows /\ new.cumulative = row.cumulative /\ new.rate = Withheld(new)
  BY <1>1, <1>4, <1>5
<1> QED BY <1>6 DEF new

LEMMA PaidOk ==
  ASSUME NEW row \in TaxRows, NEW amount \in Int
  PROVE  /\ Paid(row, amount) \in TaxRows
         /\ Paid(row, amount).cumulative = row.cumulative + amount
         /\ Paid(row, amount).rate = Withheld(Paid(row, amount))
<1> DEFINE to == [row EXCEPT !.cumulative = @ + amount]
           new == Paid(row, amount)
<1>1. row.cumulative + amount \in Int
  <2>1. row.cumulative \in Int
    BY DEF TaxRows
  <2>2. \A m, n \in Int : m + n \in Int
    OBVIOUS
  <2> QED BY <2>1, <2>2
<1> DEFINE sum == row.cumulative + amount
<1> HIDE DEF sum
<1>a. /\ [row EXCEPT !.cumulative = sum] \in TaxRows
      /\ [row EXCEPT !.cumulative = sum].cumulative = sum
  <2>1. sum \in Int
    BY <1>1 DEF sum
  <2> QED BY <2>1 DEF TaxRows
<1>2. to \in TaxRows /\ to.cumulative = row.cumulative + amount
  BY <1>a DEF sum
<1>3. new = [to EXCEPT !.rate = Withheld(to)]
  BY DEF Paid
<1>4. Withheld(to) \in {0, 24, 25}
  BY WithheldFits
<1> HIDE DEF to, new
<1>5. /\ new \in TaxRows /\ new.cumulative = to.cumulative
      /\ new.jurisdiction = to.jurisdiction /\ new.rate = Withheld(to)
  BY <1>2, <1>3, <1>4 DEF TaxRows
<1>6. Withheld(new) = Withheld(to)
  BY <1>5, WithheldOfEqual
<1>7. /\ new \in TaxRows /\ new.cumulative = row.cumulative + amount
      /\ new.rate = Withheld(new)
  BY <1>2, <1>5, <1>6
<1> QED BY <1>7 DEF new

\* A column is what the session computed, or what the table holds because the
\* session did not change it.
LEMMA ColumnsOk ==
  ASSUME NEW row \in TaxRows, NEW seen \in TaxRows, NEW new \in TaxRows
  PROVE  LET c == Columns(row, seen, new)
         IN  /\ c \in TaxRows
             /\ c.cumulative = IF new.cumulative = seen.cumulative
                                 THEN row.cumulative ELSE new.cumulative
             /\ c.rate \in {row.rate, new.rate}
             /\ seen = row => c = new
<1> DEFINE c == Columns(row, seen, new)
<1>1. c = [jurisdiction |-> IF new.jurisdiction = seen.jurisdiction
                              THEN row.jurisdiction ELSE new.jurisdiction,
           cumulative |-> IF new.cumulative = seen.cumulative
                            THEN row.cumulative ELSE new.cumulative,
           rate |-> IF new.rate = seen.rate THEN row.rate ELSE new.rate]
  BY DEF Columns
<1> HIDE DEF c
<1>2. seen = row => c = new
  BY <1>1 DEF TaxRows
<1>3. c \in TaxRows
  BY <1>1 DEF TaxRows
<1>4. c.rate \in {row.rate, new.rate}
  BY <1>1
<1> QED BY <1>1, <1>2, <1>3, <1>4 DEF c

\* An amount is added or taken.
LEMMA CreditLessDebit ==
  ASSUME NEW amount \in Int
  PROVE  /\ Credit(amount) \in Nat /\ Debit(amount) \in Nat
         /\ amount = Credit(amount) - Debit(amount)
BY DEF Credit, Debit

\* A commit that may be stale keeps the row explained.
LEMMA CommitExplained ==
  ASSUME NEW row, NEW cr \in Nat, NEW db \in Nat, NEW known,
         Explained(row, cr, db, known),
         NEW seen \in TaxRows, NEW new \in TaxRows, NEW up \in Nat, NEW down \in Nat,
         -db <= seen.cumulative, seen.cumulative <= cr,
         new.cumulative = seen.cumulative + (up - down), new.rate = Withheld(new)
  PROVE  Explained(Columns(row, seen, new), cr + up, db + down, known /\ seen = row)
<1> DEFINE c == Columns(row, seen, new)
<1>1. /\ row \in TaxRows /\ -db <= row.cumulative /\ row.cumulative <= cr
      /\ row.rate > 0 => cr > Threshold
  BY DEF Explained
<1>2. /\ row.cumulative \in Int /\ seen.cumulative \in Int
      /\ new.cumulative \in Int /\ row.rate \in {0, 24, 25}
  BY <1>1 DEF TaxRows
<1>3. /\ c \in TaxRows
      /\ c.cumulative = IF new.cumulative = seen.cumulative
                          THEN row.cumulative ELSE new.cumulative
      /\ c.rate \in {row.rate, new.rate}
      /\ seen = row => c = new
  BY <1>1, ColumnsOk
<1> HIDE DEF c
<1>4. -(db + down) <= c.cumulative /\ c.cumulative <= cr + up
  BY <1>1, <1>2, <1>3
<1>5. ASSUME c.rate > 0 PROVE cr + up > Threshold
  <2>1. CASE c.rate = row.rate
    BY <1>1, <1>5, <2>1 DEF Threshold
  <2>2. CASE c.rate = new.rate
    <3>1. new.cumulative > Threshold
      BY <1>5, <2>2, WithheldFits
    <3> QED BY <1>2, <3>1 DEF Threshold
  <2> QED BY <1>3, <2>1, <2>2
<1>6. ASSUME known, seen = row
      PROVE  c.cumulative = (cr + up) - (db + down) /\ c.rate = Withheld(c)
  <2>1. row.cumulative = cr - db
    BY <1>6 DEF Explained
  <2>2. c = new
    BY <1>3, <1>6
  <2>3. new.cumulative = (cr + up) - (db + down)
    BY <1>2, <1>6, <2>1
  <2> QED BY <2>2, <2>3
<1> QED BY <1>3, <1>4, <1>5, <1>6 DEF Explained, c

LEMMA UpdateTaxInfoOk ==
  ASSUME RecordsInv, NEW h \in Handlers, NEW a \in Agents, NEW j \in Jurisdictions,
         UpdateTaxInfo(h, a, j), UNCHANGED recordVars
  PROVE  RecordsInv'
<1> DEFINE row == [agent |-> a, seen |-> tax[a], paid |-> 0, tax |-> Moved(tax[a], j)]
<1>1. /\ tax[a] \in TaxRows
      /\ -debited[a] <= tax[a].cumulative /\ tax[a].cumulative <= credited[a]
  BY DEF RecordsInv, Explained
<1>2. tax[a].cumulative + 0 = tax[a].cumulative
  <2>1. tax[a].cumulative \in Int
    BY <1>1 DEF TaxRows
  <2>2. \A n \in Int : n + 0 = n
    OBVIOUS
  <2> QED BY <2>1, <2>2
<1>3. TaxSession(row, credited, debited)
  BY <1>1, <1>2, MovedOk DEF TaxSession
<1>4. SessionOk([at |-> "tax", id |-> 0, row |-> row, changes |-> NoChange],
                deposits, Covered, credited, debited)
  BY <1>3 DEF SessionOk
<1>5. Decide(h, "tax", 0, row, NoChange)
      /\ UNCHANGED <<credited, debited, tax, misread>>
  BY DEF UpdateTaxInfo, recordVars
<1> HIDE DEF row
<1> QED BY <1>4, <1>5, DecideOk

LEMMA RecordPayoutOk ==
  ASSUME RecordsInv, NEW h \in Handlers, NEW a \in Agents, NEW amount \in Amounts,
         RecordPayout(h, a, amount), UNCHANGED recordVars
  PROVE  RecordsInv'
<1> DEFINE row == [agent |-> a, seen |-> tax[a], paid |-> amount,
                   tax |-> Paid(tax[a], amount)]
<1>1. /\ tax[a] \in TaxRows /\ amount \in Int
      /\ -debited[a] <= tax[a].cumulative /\ tax[a].cumulative <= credited[a]
  BY RecordsAssumption DEF RecordsInv, Explained
<1>2. TaxSession(row, credited, debited)
  BY <1>1, PaidOk DEF TaxSession
<1>3. SessionOk([at |-> "tax", id |-> 0, row |-> row, changes |-> NoChange],
                deposits, Covered, credited, debited)
  BY <1>2 DEF SessionOk
<1>4. Decide(h, "tax", 0, row, NoChange)
      /\ UNCHANGED <<credited, debited, tax, misread>>
  BY DEF RecordPayout, recordVars
<1> HIDE DEF row
<1> QED BY <1>3, <1>4, DecideOk

-----------------------------------------------------------------------------
(* Commits.                                                                *)

\* What sessions rely on is not taken back.
RecordsStay ==
  /\ DOMAIN deposits \subseteq DOMAIN deposits'
  /\ \A i \in DOMAIN deposits : deposits'[i].agent = deposits[i].agent
  /\ Ended(deposits) \subseteq Ended(deposits') /\ Covered \subseteq Covered'
  /\ credited' \in [Agents -> Nat] /\ debited' \in [Agents -> Nat]
  /\ \A a \in Agents : credited[a] <= credited'[a] /\ debited[a] <= debited'[a]

\* So the sessions that are left still know what they knew.
LEMMA SessionsKept ==
  ASSUME RecordsInv, NEW h \in Handlers, handler' = [handler EXCEPT ![h] = Idle],
         RecordsStay
  PROVE  /\ handler' = [k \in Handlers |-> handler'[k]]
         /\ \A k \in Handlers :
              SessionOk(handler'[k], deposits', Covered', credited', debited')
<1>1. handler' = [k \in Handlers |-> IF k = h THEN Idle ELSE handler[k]]
  BY DEF RecordsInv
<1>2. ASSUME NEW k \in Handlers
      PROVE  SessionOk(handler'[k], deposits', Covered', credited', debited')
  <2>1. CASE k = h
    BY <1>1, <2>1, IdleIsOk
  <2>2. CASE k # h
    <3> PICK s : s = handler[k]
      OBVIOUS
    <3>1. handler'[k] = s /\ SessionOk(s, deposits, Covered, credited, debited)
      BY <1>1, <2>2 DEF RecordsInv
    <3>2. ASSUME TaxSession(s.row, credited, debited)
          PROVE  TaxSession(s.row, credited', debited')
      <4> PICK a : a = s.row.agent
        OBVIOUS
      <4>1. /\ a \in Agents /\ s.row.seen.cumulative \in Int
            /\ -debited[a] <= s.row.seen.cumulative /\ s.row.seen.cumulative <= credited[a]
        BY <3>2 DEF TaxSession, TaxRows
      <4>2. /\ credited[a] \in Nat /\ credited'[a] \in Nat /\ credited[a] <= credited'[a]
            /\ debited[a] \in Nat /\ debited'[a] \in Nat /\ debited[a] <= debited'[a]
        BY <4>1 DEF RecordsInv, RecordsStay
      <4>3. /\ -debited'[a] <= s.row.seen.cumulative
            /\ s.row.seen.cumulative <= credited'[a]
        BY <4>1, <4>2
      <4> QED BY <3>2, <4>3 DEF TaxSession
    <3>3. DepositSession(s, Covered) => DepositSession(s, Covered')
      BY DEF RecordsStay, DepositSession
    <3>4. ReleaseSession(s, deposits) => ReleaseSession(s, deposits')
      BY DEF RecordsStay, ReleaseSession
    <3> QED BY <3>1, <3>2, <3>3, <3>4 DEF SessionOk
  <2> QED BY <2>1, <2>2
<1>3. handler' = [k \in Handlers |-> handler'[k]]
  BY <1>1
<1> QED BY <1>2, <1>3

\* The flag a session writes, and who stays covered.
LEMMA FlagWritten ==
  ASSUME RecordsInv, NEW h \in Handlers, Commit(h), NEW s, s = handler[h]
  PROVE  /\ has_collateral' \in [Agents -> BOOLEAN] /\ Covered \subseteq Covered'
         /\ s.at = "deposit" => s.row.agent \in Covered'
<1>1. SessionOk(s, deposits, Covered, credited, debited)
  BY DEF RecordsInv
<1>2. /\ has_collateral' = Flag(s) /\ twice' = twice \cup Twice(s)
      /\ has_collateral \in [Agents -> BOOLEAN]
  BY DEF Commit, RecordsInv
<1>3. CASE s.at = "deposit"
  <2>1. /\ s.row.agent \in Agents /\ s.flag = TRUE /\ s.loaded \in BOOLEAN
        /\ s.loaded => s.row.agent \in Covered
    BY <1>1, <1>3 DEF SessionOk, DepositSession, DepositRows
  <2>2. CASE s.loaded
    <3>1. has_collateral' = has_collateral
      BY <1>2, <1>3, <2>1, <2>2 DEF Flag
    <3> QED BY <1>2, <2>1, <2>2, <3>1 DEF Covered
  <2>3. CASE ~s.loaded
    <3>1. has_collateral' = [has_collateral EXCEPT ![s.row.agent] = TRUE]
      BY <1>2, <1>3, <2>1, <2>3 DEF Flag
    <3> QED BY <1>2, <2>1, <3>1 DEF Covered
  <2> QED BY <2>2, <2>3
<1>4. CASE s.at = "release"
  <2>1. /\ s.row.agent \in Agents /\ s.id \in DOMAIN deposits
        /\ s.flag # s.loaded => s.flag = FALSE /\ deposits[s.id].status # "locked"
    BY <1>1, <1>4 DEF SessionOk, ReleaseSession, DepositRows, Ended
  <2>2. CASE s.flag = s.loaded
    <3>1. has_collateral' = has_collateral
      BY <1>2, <2>2 DEF Flag
    <3> QED BY <1>2, <1>4, <3>1 DEF Covered
  <2>3. CASE s.flag # s.loaded
    <3>1. /\ has_collateral' = [has_collateral EXCEPT ![s.row.agent] = FALSE]
          /\ s.row.agent \in twice'
      BY <1>2, <1>4, <2>1, <2>3 DEF Flag, Twice
    <3> QED BY <1>2, <1>4, <2>1, <3>1 DEF Covered
  <2> QED BY <2>2, <2>3
<1>5. CASE s.at \notin {"deposit", "release"}
  <2>1. has_collateral' = has_collateral
    BY <1>2, <1>5 DEF Flag
  <2> QED BY <1>2, <1>5, <2>1 DEF Covered
<1> QED BY <1>3, <1>4, <1>5

LEMMA CommitOk ==
  ASSUME RecordsInv, NEW h \in Handlers, Commit(h), UNCHANGED recordVars
  PROVE  RecordsInv'
<1> PICK s : s = handler[h]
  OBVIOUS
<1>1. SessionOk(s, deposits, Covered, credited, debited)
  BY DEF RecordsInv
<1>2. deposits' = DepositsAfter(s) /\ handler' = [handler EXCEPT ![h] = Idle]
  BY DEF Commit
<1>3. deposits \in Seq(DepositRows) /\ Flagged(deposits, Covered)
  BY DEF RecordsInv
<1>4. UNCHANGED <<credited, debited, tax, misread>>
  BY DEF recordVars
<1>5. /\ has_collateral' \in [Agents -> BOOLEAN] /\ Covered \subseteq Covered'
      /\ s.at = "deposit" => s.row.agent \in Covered'
  BY FlagWritten
<1>6. /\ deposits' \in Seq(DepositRows) /\ DOMAIN deposits \subseteq DOMAIN deposits'
      /\ \A i \in DOMAIN deposits : deposits'[i].agent = deposits[i].agent
      /\ Ended(deposits) \subseteq Ended(deposits')
      /\ Flagged(deposits', Covered')
  <2>1. CASE s.at = "deposit"
    <3>1. s.row \in DepositRows
      BY <1>1, <2>1 DEF SessionOk, DepositSession
    <3>2. deposits' = Append(deposits, s.row)
      BY <1>2, <2>1 DEF DepositsAfter
    <3>3. /\ deposits' \in Seq(DepositRows) /\ Len(deposits') = Len(deposits) + 1
          /\ \A i \in 1 .. Len(deposits) : deposits'[i] = deposits[i]
          /\ deposits'[Len(deposits) + 1] = s.row
      BY <1>3, <3>1, <3>2, AppendProperties
    <3>4. Len(deposits) \in Nat /\ DOMAIN deposits = 1 .. Len(deposits)
      BY <1>3, LenProperties
    <3>5. DOMAIN deposits' = 1 .. Len(deposits) + 1
      BY <3>3, LenProperties
    <3>6. /\ DOMAIN deposits \subseteq DOMAIN deposits'
          /\ \A i \in DOMAIN deposits : deposits'[i] = deposits[i]
          /\ \A i \in DOMAIN deposits' : i \in DOMAIN deposits \/ deposits'[i] = s.row
      BY <3>3, <3>4, <3>5
    <3>7. Flagged(deposits', Covered')
      BY <1>3, <1>5, <2>1, <3>6 DEF Flagged
    <3> QED BY <3>3, <3>6, <3>7 DEF Ended
  <2>2. CASE s.at = "release"
    <3>1. /\ s.id \in DOMAIN deposits /\ s.row \in DepositRows
          /\ s.row.status # "locked" /\ s.row.agent = deposits[s.id].agent
      BY <1>1, <2>2 DEF SessionOk, ReleaseSession
    <3>2. deposits' = [deposits EXCEPT ![s.id] = s.row]
      BY <1>2, <2>2 DEF DepositsAfter
    <3>3. deposits' \in Seq(DepositRows) /\ DOMAIN deposits' = DOMAIN deposits
      BY <1>3, <3>1, <3>2, ExceptSeq
    <3>4. \A i \in DOMAIN deposits : deposits'[i] = IF i = s.id THEN s.row ELSE deposits[i]
      BY <3>1, <3>2
    <3>5. Flagged(deposits', Covered')
      BY <1>3, <1>5, <3>1, <3>3, <3>4 DEF Flagged
    <3>6. Ended(deposits) \subseteq Ended(deposits')
      BY <3>1, <3>3, <3>4 DEF Ended
    <3> QED BY <3>1, <3>3, <3>4, <3>5, <3>6
  <2>3. CASE s.at \notin {"deposit", "release"}
    <3>1. deposits' = deposits
      BY <1>2, <2>3 DEF DepositsAfter
    <3> QED BY <1>3, <1>5, <3>1 DEF Flagged
  <2> QED BY <2>1, <2>2, <2>3
<1>7. RecordsStay
  <2>1. /\ credited \in [Agents -> Nat] /\ debited \in [Agents -> Nat]
    BY DEF RecordsInv
  <2> QED BY <1>4, <1>5, <1>6, <2>1 DEF RecordsStay
<1>8. /\ handler' = [k \in Handlers |-> handler'[k]]
      /\ \A k \in Handlers :
           SessionOk(handler'[k], deposits', Covered', credited', debited')
  BY <1>2, <1>7, SessionsKept
<1> QED BY <1>4, <1>5, <1>6, <1>8 DEF RecordsInv

LEMMA CommitRecordOk ==
  ASSUME RecordsInv, NEW h \in Handlers, CommitRecord(h)
  PROVE  RecordsInv'
<1> PICK s : s = handler[h]
  OBVIOUS
<1> PICK a : a = s.row.agent
  OBVIOUS
<1>1. SessionOk(s, deposits, Covered, credited, debited)
  BY DEF RecordsInv
<1>2. /\ UNCHANGED <<deposits, has_collateral, twice>> /\ Covered' = Covered
      /\ handler' = [handler EXCEPT ![h] = Idle]
  BY DEF CommitRecord, tables, histories, Covered
<1>3. CASE s.at = "tax"
  <2>1. TaxSession(s.row, credited, debited)
    BY <1>1, <1>3 DEF SessionOk
  <2> PICK up, down : up = Credit(s.row.paid) /\ down = Debit(s.row.paid)
    OBVIOUS
  <2>2. /\ tax' = [tax EXCEPT ![a] = Columns(@, s.row.seen, s.row.tax)]
        /\ credited' = [credited EXCEPT ![a] = @ + up]
        /\ debited' = [debited EXCEPT ![a] = @ + down]
        /\ misread' = IF s.row.seen # tax[a] THEN misread \cup {a} ELSE misread
    BY <1>3 DEF CommitRecord
  <2>3. /\ credited \in [Agents -> Nat] /\ debited \in [Agents -> Nat]
        /\ tax = [b \in Agents |-> tax[b]]
        /\ \A b \in Agents : Explained(tax[b], credited[b], debited[b], b \notin misread)
    BY DEF RecordsInv
  <2>4. /\ a \in Agents /\ s.row.paid \in Int
        /\ s.row.seen \in TaxRows /\ s.row.tax \in TaxRows
        /\ -debited[a] <= s.row.seen.cumulative /\ s.row.seen.cumulative <= credited[a]
        /\ s.row.tax.cumulative = s.row.seen.cumulative + s.row.paid
        /\ s.row.tax.rate = Withheld(s.row.tax)
    BY <2>1 DEF TaxSession
  <2>5. /\ credited[a] \in Nat /\ debited[a] \in Nat
        /\ Explained(tax[a], credited[a], debited[a], a \notin misread)
    BY <2>3, <2>4
  <2>6. up \in Nat /\ down \in Nat /\ s.row.paid = up - down
    BY <2>4, CreditLessDebit
  <2>7. Explained(Columns(tax[a], s.row.seen, s.row.tax), credited[a] + up,
                  debited[a] + down, a \notin misread /\ s.row.seen = tax[a])
    <3> PICK row, seen, new : row = tax[a] /\ seen = s.row.seen /\ new = s.row.tax
      OBVIOUS
    <3> PICK cr, db : cr = credited[a] /\ db = debited[a]
      OBVIOUS
    <3> PICK known : known = (a \notin misread)
      OBVIOUS
    <3>1. /\ seen \in TaxRows /\ new \in TaxRows
          /\ -db <= seen.cumulative /\ seen.cumulative <= cr
          /\ new.cumulative = seen.cumulative + (up - down)
          /\ new.rate = Withheld(new)
      BY <2>4, <2>6
    <3>2. cr \in Nat /\ db \in Nat /\ Explained(row, cr, db, known)
      BY <2>5
    <3>3. Explained(Columns(row, seen, new), cr + up, db + down, known /\ seen = row)
      BY <2>6, <3>1, <3>2, CommitExplained
    <3> QED BY <3>3
  <2>8. /\ credited' \in [Agents -> Nat] /\ credited'[a] = credited[a] + up
        /\ \A b \in Agents \ {a} : credited'[b] = credited[b]
    <3>1. credited[a] + up \in Nat
      BY <2>5, <2>6
    <3> QED BY <2>2, <2>3, <2>4, <3>1
  <2>9. /\ debited' \in [Agents -> Nat] /\ debited'[a] = debited[a] + down
        /\ \A b \in Agents \ {a} : debited'[b] = debited[b]
    <3>1. debited[a] + down \in Nat
      BY <2>5, <2>6
    <3> QED BY <2>2, <2>3, <2>4, <3>1
  <2>10. /\ tax' = [b \in Agents |-> tax'[b]]
         /\ tax'[a] = Columns(tax[a], s.row.seen, s.row.tax)
         /\ \A b \in Agents \ {a} : tax'[b] = tax[b]
    BY <2>2, <2>3, <2>4
  <2>11. /\ a \notin misread' <=> a \notin misread /\ s.row.seen = tax[a]
         /\ \A b \in Agents \ {a} : b \notin misread' <=> b \notin misread
    BY <2>2
  <2>12. ASSUME NEW b \in Agents
         PROVE  Explained(tax'[b], credited'[b], debited'[b], b \notin misread')
    <3>1. CASE b = a
      BY <2>7, <2>8, <2>9, <2>10, <2>11, <3>1 DEF Explained
    <3>2. CASE b # a
      BY <2>3, <2>8, <2>9, <2>10, <2>11, <3>2 DEF Explained
    <3> QED BY <3>1, <3>2
  <2>13. ASSUME NEW b \in Agents
         PROVE  credited[b] <= credited'[b] /\ debited[b] <= debited'[b]
    <3>1. credited[b] \in Nat /\ debited[b] \in Nat
      BY <2>3
    <3>2. CASE b = a
      BY <2>6, <2>8, <2>9, <3>1, <3>2
    <3>3. CASE b # a
      BY <2>8, <2>9, <3>1, <3>3
    <3> QED BY <3>2, <3>3
  <2>14. RecordsStay
    BY <1>2, <2>8, <2>9, <2>13 DEF RecordsStay
  <2>15. /\ handler' = [k \in Handlers |-> handler'[k]]
         /\ \A k \in Handlers :
              SessionOk(handler'[k], deposits', Covered', credited', debited')
    BY <1>2, <2>14, SessionsKept
  <2> QED BY <1>2, <2>8, <2>9, <2>10, <2>12, <2>15 DEF RecordsInv
<1>4. CASE s.at # "tax"
  <2>1. UNCHANGED watched
    BY <1>2, <1>4 DEF CommitRecord, watched
  <2> QED BY <1>2, <2>1, IdleIsOk, OneSession
<1> QED BY <1>3, <1>4

-----------------------------------------------------------------------------
(* The steps, component by component.                                      *)

\* The sessions that carry a flag.
LEMMA DepositDecides ==
  ASSUME RecordsInv, UNCHANGED <<credited, debited, tax, misread>>,
         NEW h \in Handlers, NEW row \in DepositRows, NEW changes,
         DecideFlag(h, "deposit", 0, row, changes, TRUE)
  PROVE  RecordsInv'
<1> PICK s : s = [at |-> "deposit", id |-> 0, row |-> row, changes |-> changes,
                  flag |-> TRUE, loaded |-> has_collateral[row.agent]]
  OBVIOUS
<1>1. UNCHANGED watched /\ handler' = [handler EXCEPT ![h] = s]
  BY DEF DecideFlag, watched, tables, histories
<1>2. row.agent \in Agents /\ has_collateral[row.agent] \in BOOLEAN
  BY DEF DepositRows, RecordsInv
<1>3. DepositSession(s, Covered)
  BY <1>2 DEF DepositSession, Covered
<1>4. SessionOk(s, deposits, Covered, credited, debited)
  BY <1>3 DEF SessionOk
<1> QED BY <1>1, <1>4, OneSession

LEMMA ReleaseDecides ==
  ASSUME RecordsInv, UNCHANGED <<credited, debited, tax, misread>>,
         NEW h \in Handlers, NEW at \in {"look", "release"},
         NEW i \in DOMAIN deposits, NEW row \in DepositRows, NEW changes,
         row.status # "locked", row.agent = deposits[i].agent,
         DecideFlag(h, at, i, row, changes, has_collateral[row.agent])
  PROVE  RecordsInv'
<1> PICK f : f = has_collateral[row.agent]
  OBVIOUS
<1> PICK s : s = [at |-> at, id |-> i, row |-> row, changes |-> changes,
                  flag |-> f, loaded |-> f]
  OBVIOUS
<1>1. UNCHANGED watched /\ handler' = [handler EXCEPT ![h] = s]
  BY DEF DecideFlag, watched, tables, histories
<1>2. f \in BOOLEAN
  BY DEF DepositRows, RecordsInv
<1>3. ReleaseSession(s, deposits) /\ s.flag = s.loaded
  BY <1>2 DEF ReleaseSession
<1>4. SessionOk(s, deposits, Covered, credited, debited)
  BY <1>3 DEF SessionOk
<1> QED BY <1>1, <1>4, OneSession

\* A query that finds nothing locked does not find the deposit of its session.
LEMMA LookOk ==
  ASSUME RecordsInv, UNCHANGED <<credited, debited, tax, misread>>,
         NEW h \in Handlers, LookForLocked(h)
  PROVE  RecordsInv'
<1> PICK q : q = handler[h]
  OBVIOUS
<1> PICK f : f = IF Locked(q.row.agent) = {} THEN FALSE ELSE q.flag
  OBVIOUS
<1> PICK s : s = [at |-> "release", id |-> q.id, row |-> q.row, changes |-> q.changes,
                  flag |-> f, loaded |-> q.loaded]
  OBVIOUS
<1>1. /\ UNCHANGED watched /\ handler' = [handler EXCEPT ![h] = s] /\ q.at = "look"
  BY DEF LookForLocked, Looked, watched, tables, histories
<1>2. ReleaseSession(q, deposits) /\ q.flag = q.loaded
  BY <1>1 DEF RecordsInv, SessionOk
<1>3. f # q.loaded => f = FALSE /\ q.id \in Ended(deposits)
  BY <1>2 DEF ReleaseSession, Locked, Ended
<1>4. f \in BOOLEAN
  BY <1>2 DEF ReleaseSession
<1>5. ReleaseSession(s, deposits)
  BY <1>2, <1>3, <1>4 DEF ReleaseSession
<1>6. SessionOk(s, deposits, Covered, credited, debited)
  BY <1>5 DEF SessionOk
<1> QED BY <1>1, <1>6, OneSession

LEMMA ColdStep ==
  ASSUME RecordsInv, ColdNext, UNCHANGED recordVars
  PROVE  RecordsInv'
<1>1. UNCHANGED <<credited, debited, tax, misread>>
  BY DEF recordVars
<1>2. ASSUME NEW h \in Handlers, NEW op, NEW id, NEW row, NEW changes,
             Decide(h, op, id, row, changes),
             op \notin {"deposit", "look", "release", "tax"}
      PROVE  RecordsInv'
  <2>1. SessionOk([at |-> op, id |-> id, row |-> row, changes |-> changes],
                  deposits, Covered, credited, debited)
    BY <1>2, OtherSession
  <2> QED BY <1>1, <1>2, <2>1, DecideOk
<1>3. ASSUME NEW h \in Handlers, NEW a \in Agents, Login(h, a) PROVE RecordsInv'
  BY <1>2, <1>3 DEF Login
<1>4. ASSUME NEW h \in Handlers, NEW a \in Agents, Penalize(h, a) PROVE RecordsInv'
  BY <1>2, <1>4 DEF Penalize
<1>5. ASSUME NEW h \in Handlers, NEW a \in Agents, NEW large \in BOOLEAN,
             DepositCollateral(h, a, large)
      PROVE  RecordsInv'
  <2> PICK row : row = [agent |-> a, large |-> large, status |-> "locked"]
    OBVIOUS
  <2>1. PICK changes : DecideFlag(h, "deposit", 0, row, changes, TRUE)
    BY <1>5 DEF DepositCollateral
  <2>2. row \in DepositRows /\ row.agent = a
    BY DEF DepositRows
  <2> QED BY <1>1, <2>1, <2>2, DepositDecides
<1>6. ASSUME NEW h \in Handlers, NEW a \in Agents, NEW b \in Agents,
             NEW bounty \in Bounties \cup {NoBounty}, CreateVouch(h, a, b, bounty)
      PROVE  RecordsInv'
  <2>1. PICK row, changes : Decide(h, "vouch", 0, row, changes)
    BY <1>6, Zenon DEF CreateVouch
  <2> QED BY <1>2, <2>1
<1>7. ASSUME NEW h \in Handlers, NEW i \in DOMAIN deposits,
             NEW outcome \in {"released", "slashed"}, ReleaseCollateral(h, i, outcome)
      PROVE  RecordsInv'
  <2> PICK d : d = deposits[i]
    OBVIOUS
  <2> PICK row : row = [d EXCEPT !.status = outcome]
    OBVIOUS
  <2>1. d \in DepositRows
    BY ElementOfSeq, LenProperties DEF RecordsInv
  <2>2. row \in DepositRows /\ row.status # "locked" /\ row.agent = d.agent
    BY <2>1 DEF DepositRows
  <2>3. PICK at, changes :
          /\ at \in {"look", "release"}
          /\ DecideFlag(h, at, i, row, changes, has_collateral[row.agent])
    BY <1>7, <2>2 DEF ReleaseCollateral
  <2> QED BY <1>1, <2>2, <2>3, ReleaseDecides
<1>8. ASSUME NEW h \in Handlers, NEW i \in DOMAIN vouches,
             NEW outcome \in {"resolved", "slashed", "expired"},
             ResolveVouch(h, i, outcome)
      PROVE  RecordsInv'
  <2>1. PICK row, changes : Decide(h, "resolve", i, row, changes)
    BY <1>8, Zenon DEF ResolveVouch
  <2> QED BY <1>2, <2>1
<1>9. ASSUME NEW h \in Handlers, Commit(h) \/ LookForLocked(h) PROVE RecordsInv'
  BY <1>1, <1>9, CommitOk, LookOk
<1>10. ASSUME NEW h \in Handlers, Abort(h) PROVE RecordsInv'
  <2>1. UNCHANGED watched /\ handler' = [handler EXCEPT ![h] = Idle]
    BY <1>1, <1>10 DEF Abort, watched, tables, histories
  <2> QED BY <2>1, IdleIsOk, OneSession
<1> QED BY <1>3, <1>4, <1>5, <1>6, <1>7, <1>8, <1>9, <1>10 DEF ColdNext

LEMMA PanelStep ==
  ASSUME RecordsInv, PanelNext, UNCHANGED recordVars
  PROVE  RecordsInv'
<1>1. UNCHANGED <<credited, debited, tax, misread>>
  BY DEF recordVars
<1>2. ASSUME UNCHANGED coldVars PROVE RecordsInv'
  <2>1. UNCHANGED watched /\ UNCHANGED handler
    BY <1>1, <1>2 DEF coldVars, tables, histories, watched
  <2> QED BY <2>1, NoSession
<1>3. CASE ColdNext
  BY <1>3, ColdStep
<1>4. CASE ContractLogs
  BY <1>2, <1>4 DEF ContractLogs, Logs
<1>5. ASSUME NEW s, RowMoves(s) PROVE RecordsInv'
  BY <1>2, <1>5 DEF RowMoves
<1>6. ASSUME NEW a \in Agents, RegisterEvaluator(a) \/ DeregisterEvaluator(a) \/ Age(a)
      PROVE  RecordsInv'
  BY <1>2, <1>6 DEF RegisterEvaluator, DeregisterEvaluator, Age, Enrol
<1>7. ASSUME NEW h \in Handlers, NEW a \in Agents, NEW v \in Votes, VoteDispute(h, a, v)
      PROVE  RecordsInv'
  <2>1. PICK i : Decide(h, "cast", i, [agent |-> a, vote |-> v], NoChange)
    BY <1>7 DEF VoteDispute
  <2>2. SessionOk([at |-> "cast", id |-> i, row |-> [agent |-> a, vote |-> v],
                   changes |-> NoChange], deposits, Covered, credited, debited)
    BY OtherSession
  <2> QED BY <1>1, <2>1, <2>2, DecideOk
<1>8. ASSUME NEW h \in Handlers, CommitVote(h) PROVE RecordsInv'
  <2>1. UNCHANGED watched /\ handler' = [handler EXCEPT ![h] = Idle]
    BY <1>1, <1>8 DEF CommitVote, watched, tables, histories
  <2> QED BY <2>1, IdleIsOk, OneSession
<1>9. ASSUME NEW p \in Pollers, CommitPoll(p) PROVE RecordsInv'
  <2>1. UNCHANGED watched /\ UNCHANGED handler
    BY <1>1, <1>9 DEF CommitPoll, watched
  <2> QED BY <2>1, NoSession
<1>10. ASSUME NEW p \in Pollers, CheckInactive(p) \/ PollFails(p) PROVE RecordsInv'
  BY <1>2, <1>10 DEF CheckInactive, PollFails
<1>11. ASSUME NEW p \in Pollers, NEW from, PollLogs(p, from) PROVE RecordsInv'
  BY <1>2, <1>11 DEF PollLogs
<1> QED BY <1>3, <1>4, <1>5, <1>6, <1>7, <1>8, <1>9, <1>10, <1>11 DEF PanelNext

LEMMA RecordsStep ==
  ASSUME RecordsInv, RecordsNext
  PROVE  RecordsInv'
<1>1. ASSUME NEW h \in Handlers, NEW op, NEW row,
             op \notin {"deposit", "look", "release", "tax"},
             Decide(h, op, 0, row, NoChange), UNCHANGED recordVars
      PROVE  RecordsInv'
  <2>1. SessionOk([at |-> op, id |-> 0, row |-> row, changes |-> NoChange],
                  deposits, Covered, credited, debited)
    BY <1>1, OtherSession
  <2> QED BY <1>1, <2>1, DecideOk DEF recordVars
<1>2. ASSUME NEW h \in Handlers, NEW a \in Agents, NEW login, UNCHANGED recordVars,
             LinkGithubUsername(h, a, login)
      PROVE  RecordsInv'
  BY <1>1, <1>2 DEF LinkGithubUsername
<1>3. ASSUME NEW h \in Handlers, NEW a \in Agents, AcceptTerms(h, a), UNCHANGED recordVars
      PROVE  RecordsInv'
  BY <1>1, <1>3 DEF AcceptTerms
<1>4. ASSUME NEW a \in Agents, AddToBlacklist(a) \/ ResolveBlacklist(a) PROVE RecordsInv'
  <2>1. UNCHANGED watched /\ UNCHANGED handler
    BY <1>4 DEF AddToBlacklist, ResolveBlacklist, Rewritten, coldVars, tables,
                histories, watched
  <2> QED BY <2>1, NoSession
<1> QED BY <1>2, <1>3, <1>4, UpdateTaxInfoOk, RecordPayoutOk, CommitRecordOk
        DEF RecordsNext

-----------------------------------------------------------------------------
(* The invariant and what it implies.                                      *)

LEMMA RecordsInitially == Init => RecordsInv
<1> SUFFICES ASSUME Init PROVE RecordsInv
  OBVIOUS
<1>1. /\ deposits = <<>> /\ has_collateral = [a \in Agents |-> FALSE]
      /\ handler = [h \in Handlers |-> Idle]
      /\ tax = [a \in Agents |-> [jurisdiction |-> "", cumulative |-> 0, rate |-> 0]]
      /\ credited = [a \in Agents |-> 0] /\ debited = [a \in Agents |-> 0]
  BY DEF Init, PanelInit, ColdInit
<1>2. deposits \in Seq(DepositRows) /\ DOMAIN deposits = {}
  <2>1. <<>> \in Seq(DepositRows) /\ DOMAIN <<>> = {}
    BY EmptySeq
  <2> QED BY <1>1, <2>1
<1>3. \A a \in Agents :
        Explained(tax[a], credited[a], debited[a], a \notin misread)
  <2> DEFINE row == [jurisdiction |-> "", cumulative |-> 0, rate |-> 0]
  <2>1. row \in TaxRows /\ Withheld(row) = 0
    BY DEF TaxRows, Withheld, Threshold
  <2>2. row.cumulative = 0 /\ row.rate = 0
    OBVIOUS
  <2> HIDE DEF row
  <2>3. \A known : Explained(row, 0, 0, known)
    BY <2>1, <2>2 DEF Explained
  <2>4. \A a \in Agents : tax[a] = row /\ credited[a] = 0 /\ debited[a] = 0
    BY <1>1 DEF row
  <2> QED BY <2>3, <2>4
<1>4. \A h \in Handlers :
        SessionOk(handler[h], deposits, Covered, credited, debited)
  BY <1>1, IdleIsOk
<1> QED BY <1>1, <1>2, <1>3, <1>4 DEF RecordsInv, Flagged

LEMMA RecordsStepwise == RecordsInv /\ [Next]_vars => RecordsInv'
<1> SUFFICES ASSUME RecordsInv, [Next]_vars PROVE RecordsInv'
  OBVIOUS
<1>1. CASE UNCHANGED vars
  <2>1. UNCHANGED watched /\ UNCHANGED handler
    BY <1>1 DEF vars, coldVars, tables, histories, recordVars, watched
  <2> QED BY <2>1, NoSession
<1>2. CASE Next
  BY <1>2, PanelStep, RecordsStep DEF Next
<1> QED BY <1>1, <1>2

\* An agent with a locked deposit is shown to have collateral, for any number
\* of sessions that deposit and release at once, unless two of them have ended
\* one deposit of that agent (deposit_collateral, release_collateral).
THEOREM LockedAlwaysFlagged == Spec => []LockedIsFlagged
<1>1. RecordsInv => LockedIsFlagged
  BY DEF RecordsInv, Flagged, Covered, LockedIsFlagged, Locked
<1> QED BY <1>1, RecordsInitially, RecordsStepwise, PTL DEF Spec

\* For any amounts, of any sign, and any number of sessions, no amount is
\* counted twice, tax is withheld only from an agent to which more than the
\* threshold was added, and the stored columns are the ones the agent is shown
\* unless a session committed what it had read too early (update_tax_info,
\* record_payout, _determine_withholding).
THEOREM WithholdingAlwaysExplained == Spec => []WithholdingExplained
<1>1. RecordsInv => WithholdingExplained
  <2> SUFFICES ASSUME RecordsInv, NEW a \in Agents
               PROVE  /\ tax[a].cumulative \in -debited[a] .. credited[a]
                      /\ tax[a].rate > 0 => credited[a] > Threshold
                      /\ a \notin misread =>
                           /\ tax[a].cumulative = credited[a] - debited[a]
                           /\ tax[a].rate = Determined(tax[a])
    BY DEF WithholdingExplained
  <2>1. Explained(tax[a], credited[a], debited[a], a \notin misread)
    BY DEF RecordsInv
  <2>2. /\ tax[a] \in TaxRows /\ tax[a].cumulative \in Int
        /\ credited[a] \in Nat /\ debited[a] \in Nat
    BY <2>1 DEF Explained, TaxRows, RecordsInv
  <2>3. Withheld(tax[a]) = Determined(tax[a])
    BY <2>2, WithheldIsDetermined
  <2> QED BY <2>1, <2>2, <2>3 DEF Explained
<1> QED BY <1>1, RecordsInitially, RecordsStepwise, PTL DEF Spec

-----------------------------------------------------------------------------
(* The rows of the panel.                                                  *)

LogLines ==
  [log : {"disputed", "settled"}] \cup [log : {"voted"}, by : Agents, vote : Votes]

EvaluatorRows == [status : {"active", "inactive"}, overdue : BOOLEAN]

SeatRows == [who : Agents, vote : Votes \cup {"none", "abstained"}]

\* A vote of who has its cause outside the database.
Caused(who, v) ==
  /\ v = "abstained" => who \in late
  /\ v \in Votes =>
       \/ [agent |-> who, vote |-> v] \in spoken
       \/ [log |-> "voted", by |-> who, vote |-> v] \in Range(chain)

\* What a vote through the API knows until it commits.
CastOk(s) ==
  s.at = "cast" => /\ s.id \in DOMAIN assignments /\ s.row.vote \in Votes
                   /\ s.row = [agent |-> assignments[s.id].who, vote |-> s.row.vote]

\* What a poll knows until it commits: whom it seats is selected and will be
\* listed, what it writes has its cause.
PollOk(s) ==
  s # Idle =>
    /\ s.seat \subseteq panel /\ s.seat \subseteq Listed \cup s.enrol
    /\ s.seat # {} => chain # <<>>
    /\ DOMAIN s.votes \subseteq DOMAIN assignments
    /\ \A i \in DOMAIN s.votes : /\ s.votes[i] \in Votes \cup {"abstained"}
                                 /\ Caused(assignments[i].who, s.votes[i])

RowOk(row) == row.who \in panel /\ row.who \in Listed /\ Caused(row.who, row.vote)

PanelInv ==
  /\ panel \subseteq Agents /\ chain \in Seq(LogLines)
  /\ evaluators \in [Listed -> EvaluatorRows]
  /\ \A a \in Listed : evaluators[a].overdue => a \in late
  /\ assignments \in Seq(SeatRows)
  /\ chain = <<>> => assignments = <<>>
  /\ \A i \in DOMAIN assignments : RowOk(assignments[i])
  /\ poll = [p \in Pollers |-> poll[p]] /\ \A p \in Pollers : PollOk(poll[p])
  /\ handler = [h \in Handlers |-> handler[h]]
  /\ \A h \in Handlers : CastOk(handler[h])

\* Nothing a session relies on is taken back: the panel is selected once.
Grows ==
  /\ panel' = panel \/ (chain = <<>> /\ assignments = <<>>)
  /\ chain # <<>> => chain' # <<>>
  /\ Range(chain) \subseteq Range(chain)'
  /\ Listed \subseteq Listed' /\ late \subseteq late' /\ spoken \subseteq spoken'
  /\ DOMAIN assignments \subseteq DOMAIN assignments'
  /\ \A i \in DOMAIN assignments : assignments'[i].who = assignments[i].who

LEMMA CausedGrows ==
  ASSUME Grows, NEW who, NEW v, Caused(who, v)
  PROVE  Caused(who, v)'
BY DEF Grows, Caused

LEMMA SessionsGrow ==
  ASSUME Grows, NEW s
  PROVE  /\ CastOk(s) => CastOk(s)'
         /\ PollOk(s) => PollOk(s)'
<1>1. CastOk(s) => CastOk(s)'
  BY DEF Grows, CastOk
<1>2. ASSUME PollOk(s), s # Idle PROVE PollOk(s)'
  <2>1. s.seat \subseteq panel'
    BY <1>2 DEF PollOk, Grows
  <2>2. s.seat \subseteq Listed' \cup s.enrol /\ (s.seat # {} => chain' # <<>>)
    BY <1>2 DEF PollOk, Grows
  <2>3. ASSUME NEW i \in DOMAIN s.votes
        PROVE  /\ i \in DOMAIN assignments' /\ s.votes[i] \in Votes \cup {"abstained"}
               /\ Caused(assignments[i].who, s.votes[i])'
    <3>1. /\ i \in DOMAIN assignments /\ s.votes[i] \in Votes \cup {"abstained"}
          /\ Caused(assignments[i].who, s.votes[i])
      BY <1>2 DEF PollOk
    <3>2. PICK who : who = assignments[i].who
      OBVIOUS
    <3>3. PICK v : v = s.votes[i]
      OBVIOUS
    <3>4. Caused(who, v)'
      BY <3>1, <3>2, <3>3, CausedGrows
    <3>5. i \in DOMAIN assignments' /\ assignments'[i].who = who
      BY <3>1, <3>2 DEF Grows
    <3> QED
      BY <3>1, <3>3, <3>4, <3>5 DEF Caused
  <2> QED
    BY <2>1, <2>2, <2>3 DEF PollOk
<1>3. s = Idle => PollOk(s)'
  BY DEF PollOk
<1> QED
  BY <1>1, <1>2, <1>3

\* A row that is not written stays right.
LEMMA RowGrows ==
  ASSUME PanelInv, Grows, NEW i \in DOMAIN assignments, assignments'[i] = assignments[i]
  PROVE  RowOk(assignments[i])'
<1>1. /\ assignments[i].who \in panel /\ assignments[i].who \in Listed
      /\ Caused(assignments[i].who, assignments[i].vote)
  BY DEF PanelInv, RowOk
<1> PICK who, v : who = assignments[i].who /\ v = assignments[i].vote
  OBVIOUS
<1>2. Caused(who, v)'
  BY <1>1, CausedGrows
<1>3. who \in panel' /\ who \in Listed'
  BY <1>1 DEF Grows
<1> QED
  BY <1>2, <1>3 DEF RowOk, Caused

\* Whatever a step writes, and whichever sessions it begins or ends.
LEMMA PanelFrame ==
  ASSUME PanelInv, Grows, panel' \subseteq Agents, chain' \in Seq(LogLines),
         evaluators' \in [Listed' -> EvaluatorRows],
         \A a \in Listed' : evaluators'[a].overdue => a \in late',
         assignments' \in Seq(SeatRows), chain' = <<>> => assignments' = <<>>,
         \A i \in DOMAIN assignments' :
           \/ i \in DOMAIN assignments /\ assignments'[i] = assignments[i]
           \/ RowOk(assignments[i])',
         poll' = [p \in Pollers |-> poll'[p]],
         \A p \in Pollers : poll'[p] = poll[p] \/ PollOk(poll'[p]),
         handler' = [h \in Handlers |-> handler'[h]],
         \A h \in Handlers : handler'[h] = handler[h] \/ CastOk(handler'[h])
  PROVE  PanelInv'
<1>1. ASSUME NEW p \in Pollers PROVE PollOk(poll[p])'
  <2> PICK s : s = poll'[p]
    OBVIOUS
  <2>1. PollOk(s)
    BY DEF PanelInv
  <2>2. PollOk(s)'
    BY <2>1, SessionsGrow
  <2> QED
    BY <2>2 DEF PollOk, Caused
<1>2. ASSUME NEW h \in Handlers PROVE CastOk(handler[h])'
  <2> PICK s : s = handler'[h]
    OBVIOUS
  <2>1. CastOk(s)
    BY DEF PanelInv
  <2>2. CastOk(s)'
    BY <2>1, SessionsGrow
  <2> QED
    BY <2>2 DEF CastOk
<1>3. ASSUME NEW i \in DOMAIN assignments' PROVE RowOk(assignments[i])'
  <2>1. CASE i \in DOMAIN assignments /\ assignments'[i] = assignments[i]
    BY <2>1, RowGrows
  <2>2. CASE RowOk(assignments[i])'
    BY <2>2
  <2> QED
    BY <2>1, <2>2
<1> QED
  BY <1>1, <1>2, <1>3 DEF PanelInv

-----------------------------------------------------------------------------
(* The contract and the registrations.                                     *)

LEMMA ContractLogsPanel ==
  ASSUME PanelInv, ContractLogs
  PROVE  PanelInv'
<1>1. PICK entry \in LogLines :
        /\ Logs(entry)
        /\ panel' = panel \/ (chain = <<>> /\ panel' \subseteq Agents)
  <2>1. CASE chain = <<>> /\ Logs([log |-> "disputed"]) /\ panel' \in SUBSET Agents \ {{}}
    BY <2>1 DEF LogLines
  <2>2. CASE Logs([log |-> "settled"]) /\ UNCHANGED panel
    BY <2>2 DEF LogLines
  <2>3. ASSUME NEW a \in panel, NEW v \in Votes, UNCHANGED panel,
               Logs([log |-> "voted", by |-> a, vote |-> v])
        PROVE  \E entry \in LogLines : Logs(entry) /\ panel' = panel
    <3>1. a \in Agents
      BY DEF PanelInv
    <3>2. [log |-> "voted", by |-> a, vote |-> v] \in LogLines
      BY <3>1 DEF LogLines
    <3> QED
      BY <2>3, <3>2
  <2> QED
    BY <2>1, <2>2, <2>3 DEF ContractLogs
<1>2. /\ chain' = Append(chain, entry) /\ chain \in Seq(LogLines)
      /\ UNCHANGED <<handler, evaluators, assignments, poll, spoken, late>>
  BY <1>1 DEF Logs, coldVars, PanelInv
<1>3. /\ chain' \in Seq(LogLines) /\ Len(chain') = Len(chain) + 1
      /\ \A i \in 1 .. Len(chain) : chain'[i] = chain[i]
  BY <1>2, AppendProperties
<1>4. chain' # <<>> /\ Range(chain) \subseteq Range(chain)'
  <2>1. Len(chain) \in Nat /\ DOMAIN chain = 1 .. Len(chain)
    BY <1>2, LenProperties
  <2>2. DOMAIN chain' = 1 .. Len(chain) + 1
    BY <1>3, LenProperties
  <2>3. Len(chain') # 0
    BY <1>3, <2>1
  <2>4. 1 .. Len(chain) \subseteq 1 .. Len(chain) + 1
    BY <2>1
  <2> QED
    BY <1>3, <2>1, <2>2, <2>3, <2>4, EmptySeq DEF Range
<1>5. Grows
  BY <1>1, <1>2, <1>4 DEF Grows, PanelInv, Listed
<1>6. /\ evaluators' \in [Listed' -> EvaluatorRows] /\ panel' \subseteq Agents
      /\ assignments' \in Seq(SeatRows)
      /\ \A a \in Listed' : evaluators'[a].overdue => a \in late'
      /\ poll' = [p \in Pollers |-> poll'[p]] /\ handler' = [h \in Handlers |-> handler'[h]]
  BY <1>1, <1>2 DEF PanelInv, Listed
<1> QED
  BY <1>2, <1>3, <1>4, <1>5, <1>6, PanelFrame

LEMMA EnrolPanel ==
  ASSUME PanelInv, NEW a \in Agents,
         RegisterEvaluator(a) \/ DeregisterEvaluator(a) \/ Age(a)
  PROVE  PanelInv'
<1>1. /\ UNCHANGED <<panel, chain, assignments, poll, spoken, handler>>
      /\ evaluators \in [Listed -> EvaluatorRows]
      /\ \A b \in Listed : evaluators[b].overdue => b \in late
  BY DEF RegisterEvaluator, DeregisterEvaluator, Age, Enrol, coldVars, PanelInv
<1>2. /\ Listed \subseteq Listed' /\ evaluators' \in [Listed' -> EvaluatorRows]
      /\ \A b \in Listed' : evaluators'[b].overdue => b \in late'
      /\ late \subseteq late'
  <2>1. CASE RegisterEvaluator(a)
    <3>1. /\ late' = late
          /\ evaluators' = [b \in Listed \cup {a} |-> IF b = a THEN Active
                                                      ELSE evaluators[b]]
      BY <2>1 DEF RegisterEvaluator, Enrol, Over, Only, Listed
    <3>2. Active \in EvaluatorRows /\ Active.overdue = FALSE
      BY DEF Active, EvaluatorRows
    <3> QED
      BY <1>1, <3>1, <3>2 DEF Listed
  <2>2. CASE DeregisterEvaluator(a)
    <3>1. /\ late' = late /\ a \in Listed
          /\ evaluators' = [evaluators EXCEPT ![a].status = "inactive"]
      BY <2>2 DEF DeregisterEvaluator, Enrol
    <3>2. PICK row : row = [evaluators[a] EXCEPT !.status = "inactive"]
      OBVIOUS
    <3>3. evaluators[a] \in EvaluatorRows
      BY <1>1, <3>1
    <3>4. row \in EvaluatorRows /\ row.overdue = evaluators[a].overdue
      BY <3>2, <3>3 DEF EvaluatorRows
    <3>5. evaluators' = [evaluators EXCEPT ![a] = row]
      BY <3>1, <3>2
    <3> QED
      BY <1>1, <3>1, <3>4, <3>5 DEF Listed
  <2>3. CASE Age(a)
    <3>1. /\ late' = late \cup {a} /\ a \in Listed
          /\ evaluators' = [evaluators EXCEPT ![a].overdue = TRUE]
      BY <2>3 DEF Age, Enrol
    <3>2. PICK row : row = [evaluators[a] EXCEPT !.overdue = TRUE]
      OBVIOUS
    <3>3. evaluators[a] \in EvaluatorRows
      BY <1>1, <3>1
    <3>4. row \in EvaluatorRows
      BY <3>2, <3>3 DEF EvaluatorRows
    <3>5. evaluators' = [evaluators EXCEPT ![a] = row]
      BY <3>1, <3>2
    <3> QED
      BY <1>1, <3>1, <3>4, <3>5 DEF Listed
  <2> QED
    BY <2>1, <2>2, <2>3
<1>3. Grows
  BY <1>1, <1>2 DEF Grows
<1>4. /\ panel' \subseteq Agents /\ chain' \in Seq(LogLines)
      /\ assignments' \in Seq(SeatRows) /\ (chain' = <<>> => assignments' = <<>>)
      /\ poll' = [p \in Pollers |-> poll'[p]] /\ handler' = [h \in Handlers |-> handler'[h]]
  BY <1>1 DEF PanelInv
<1> QED
  BY <1>1, <1>2, <1>3, <1>4, PanelFrame

-----------------------------------------------------------------------------
(* The votes through the API.                                              *)

LEMMA SessionPanel ==
  ASSUME PanelInv, UNCHANGED panelVars, NEW h \in Handlers, NEW s, CastOk(s),
         handler' = [handler EXCEPT ![h] = s]
  PROVE  PanelInv'
<1>1. UNCHANGED <<panel, chain, evaluators, assignments, poll, spoken, late>>
  BY DEF panelVars
<1>2. Grows
  BY <1>1 DEF Grows, Listed
<1>3. handler' = [k \in Handlers |-> IF k = h THEN s ELSE handler[k]]
  BY DEF PanelInv
<1>4. \A k \in Handlers : handler'[k] = handler[k] \/ CastOk(handler'[k])
  BY <1>3 DEF CastOk
<1>5. /\ panel' \subseteq Agents /\ chain' \in Seq(LogLines)
      /\ evaluators' \in [Listed' -> EvaluatorRows]
      /\ \A a \in Listed' : evaluators'[a].overdue => a \in late'
      /\ assignments' \in Seq(SeatRows) /\ (chain' = <<>> => assignments' = <<>>)
      /\ poll' = [p \in Pollers |-> poll'[p]] /\ handler' = [k \in Handlers |-> handler'[k]]
  BY <1>1, <1>3 DEF PanelInv, Listed
<1> QED
  BY <1>1, <1>2, <1>4, <1>5, PanelFrame

LEMMA OtherCast ==
  ASSUME NEW s, s.at # "cast"
  PROVE  CastOk(s)
BY DEF CastOk

LEMMA DecidePanel ==
  ASSUME PanelInv, UNCHANGED panelVars, NEW h \in Handlers, NEW op, NEW id, NEW row,
         NEW changes, Decide(h, op, id, row, changes), op # "cast"
  PROVE  PanelInv'
<1> PICK s : s = [at |-> op, id |-> id, row |-> row, changes |-> changes]
  OBVIOUS
<1>1. s.at # "cast"
  OBVIOUS
<1>2. handler' = [handler EXCEPT ![h] = s]
  BY DEF Decide
<1> QED
  BY <1>1, <1>2, OtherCast, SessionPanel

LEMMA FlagPanel ==
  ASSUME PanelInv, UNCHANGED panelVars, NEW h \in Handlers, NEW s, s.at # "cast",
         handler' = [handler EXCEPT ![h] = s]
  PROVE  PanelInv'
BY OtherCast, SessionPanel

LEMMA VoteDisputePanel ==
  ASSUME PanelInv, NEW h \in Handlers, NEW a \in Agents, NEW v \in Votes,
         VoteDispute(h, a, v)
  PROVE  PanelInv'
<1>1. PICK i \in RowsOf(a) :
        Decide(h, "cast", i, [agent |-> a, vote |-> v], NoChange)
  BY DEF VoteDispute
<1> PICK s : s = [at |-> "cast", id |-> i, row |-> [agent |-> a, vote |-> v],
                  changes |-> NoChange]
  OBVIOUS
<1>2. i \in DOMAIN assignments /\ assignments[i].who = a
  BY DEF RowsOf
<1>3. s.id = i /\ s.row = [agent |-> a, vote |-> v] /\ s.row.vote = v
  OBVIOUS
<1>4. CastOk(s)
  BY <1>2, <1>3 DEF CastOk
<1>5. handler' = [handler EXCEPT ![h] = s] /\ UNCHANGED panelVars
  BY <1>1 DEF Decide, VoteDispute
<1> QED
  BY <1>4, <1>5, SessionPanel

LEMMA CommitVotePanel ==
  ASSUME PanelInv, NEW h \in Handlers, CommitVote(h)
  PROVE  PanelInv'
<1> PICK s : s = handler[h]
  OBVIOUS
<1> PICK who, v : who = assignments[s.id].who /\ v = s.row.vote
  OBVIOUS
<1>1. /\ s.at = "cast" /\ UNCHANGED <<panel, chain, evaluators, poll, late>>
      /\ assignments' = [assignments EXCEPT ![s.id].vote = v]
      /\ spoken' = spoken \cup {s.row}
      /\ handler' = [handler EXCEPT ![h] = Idle]
  BY DEF CommitVote
<1>2. /\ s.id \in DOMAIN assignments /\ v \in Votes
      /\ s.row = [agent |-> who, vote |-> v]
  BY <1>1 DEF PanelInv, CastOk
<1> PICK row : row = [assignments[s.id] EXCEPT !.vote = v]
  OBVIOUS
<1>3. /\ assignments \in Seq(SeatRows) /\ DOMAIN assignments = 1 .. Len(assignments)
      /\ assignments[s.id] \in SeatRows
  BY <1>2, LenProperties, ElementOfSeq DEF PanelInv
<1>4. row \in SeatRows /\ row.who = who /\ row.vote = v
  BY <1>2, <1>3 DEF SeatRows
<1>5. assignments' = [assignments EXCEPT ![s.id] = row]
  BY <1>1
<1>6. /\ assignments' \in Seq(SeatRows) /\ DOMAIN assignments' = DOMAIN assignments
      /\ assignments'[s.id] = row
      /\ \A i \in DOMAIN assignments : i # s.id => assignments'[i] = assignments[i]
  BY <1>2, <1>3, <1>4, <1>5, ExceptSeq
<1>7. Grows
  BY <1>1, <1>4, <1>6 DEF Grows, Listed
<1>8. RowOk(assignments[s.id])'
  <2>1. who \in panel /\ who \in Listed
    BY <1>2 DEF PanelInv, RowOk
  <2>2. v # "abstained"
    BY <1>2, PanelAssumption
  <2>3. Caused(who, v)'
    BY <1>1, <1>2, <2>2 DEF Caused
  <2> QED
    BY <1>1, <1>4, <1>6, <2>1, <2>3 DEF RowOk, Caused, Listed
<1>9. /\ panel' \subseteq Agents /\ chain' \in Seq(LogLines)
      /\ evaluators' \in [Listed' -> EvaluatorRows]
      /\ \A a \in Listed' : evaluators'[a].overdue => a \in late'
      /\ chain' # <<>>
      /\ poll' = [p \in Pollers |-> poll'[p]]
  <2>1. assignments # <<>>
    BY <1>2
  <2> QED
    BY <1>1, <2>1 DEF PanelInv, Listed
<1>10. /\ handler' = [k \in Handlers |-> handler'[k]]
       /\ \A k \in Handlers : handler'[k] = handler[k] \/ CastOk(handler'[k])
  BY <1>1 DEF PanelInv, CastOk, Idle
<1> QED
  BY <1>1, <1>6, <1>7, <1>8, <1>9, <1>10, PanelFrame

-----------------------------------------------------------------------------
(* The polls.                                                              *)

LEMMA UnchangedPanel ==
  ASSUME PanelInv,
         UNCHANGED <<handler, panel, chain, evaluators, assignments, poll, spoken, late>>
  PROVE  PanelInv'
<1>1. \A h \in Handlers : CastOk(handler[h])'
  BY DEF PanelInv, CastOk
<1>2. \A p \in Pollers : PollOk(poll[p])'
  BY DEF PanelInv, PollOk, Caused, Listed
<1>3. \A i \in DOMAIN assignments : RowOk(assignments[i])'
  BY DEF PanelInv, RowOk, Caused, Listed
<1> QED
  BY <1>1, <1>2, <1>3 DEF PanelInv, Listed

\* Steps of one poller before its commit.
LEMMA PollerPanel ==
  ASSUME PanelInv, NEW p \in Pollers, NEW s, PollOk(s), poll' = [poll EXCEPT ![p] = s],
         UNCHANGED <<handler, panel, chain, evaluators, assignments, spoken, late>>
  PROVE  PanelInv'
<1>1. Grows
  BY DEF Grows, Listed
<1>2. /\ panel' \subseteq Agents /\ chain' \in Seq(LogLines)
      /\ evaluators' \in [Listed' -> EvaluatorRows]
      /\ \A a \in Listed' : evaluators'[a].overdue => a \in late'
      /\ assignments' \in Seq(SeatRows) /\ (chain' = <<>> => assignments' = <<>>)
      /\ handler' = [k \in Handlers |-> handler'[k]]
  BY DEF PanelInv, Listed
<1>3. poll' = [q \in Pollers |-> IF q = p THEN s ELSE poll[q]]
  BY DEF PanelInv
<1>4. /\ poll' = [q \in Pollers |-> poll'[q]]
      /\ \A q \in Pollers : poll'[q] = poll[q] \/ PollOk(poll'[q])
  BY <1>3
<1> QED
  BY <1>1, <1>2, <1>4, PanelFrame

\* What is read from some lines of the log has its cause in the log.
LEMMA VotesReadCaused ==
  ASSUME PanelInv, NEW from \in 1 .. Len(chain) + 1,
         NEW logs, logs = <<>> \/ logs = SubSeq(chain, from, Len(chain)),
         NEW first \in FirstRows, NEW i \in DOMAIN VotesRead(logs, first)
  PROVE  /\ i \in DOMAIN assignments
         /\ VotesRead(logs, first)[i] \in Votes
         /\ Caused(assignments[i].who, VotesRead(logs, first)[i])
<1>1. /\ logs \in Seq(LogLines) /\ Range(logs) \subseteq Range(chain)
  <2>1. CASE logs = <<>>
    BY <2>1, EmptySeq DEF Range
  <2>2. CASE logs = SubSeq(chain, from, Len(chain))
    <3>1. chain \in Seq(LogLines) /\ Len(chain) \in Nat /\ DOMAIN chain = 1 .. Len(chain)
      BY LenProperties DEF PanelInv
    <3> PICK n : n = Len(chain)
      OBVIOUS
    <3>2. from \in 1 .. n + 1 /\ n \in Nat
      BY <3>1
    <3>3. logs = [j \in 1 .. n - from + 1 |-> chain[from + j - 1]]
      BY <2>2, <3>1, <3>2
    <3>4. \A j \in 1 .. n - from + 1 : from + j - 1 \in 1 .. n
      BY <3>2
    <3>5. \A j \in 1 .. n - from + 1 : chain[from + j - 1] \in LogLines
      BY <3>1, <3>4, ElementOfSeq
    <3>6. n - from + 1 \in Nat
      BY <3>2
    <3>7. logs \in [1 .. n - from + 1 -> LogLines]
      BY <3>3, <3>5
    <3>8. logs \in Seq(LogLines)
      BY <3>6, <3>7, SeqDef
    <3> QED
      BY <3>1, <3>3, <3>4, <3>8 DEF Range
  <2> QED
    BY <2>1, <2>2
<1> PICK a : a = CHOOSE b \in Voters(logs) : first[b] = i
  OBVIOUS
<1>2. /\ i \in DOMAIN assignments /\ a \in Voters(logs) /\ first[a] = i
      /\ VotesRead(logs, first)[i] = VoteOf(logs, a)
  BY DEF VotesRead
<1> PICK k : k = CHOOSE j \in DOMAIN logs : logs[j].log = "voted" /\ logs[j].by = a
  OBVIOUS
<1>3. k \in DOMAIN logs /\ logs[k].log = "voted" /\ logs[k].by = a
  BY <1>2 DEF Voters
<1> PICK line : line = logs[k]
  OBVIOUS
<1>4. line \in LogLines /\ line \in Range(chain)
  BY <1>1, <1>3, LenProperties, ElementOfSeq DEF Range
<1>5. /\ line = [log |-> "voted", by |-> a, vote |-> line.vote]
      /\ a \in Agents /\ line.vote \in Votes
  BY <1>3, <1>4 DEF LogLines
<1>6. assignments[i].who = a
  <2>1. i # 0
    <3>1. DOMAIN assignments = 1 .. Len(assignments)
      BY LenProperties DEF PanelInv
    <3> QED
      BY <1>2, <3>1
  <2> QED
    BY <1>2, <1>5, <2>1 DEF FirstRows, RowsOf
<1>7. VoteOf(logs, a) = line.vote
  BY DEF VoteOf
<1>8. line.vote # "abstained"
  BY <1>5, PanelAssumption
<1> QED
  BY <1>2, <1>4, <1>5, <1>6, <1>7, <1>8 DEF Caused

LEMMA PollLogsPanel ==
  ASSUME PanelInv, NEW p \in Pollers, NEW from \in 1 .. Len(chain) + 1,
         PollLogs(p, from)
  PROVE  PanelInv'
<1> PICK logs : logs = IF status = "closed" THEN <<>>
                       ELSE SubSeq(chain, from, Len(chain))
  OBVIOUS
<1>1. PICK first, to :
        /\ first \in FirstRows
        /\ poll' = [poll EXCEPT ![p] =
                      [at |-> "check", enrol |-> NewEvaluators(logs),
                       seat |-> NewRows(logs), votes |-> VotesRead(logs, first),
                       status |-> to]]
  BY Zenon DEF PollLogs
<1> PICK s : s = [at |-> "check", enrol |-> NewEvaluators(logs),
                  seat |-> NewRows(logs), votes |-> VotesRead(logs, first),
                  status |-> to]
  OBVIOUS
<1>2. /\ poll' = [poll EXCEPT ![p] = s]
      /\ s.enrol = NewEvaluators(logs) /\ s.seat = NewRows(logs)
      /\ s.votes = VotesRead(logs, first)
  BY <1>1
<1>3. s.seat # {} => Has(logs, "disputed")
  BY <1>2 DEF NewRows
<1>4. Has(logs, "disputed") => chain # <<>>
  <2>1. SUFFICES ASSUME chain = <<>> PROVE DOMAIN logs = {}
    BY DEF Has
  <2>2. from \in 1 .. 1 /\ Len(chain) = 0
    BY <2>1
  <2>3. logs = <<>>
    BY <2>1, <2>2
  <2> QED
    BY <2>3
<1>5. s.seat \subseteq panel /\ s.seat \subseteq Listed \cup s.enrol
  BY <1>2 DEF NewRows, NewEvaluators
<1>6. ASSUME NEW i \in DOMAIN s.votes
      PROVE  /\ i \in DOMAIN assignments /\ s.votes[i] \in Votes \cup {"abstained"}
             /\ Caused(assignments[i].who, s.votes[i])
  BY <1>1, <1>2, <1>6, VotesReadCaused
<1>7. PollOk(s)
  BY <1>3, <1>4, <1>5, <1>6 DEF PollOk
<1> QED
  BY <1>2, <1>7, PollerPanel DEF PollLogs, coldVars

LEMMA CheckInactivePanel ==
  ASSUME PanelInv, NEW p \in Pollers, CheckInactive(p)
  PROVE  PanelInv'
<1> PICK w : w = poll[p]
  OBVIOUS
<1>1. PICK changes :
        poll' = [poll EXCEPT ![p] =
                   [at |-> "commit", enrol |-> w.enrol, seat |-> w.seat,
                    status |-> w.status,
                    votes |-> Over([i \in Missed |-> "abstained"], w.votes),
                    changes |-> changes]]
  BY Zenon DEF CheckInactive
<1> PICK s : s = [at |-> "commit", enrol |-> w.enrol, seat |-> w.seat,
                  status |-> w.status,
                  votes |-> Over([i \in Missed |-> "abstained"], w.votes),
                  changes |-> changes]
  OBVIOUS
<1>2. /\ poll' = [poll EXCEPT ![p] = s] /\ s.enrol = w.enrol /\ s.seat = w.seat
      /\ s.votes = Over([i \in Missed |-> "abstained"], w.votes)
  BY <1>1
<1>3. w.at = "check" /\ w # Idle
  BY DEF CheckInactive, Idle
<1>4. PollOk(w)
  BY DEF PanelInv
<1>5. ASSUME NEW i \in DOMAIN s.votes
      PROVE  /\ i \in DOMAIN assignments /\ s.votes[i] \in Votes \cup {"abstained"}
             /\ Caused(assignments[i].who, s.votes[i])
  <2>1. /\ i \in Missed \cup DOMAIN w.votes
        /\ s.votes[i] = IF i \in Missed THEN "abstained" ELSE w.votes[i]
    BY <1>2, <1>5 DEF Over
  <2>2. CASE i \in Missed
    <3>1. i \in DOMAIN assignments /\ assignments[i].who \in late
      BY <2>2 DEF Missed, PanelInv
    <3> QED
      BY <2>1, <2>2, <3>1, PanelAssumption DEF Caused
  <2>3. CASE i \notin Missed
    BY <1>3, <1>4, <2>1, <2>3 DEF PollOk
  <2> QED
    BY <2>2, <2>3
<1>6. PollOk(s)
  BY <1>2, <1>3, <1>4, <1>5 DEF PollOk
<1> QED
  BY <1>2, <1>6, PollerPanel DEF CheckInactive, coldVars

\* The rows a poll adds.
LEMMA NewSeats ==
  ASSUME NEW S \in SUBSET Agents
  PROVE  LET q == SetToSeq({[who |-> a, vote |-> "none"] : a \in S})
         IN  /\ q \in Seq([who : S, vote : {"none"}])
             /\ S = {} => q = <<>>
<1> DEFINE T == {[who |-> a, vote |-> "none"] : a \in S}
           q == SetToSeq(T)
<1>1. IsFiniteSet(S)
  BY ColdStartAssumption, FS_Subset
<1>2. IsFiniteSet(T)
  <2> DEFINE f == [a \in S |-> [who |-> a, vote |-> "none"]]
  <2>1. f \in Surjection(S, T)
    BY DEF Surjection
  <2> QED
    BY <1>1, <2>1, FS_Surjection DEF ExistsSurjection
<1>3. T \subseteq [who : S, vote : {"none"}]
  OBVIOUS
<1>4. S = {} => T = {}
  OBVIOUS
<1> HIDE DEF T
<1>5. Cardinality(T) \in Nat /\ ExistsBijection(1 .. Cardinality(T), T)
  BY <1>2, FS_CardinalityType
<1>6. \E f \in [1 .. Cardinality(T) -> T] : IsInjective(f)
  BY <1>5 DEF ExistsBijection, Bijection, Injection, IsInjective
<1>7. q \in [1 .. Cardinality(T) -> T]
  BY <1>6 DEF SetToSeq
<1>8. q \in Seq(T)
  BY <1>5, <1>7, SeqDef
<1>9. q \in Seq([who : S, vote : {"none"}])
  <2> HIDE DEF q
  <2> QED
    BY <1>3, <1>8, SeqMonotonic
<1>10. S = {} => q = <<>>
  <2>1. Cardinality({}) = 0
    BY FS_EmptySet
  <2>2. ASSUME S = {} PROVE q \in [1 .. 0 -> {}]
    BY <1>4, <1>7, <2>1, <2>2
  <2> HIDE DEF q
  <2> QED
    BY <2>2
<1> QED
  BY <1>9, <1>10 DEF q, T

LEMMA CommitPollPanel ==
  ASSUME PanelInv, NEW p \in Pollers, CommitPoll(p)
  PROVE  PanelInv'
<1> PICK s : s = poll[p]
  OBVIOUS
<1> PICK rows : rows = [i \in DOMAIN assignments |->
                          IF i \in DOMAIN s.votes
                            THEN [assignments[i] EXCEPT !.vote = s.votes[i]]
                            ELSE assignments[i]]
  OBVIOUS
<1> PICK seats : seats = SetToSeq({[who |-> a, vote |-> "none"] : a \in s.seat})
  OBVIOUS
<1>1. /\ s.at = "commit" /\ UNCHANGED <<panel, chain, handler, spoken, late>>
      /\ evaluators' = Over([a \in s.enrol |-> Active], evaluators)
      /\ assignments' = rows \o seats
      /\ poll' = [poll EXCEPT ![p] = Idle]
  BY DEF CommitPoll
<1>2. /\ s.seat \subseteq panel /\ s.seat \subseteq Listed \cup s.enrol
      /\ s.seat # {} => chain # <<>>
      /\ DOMAIN s.votes \subseteq DOMAIN assignments
      /\ \A i \in DOMAIN s.votes : /\ s.votes[i] \in Votes \cup {"abstained"}
                                   /\ Caused(assignments[i].who, s.votes[i])
  <2>1. s # Idle
    BY <1>1 DEF Idle
  <2>2. PollOk(s)
    BY DEF PanelInv
  <2> QED
    BY <2>1, <2>2 DEF PollOk
<1>3. /\ assignments \in Seq(SeatRows) /\ Len(assignments) \in Nat
      /\ DOMAIN assignments = 1 .. Len(assignments)
      /\ panel \subseteq Agents
  BY LenProperties DEF PanelInv
<1> PICK n : n = Len(assignments)
  OBVIOUS
<1>4. ASSUME NEW i \in 1 .. n
      PROVE  /\ rows[i] \in SeatRows /\ rows[i].who = assignments[i].who
             /\ rows[i] = assignments[i] \/ Caused(rows[i].who, rows[i].vote)
  <2>1. assignments[i] \in SeatRows
    BY <1>3, ElementOfSeq
  <2>2. CASE i \in DOMAIN s.votes
    <3> PICK v : v = s.votes[i]
      OBVIOUS
    <3>1. rows[i] = [assignments[i] EXCEPT !.vote = v]
      BY <1>3, <2>2
    <3>2. rows[i] \in SeatRows /\ rows[i].who = assignments[i].who /\ rows[i].vote = v
      BY <1>2, <2>1, <2>2, <3>1 DEF SeatRows
    <3> QED
      BY <1>2, <2>2, <3>2
  <2>3. CASE i \notin DOMAIN s.votes
    BY <1>3, <2>1, <2>3
  <2> QED
    BY <2>2, <2>3
<1>5. rows \in Seq(SeatRows) /\ Len(rows) = n
  <2>1. rows \in [1 .. n -> SeatRows]
    BY <1>3, <1>4
  <2> QED
    BY <1>3, <2>1, SeqDef, LenProperties
<1>6. /\ seats \in Seq([who : s.seat, vote : {"none"}]) /\ seats \in Seq(SeatRows)
      /\ s.seat = {} => seats = <<>>
  <2>1. s.seat \in SUBSET Agents
    BY <1>2, <1>3
  <2>2. /\ seats \in Seq([who : s.seat, vote : {"none"}])
        /\ s.seat = {} => seats = <<>>
    BY <2>1, NewSeats
  <2>3. [who : s.seat, vote : {"none"}] \subseteq SeatRows
    BY <2>1 DEF SeatRows
  <2> QED
    BY <2>2, <2>3, SeqMonotonic
<1>7. /\ assignments' \in Seq(SeatRows) /\ Len(assignments') = n + Len(seats)
      /\ \A i \in 1 .. n + Len(seats) :
           assignments'[i] = IF i <= n THEN rows[i] ELSE seats[i - n]
      /\ Len(seats) \in Nat
  <2>1. Len(seats) \in Nat
    BY <1>6, LenProperties
  <2>2. /\ rows \o seats \in Seq(SeatRows)
        /\ Len(rows \o seats) = Len(rows) + Len(seats)
        /\ \A i \in 1 .. Len(rows) + Len(seats) :
             (rows \o seats)[i] = IF i <= Len(rows) THEN rows[i] ELSE seats[i - Len(rows)]
    BY <1>5, <1>6, ConcatProperties
  <2> PICK q : q = rows \o seats
    OBVIOUS
  <2>3. /\ q \in Seq(SeatRows) /\ Len(q) = n + Len(seats)
        /\ \A i \in 1 .. n + Len(seats) :
             q[i] = IF i <= n THEN rows[i] ELSE seats[i - n]
    BY <1>5, <2>2
  <2>4. assignments' = q
    BY <1>1
  <2> QED
    BY <2>1, <2>3, <2>4
<1>8. /\ DOMAIN assignments' = 1 .. n + Len(seats)
      /\ \A i \in 1 .. n : i \in 1 .. n + Len(seats) /\ assignments'[i] = rows[i]
  <2>1. DOMAIN assignments' = 1 .. n + Len(seats)
    BY <1>7, LenProperties
  <2>2. \A m \in Nat : \A i \in 1 .. n : i \in 1 .. n + m /\ i <= n
    BY <1>3
  <2> QED
    BY <1>7, <2>1, <2>2
<1>9. /\ Listed' = Listed \cup s.enrol /\ evaluators' \in [Listed' -> EvaluatorRows]
      /\ \A a \in Listed' : evaluators'[a].overdue => a \in late'
  <2>1. evaluators' = [a \in s.enrol \cup Listed |->
                         IF a \in s.enrol THEN Active ELSE evaluators[a]]
    BY <1>1 DEF Over, Listed
  <2>2. Active \in EvaluatorRows /\ Active.overdue = FALSE
    BY DEF Active, EvaluatorRows
  <2> QED
    BY <1>1, <2>1, <2>2 DEF PanelInv, Listed
<1>10. Grows
  BY <1>1, <1>3, <1>4, <1>8, <1>9 DEF Grows
<1>11. ASSUME NEW i \in DOMAIN assignments'
       PROVE  \/ i \in DOMAIN assignments /\ assignments'[i] = assignments[i]
              \/ RowOk(assignments[i])'
  <2>1. CASE i \in 1 .. n
    <3>1. CASE Caused(rows[i].who, rows[i].vote)
      <4>1. assignments[i].who \in panel /\ assignments[i].who \in Listed
        BY <1>3, <2>1 DEF PanelInv, RowOk
      <4> PICK who, v : who = rows[i].who /\ v = rows[i].vote
        OBVIOUS
      <4>2. Caused(who, v)'
        BY <1>10, <3>1, CausedGrows
      <4>3. who \in panel' /\ who \in Listed'
        BY <1>1, <1>4, <1>9, <2>1, <4>1
      <4> QED
        BY <1>8, <2>1, <4>2, <4>3 DEF RowOk, Caused
    <3>2. CASE rows[i] = assignments[i]
      BY <1>3, <1>8, <2>1, <3>2
    <3> QED
      BY <1>4, <2>1, <3>1, <3>2
  <2>2. CASE i \notin 1 .. n
    <3> PICK j : j = i - n
      OBVIOUS
    <3>1. j \in 1 .. Len(seats) /\ assignments'[i] = seats[j]
      BY <1>3, <1>7, <1>8, <2>2
    <3>2. seats[j] \in [who : s.seat, vote : {"none"}]
      BY <1>6, <3>1, ElementOfSeq
    <3>3. assignments'[i].who \in s.seat /\ assignments'[i].vote = "none"
      BY <3>1, <3>2
    <3>4. \A who : Caused(who, "none")'
      BY PanelAssumption DEF Caused
    <3>5. assignments'[i].who \in panel' /\ assignments'[i].who \in Listed'
      BY <1>1, <1>2, <1>9, <3>3
    <3> QED
      BY <3>3, <3>4, <3>5 DEF RowOk, Caused
  <2> QED
    BY <2>1, <2>2
<1>12. chain' = <<>> => assignments' = <<>>
  <2> SUFFICES ASSUME chain = <<>> PROVE assignments' = <<>>
    BY <1>1
  <2>1. n = 0 /\ Len(seats) = 0
    BY <1>2, <1>6 DEF PanelInv
  <2> QED
    BY <1>7, <2>1, EmptySeq
<1>13. /\ panel' \subseteq Agents /\ chain' \in Seq(LogLines)
       /\ handler' = [k \in Handlers |-> handler'[k]] /\ handler' = handler
  BY <1>1 DEF PanelInv
<1>14. /\ poll' = [q \in Pollers |-> poll'[q]]
       /\ \A q \in Pollers : poll'[q] = poll[q] \/ PollOk(poll'[q])
  <2>1. poll' = [q \in Pollers |-> IF q = p THEN Idle ELSE poll[q]]
    BY <1>1 DEF PanelInv
  <2> QED
    BY <2>1 DEF PollOk
<1> QED
  BY <1>7, <1>9, <1>10, <1>11, <1>12, <1>13, <1>14, PanelFrame

LEMMA PollFailsPanel ==
  ASSUME PanelInv, NEW p \in Pollers, PollFails(p)
  PROVE  PanelInv'
<1>1. PollOk(Idle)
  BY DEF PollOk
<1> QED
  BY <1>1, PollerPanel DEF PollFails, coldVars

-----------------------------------------------------------------------------
(* The invariant and what it implies.                                      *)

LEMMA ColdNextPanel ==
  ASSUME PanelInv, ColdNext, UNCHANGED panelVars
  PROVE  PanelInv'
<1>1. ASSUME NEW h \in Handlers, NEW op, NEW id, NEW row, NEW changes,
             Decide(h, op, id, row, changes), op # "cast"
      PROVE  PanelInv'
  BY <1>1, DecidePanel
<1>2. ASSUME NEW h \in Handlers, NEW a \in Agents, Login(h, a) \/ Penalize(h, a)
      PROVE  PanelInv'
  BY <1>1, <1>2 DEF Login, Penalize
<1>3. ASSUME NEW h \in Handlers, NEW a \in Agents, NEW large \in BOOLEAN,
             DepositCollateral(h, a, large)
      PROVE  PanelInv'
  <2>1. PICK s : s.at = "deposit" /\ handler' = [handler EXCEPT ![h] = s]
    BY <1>3 DEF DepositCollateral, DecideFlag
  <2> QED
    BY <2>1, FlagPanel
<1>4. ASSUME NEW h \in Handlers, NEW a \in Agents, NEW b \in Agents,
             NEW bounty \in Bounties \cup {NoBounty}, CreateVouch(h, a, b, bounty)
      PROVE  PanelInv'
  <2>1. PICK row, changes : Decide(h, "vouch", 0, row, changes)
    BY <1>4, Zenon DEF CreateVouch
  <2> QED
    BY <1>1, <2>1
<1>5. ASSUME NEW h \in Handlers, NEW i \in DOMAIN deposits,
             NEW outcome \in {"released", "slashed"}, ReleaseCollateral(h, i, outcome)
      PROVE  PanelInv'
  <2>1. PICK at, row, changes, flag :
          /\ at \in {"look", "release"}
          /\ DecideFlag(h, at, i, row, changes, flag)
    BY <1>5 DEF ReleaseCollateral
  <2> PICK f : f = has_collateral[row.agent]
    OBVIOUS
  <2> PICK s : s = [at |-> at, id |-> i, row |-> row, changes |-> changes,
                    flag |-> flag, loaded |-> f]
    OBVIOUS
  <2>2. s.at # "cast" /\ handler' = [handler EXCEPT ![h] = s]
    BY <2>1 DEF DecideFlag
  <2> QED
    BY <2>2, FlagPanel
<1>6. ASSUME NEW h \in Handlers, NEW i \in DOMAIN vouches,
             NEW outcome \in {"resolved", "slashed", "expired"},
             ResolveVouch(h, i, outcome)
      PROVE  PanelInv'
  <2>1. PICK row, changes : Decide(h, "resolve", i, row, changes)
    BY <1>6, Zenon DEF ResolveVouch
  <2> QED
    BY <1>1, <2>1
<1>7. ASSUME NEW h \in Handlers, Commit(h) \/ Abort(h) PROVE PanelInv'
  <2>1. handler' = [handler EXCEPT ![h] = Idle] /\ CastOk(Idle)
    BY <1>7 DEF Commit, Abort, CastOk, Idle
  <2> QED
    BY <2>1, SessionPanel
<1>8. ASSUME NEW h \in Handlers, LookForLocked(h) PROVE PanelInv'
  <2> PICK q : q = handler[h]
    OBVIOUS
  <2> PICK f : f = IF Locked(q.row.agent) = {} THEN FALSE ELSE q.flag
    OBVIOUS
  <2> PICK s : s = [at |-> "release", id |-> q.id, row |-> q.row, changes |-> q.changes,
                    flag |-> f, loaded |-> q.loaded]
    OBVIOUS
  <2>1. s.at # "cast" /\ handler' = [handler EXCEPT ![h] = s]
    BY <1>8 DEF LookForLocked, Looked
  <2> QED
    BY <2>1, FlagPanel
<1> QED
  BY <1>2, <1>3, <1>4, <1>5, <1>6, <1>7, <1>8 DEF ColdNext

LEMMA RecordsNextPanel ==
  ASSUME PanelInv, RecordsNext
  PROVE  PanelInv'
<1>1. ASSUME NEW h \in Handlers, NEW op \in {"tax", "link", "accept"}, NEW row,
             UNCHANGED panelVars, Decide(h, op, 0, row, NoChange)
      PROVE  PanelInv'
  BY <1>1, DecidePanel
<1>2. ASSUME NEW h \in Handlers, NEW a \in Agents, UNCHANGED panelVars,
             \/ \E j \in Jurisdictions : UpdateTaxInfo(h, a, j)
             \/ \E amount \in Amounts : RecordPayout(h, a, amount)
             \/ \E login \in Logins : LinkGithubUsername(h, a, login)
             \/ AcceptTerms(h, a)
      PROVE  PanelInv'
  BY <1>1, <1>2 DEF UpdateTaxInfo, RecordPayout, LinkGithubUsername, AcceptTerms
<1>3. ASSUME NEW h \in Handlers, CommitRecord(h) PROVE PanelInv'
  <2>1. /\ handler' = [handler EXCEPT ![h] = Idle] /\ CastOk(Idle)
        /\ UNCHANGED panelVars
    BY <1>3 DEF CommitRecord, CastOk, Idle
  <2> QED
    BY <2>1, SessionPanel
<1>4. ASSUME NEW a \in Agents, AddToBlacklist(a) \/ ResolveBlacklist(a)
      PROVE  UNCHANGED <<coldVars, panelVars>>
  BY <1>4 DEF AddToBlacklist, ResolveBlacklist, Rewritten
<1>5. ASSUME UNCHANGED <<coldVars, panelVars>> PROVE PanelInv'
  BY <1>5, UnchangedPanel DEF coldVars, panelVars
<1> QED
  BY <1>2, <1>3, <1>4, <1>5 DEF RecordsNext

LEMMA PanelNextPanel ==
  ASSUME PanelInv, PanelNext
  PROVE  PanelInv'
<1>1. CASE ColdNext /\ UNCHANGED panelVars
  BY <1>1, ColdNextPanel
<1>2. ASSUME NEW s, RowMoves(s) PROVE PanelInv'
  BY <1>2, UnchangedPanel DEF RowMoves, coldVars
<1> QED
  BY <1>1, <1>2, ContractLogsPanel, EnrolPanel, VoteDisputePanel, CommitVotePanel,
     PollLogsPanel, CheckInactivePanel, CommitPollPanel, PollFailsPanel DEF PanelNext

LEMMA PanelInitially == Init => PanelInv
<1> SUFFICES ASSUME Init PROVE PanelInv
  OBVIOUS
<1>1. /\ panel = {} /\ chain = <<>> /\ evaluators = [a \in {} |-> 0]
      /\ assignments = <<>> /\ poll = [p \in Pollers |-> Idle]
      /\ handler = [h \in Handlers |-> Idle]
  BY DEF Init, PanelInit, ColdInit
<1>2. \A T : <<>> \in Seq(T)
  BY EmptySeq
<1>3. CastOk(Idle) /\ PollOk(Idle)
  BY DEF CastOk, PollOk, Idle
<1>4. Listed = {} /\ DOMAIN assignments = {}
  BY <1>1 DEF Listed
<1> QED
  BY <1>1, <1>2, <1>3, <1>4 DEF PanelInv

LEMMA PanelStepwise == PanelInv /\ [Next]_vars => PanelInv'
<1>1. PanelInv /\ UNCHANGED vars => PanelInv'
  BY UnchangedPanel DEF vars, coldVars, panelVars
<1> QED
  BY <1>1, PanelNextPanel, RecordsNextPanel DEF Next

\* For any evaluators and any number of polls and calls, a row of the panel has
\* its cause outside the database: the selection, a passed deadline, a vote
\* (vote_dispute, indexer_worker, check_inactive_evaluators).
THEOREM RowsAlwaysJustified == Spec => []RowsJustified
<1>1. PanelInv => RowsJustified
  BY DEF PanelInv, RowOk, Caused, RowsJustified
<1> QED
  BY <1>1, PanelInitially, PanelStepwise, PTL DEF Spec

-----------------------------------------------------------------------------
(* Counting rows.                                                          *)

CountIn(rows, R) == Cardinality({i \in DOMAIN rows : rows[i] \in R})

Put(rows, k, row) == [rows EXCEPT ![k] = row]

One(row, R) == IF row \in R THEN 1 ELSE 0

LEMMA CountAppended ==
  ASSUME NEW T, NEW q \in Seq(T), NEW x \in T, NEW R
  PROVE  /\ CountIn(q, R) \in Nat
         /\ CountIn(Append(q, x), R) = CountIn(q, R) + One(x, R)
<1> PICK n : n = Len(q)
  OBVIOUS
<1> DEFINE S == {i \in DOMAIN q : q[i] \in R}
           r == Append(q, x)
           S1 == {i \in DOMAIN r : r[i] \in R}
<1>1. n \in Nat /\ DOMAIN q = 1 .. n
  BY LenProperties
<1>2. /\ r \in Seq(T) /\ Len(r) = n + 1 /\ r[n + 1] = x
      /\ \A i \in 1 .. n : r[i] = q[i]
  BY AppendProperties
<1>3. DOMAIN r = 1 .. n + 1
  BY <1>2, LenProperties
<1> HIDE DEF r
<1>4. IsFiniteSet(S) /\ Cardinality(S) \in Nat /\ n + 1 \notin S
  <2>1. IsFiniteSet(1 .. n) /\ S \in SUBSET (1 .. n)
    BY <1>1, FS_Interval
  <2> QED
    BY <1>1, <2>1, FS_Subset, FS_CardinalityType
<1>5. S1 = IF x \in R THEN S \cup {n + 1} ELSE S
  <2>1. 1 .. n + 1 = (1 .. n) \cup {n + 1}
    BY <1>1
  <2> QED
    BY <1>1, <1>2, <1>3, <2>1
<1>6. Cardinality(S1) = Cardinality(S) + One(x, R)
  <2> HIDE DEF S, S1
  <2>1. Cardinality(S \cup {n + 1}) = Cardinality(S) + 1
    BY <1>4, FS_AddElement
  <2>2. CASE x \in R
    BY <1>5, <2>1, <2>2 DEF One
  <2>3. CASE x \notin R
    BY <1>4, <1>5, <2>3 DEF One
  <2> QED
    BY <2>2, <2>3
<1> QED
  BY <1>4, <1>6 DEF CountIn, r

LEMMA CountReplaced ==
  ASSUME NEW T, NEW q \in Seq(T), NEW k \in DOMAIN q, NEW x \in T, NEW R
  PROVE  /\ One(q[k], R) = One(x, R) =>
              CountIn(Put(q, k, x), R) = CountIn(q, R)
         /\ One(q[k], R) = 0 =>
              CountIn(Put(q, k, x), R) = CountIn(q, R) + One(x, R)
<1> PICK n : n = Len(q)
  OBVIOUS
<1> PICK r : r = Put(q, k, x)
  OBVIOUS
<1> DEFINE S == {i \in DOMAIN q : q[i] \in R}
           S1 == {i \in DOMAIN r : r[i] \in R}
           S0 == {i \in DOMAIN q \ {k} : q[i] \in R}
<1>1. n \in Nat /\ DOMAIN q = 1 .. n
  BY LenProperties
<1>2. /\ DOMAIN r = DOMAIN q /\ r[k] = x
      /\ \A i \in DOMAIN q : i # k => r[i] = q[i]
  BY DEF Put
<1>3. IsFiniteSet(S0) /\ Cardinality(S0) \in Nat /\ k \notin S0
  <2>1. IsFiniteSet(1 .. n) /\ S0 \in SUBSET (1 .. n)
    BY <1>1, FS_Interval
  <2> QED
    BY <2>1, FS_Subset, FS_CardinalityType
<1>4. S = IF q[k] \in R THEN S0 \cup {k} ELSE S0
  OBVIOUS
<1>5. S1 = IF x \in R THEN S0 \cup {k} ELSE S0
  BY <1>2
<1>6. Cardinality(S0 \cup {k}) = Cardinality(S0) + 1
  <2> HIDE DEF S0
  <2> QED
    BY <1>3, FS_AddElement
<1>7. /\ Cardinality(S) = Cardinality(S0) + One(q[k], R)
      /\ Cardinality(S1) = Cardinality(S0) + One(x, R)
  <2> HIDE DEF S, S1, S0
  <2> QED
    BY <1>3, <1>4, <1>5, <1>6 DEF One
<1>8. /\ One(q[k], R) = One(x, R) => Cardinality(S1) = Cardinality(S)
      /\ One(q[k], R) = 0 => Cardinality(S1) = Cardinality(S) + One(x, R)
  <2> HIDE DEF S, S1, S0
  <2>1. One(q[k], R) \in Int /\ One(x, R) \in Int
    BY DEF One
  <2> QED
    BY <1>3, <1>7, <2>1
<1> QED
  BY <1>8 DEF CountIn

-----------------------------------------------------------------------------
(* What rows add to the karma of an agent.                                 *)

VouchRows ==
  {v \in [by : Agents, for : Agents, bounty : Bounties \cup {NoBounty},
          status : {"active", "resolved", "slashed", "expired"},
          elite : BOOLEAN, count : Int] : v.by # v.for}

Large(a) == {d \in DepositRows : d.agent = a /\ d.large}
EndedAs(a, st) == {d \in DepositRows : d.agent = a /\ d.status = st}
Elite(a) == {v \in VouchRows : v.by = a /\ v.elite}
Given(a, st) == {v \in VouchRows : v.by = a /\ v.status = st}
Got(a, st) == {v \in VouchRows : v.for = a /\ v.status = st}
For(a) == {v \in VouchRows : v.for = a}

ByDeposits(a, rows) ==
  10 * CountIn(rows, Large(a)) + 15 * CountIn(rows, EndedAs(a, "released"))
    - 5 * CountIn(rows, EndedAs(a, "slashed"))

ByVouches(a, rows) ==
  5 * CountIn(rows, Elite(a)) + 5 * CountIn(rows, Given(a, "resolved"))
    + 3 * CountIn(rows, Got(a, "resolved")) - CountIn(rows, Got(a, "slashed"))

LEMMA DepositAdded ==
  ASSUME NEW a, NEW q \in Seq(DepositRows), NEW d \in DepositRows,
         d.status = "locked"
  PROVE  /\ ByDeposits(a, q) \in Int
         /\ ByDeposits(a, Append(q, d)) =
              ByDeposits(a, q) + IF d.agent = a /\ d.large THEN 10 ELSE 0
<1>1. \A R : /\ CountIn(q, R) \in Nat
             /\ CountIn(Append(q, d), R) = CountIn(q, R) + One(d, R)
  BY CountAppended
<1>2. /\ One(d, Large(a)) = IF d.agent = a /\ d.large THEN 1 ELSE 0
      /\ One(d, EndedAs(a, "released")) = 0 /\ One(d, EndedAs(a, "slashed")) = 0
  BY DEF One, Large, EndedAs
<1>3. /\ CountIn(Append(q, d), Large(a)) =
           CountIn(q, Large(a)) + IF d.agent = a /\ d.large THEN 1 ELSE 0
      /\ CountIn(Append(q, d), EndedAs(a, "released")) = CountIn(q, EndedAs(a, "released"))
      /\ CountIn(Append(q, d), EndedAs(a, "slashed")) = CountIn(q, EndedAs(a, "slashed"))
  BY <1>1, <1>2
<1>4. /\ CountIn(q, Large(a)) \in Nat /\ CountIn(q, EndedAs(a, "released")) \in Nat
      /\ CountIn(q, EndedAs(a, "slashed")) \in Nat
  BY <1>1
<1> QED
  BY <1>3, <1>4 DEF ByDeposits

\* What the end of a deposit is worth to its agent.
EndWorth(d) == IF d.status = "released" THEN 15 ELSE -5

\* Whose deposit it is and how large does not change.
LEMMA DepositEnded ==
  ASSUME NEW a, NEW q \in Seq(DepositRows), NEW k \in DOMAIN q,
         NEW d \in DepositRows, d.agent = q[k].agent, d.large = q[k].large,
         d.status # "locked"
  PROVE  /\ d.agent # a => ByDeposits(a, Put(q, k, d)) = ByDeposits(a, q)
         /\ d.agent = a /\ q[k].status = "locked" =>
              ByDeposits(a, Put(q, k, d)) =
                ByDeposits(a, q) + EndWorth(d)
<1> PICK r : r = Put(q, k, d)
  OBVIOUS
<1>1. q[k] \in DepositRows
  BY LenProperties, ElementOfSeq
<1>2. \A R : CountIn(q, R) \in Nat
  BY <1>1, CountAppended
<1>3. ASSUME NEW R
      PROVE  /\ One(q[k], R) = One(d, R) => CountIn(r, R) = CountIn(q, R)
             /\ One(q[k], R) = 0 => CountIn(r, R) = CountIn(q, R) + One(d, R)
  <2>1. /\ One(q[k], R) = One(d, R) =>
             CountIn(Put(q, k, d), R) = CountIn(q, R)
        /\ One(q[k], R) = 0 =>
             CountIn(Put(q, k, d), R) = CountIn(q, R) + One(d, R)
    BY CountReplaced
  <2> QED
    BY <2>1
<1>4. One(q[k], Large(a)) = One(d, Large(a))
  BY <1>1 DEF One, Large
<1>5. CountIn(r, Large(a)) = CountIn(q, Large(a))
  BY <1>2, <1>3, <1>4
<1>6. CASE d.agent # a
  <2>1. \A st : One(q[k], EndedAs(a, st)) = 0 /\ One(d, EndedAs(a, st)) = 0
    BY <1>6 DEF One, EndedAs
  <2>2. \A st : CountIn(r, EndedAs(a, st)) = CountIn(q, EndedAs(a, st))
    BY <1>2, <1>3, <2>1
  <2> QED
    BY <1>2, <1>5, <1>6, <2>2 DEF ByDeposits
<1>7. CASE d.agent = a /\ q[k].status = "locked"
  <2>1. \A st \in {"released", "slashed"} :
          /\ One(q[k], EndedAs(a, st)) = 0
          /\ One(d, EndedAs(a, st)) = IF d.status = st THEN 1 ELSE 0
    BY <1>7 DEF One, EndedAs
  <2>2. \A st \in {"released", "slashed"} :
          CountIn(r, EndedAs(a, st)) =
            CountIn(q, EndedAs(a, st)) + IF d.status = st THEN 1 ELSE 0
    BY <1>2, <1>3, <2>1
  <2>3. d.status \in {"released", "slashed"}
    BY DEF DepositRows
  <2> QED
    <3>1. /\ CountIn(q, Large(a)) \in Nat /\ CountIn(q, EndedAs(a, "released")) \in Nat
          /\ CountIn(q, EndedAs(a, "slashed")) \in Nat
      BY <1>2
    <3>2. -5 \in Int
      OBVIOUS
    <3>3. /\ CountIn(r, EndedAs(a, "released")) = CountIn(q, EndedAs(a, "released"))
                                 + IF d.status = "released" THEN 1 ELSE 0
          /\ CountIn(r, EndedAs(a, "slashed")) = CountIn(q, EndedAs(a, "slashed"))
                                 + IF d.status = "slashed" THEN 1 ELSE 0
      BY <2>2
    <3>4. CASE d.status = "released"
      BY <1>5, <1>7, <3>1, <3>3, <3>4 DEF ByDeposits, EndWorth
    <3>5. CASE d.status = "slashed"
      BY <1>5, <1>7, <3>1, <3>2, <3>3, <3>5 DEF ByDeposits, EndWorth
    <3> QED
      BY <2>3, <3>4, <3>5
<1> QED
  BY <1>6, <1>7

LEMMA VouchAdded ==
  ASSUME NEW a, NEW q \in Seq(VouchRows), NEW v \in VouchRows, v.status = "active"
  PROVE  /\ ByVouches(a, q) \in Int /\ CountIn(q, For(a)) \in Nat
         /\ ByVouches(a, Append(q, v)) =
              ByVouches(a, q) + IF v.by = a /\ v.elite THEN 5 ELSE 0
         /\ CountIn(Append(q, v), For(a)) =
              CountIn(q, For(a)) + IF v.for = a THEN 1 ELSE 0
<1>1. \A R : /\ CountIn(q, R) \in Nat
             /\ CountIn(Append(q, v), R) = CountIn(q, R) + One(v, R)
  BY CountAppended
<1>2. /\ One(v, Elite(a)) = IF v.by = a /\ v.elite THEN 1 ELSE 0
      /\ One(v, Given(a, "resolved")) = 0 /\ One(v, Got(a, "resolved")) = 0
      /\ One(v, Got(a, "slashed")) = 0
      /\ One(v, For(a)) = IF v.for = a THEN 1 ELSE 0
  BY DEF One, Elite, Given, Got, For
<1>3. /\ CountIn(Append(q, v), Elite(a)) =
           CountIn(q, Elite(a)) + IF v.by = a /\ v.elite THEN 1 ELSE 0
      /\ CountIn(Append(q, v), Given(a, "resolved")) = CountIn(q, Given(a, "resolved"))
      /\ CountIn(Append(q, v), Got(a, "resolved")) = CountIn(q, Got(a, "resolved"))
      /\ CountIn(Append(q, v), Got(a, "slashed")) = CountIn(q, Got(a, "slashed"))
      /\ CountIn(Append(q, v), For(a)) =
           CountIn(q, For(a)) + IF v.for = a THEN 1 ELSE 0
  BY <1>1, <1>2
<1>4. /\ CountIn(q, Elite(a)) \in Nat /\ CountIn(q, Given(a, "resolved")) \in Nat
      /\ CountIn(q, Got(a, "resolved")) \in Nat /\ CountIn(q, Got(a, "slashed")) \in Nat
      /\ CountIn(q, For(a)) \in Nat
  BY <1>1
<1>5. ASSUME v.by = a, v.elite
      PROVE  ByVouches(a, Append(q, v)) = ByVouches(a, q) + 5
  <2>1. CountIn(Append(q, v), Elite(a)) = CountIn(q, Elite(a)) + 1
    BY <1>3, <1>5
  <2>2. /\ CountIn(Append(q, v), Given(a, "resolved")) = CountIn(q, Given(a, "resolved"))
        /\ CountIn(Append(q, v), Got(a, "resolved")) = CountIn(q, Got(a, "resolved"))
        /\ CountIn(Append(q, v), Got(a, "slashed")) = CountIn(q, Got(a, "slashed"))
    BY <1>3
  <2>3. ByVouches(a, Append(q, v)) = ByVouches(a, q) + 5
    BY <1>4, <2>1, <2>2 DEF ByVouches
  <2> QED
    BY <2>3
<1>6. ASSUME ~(v.by = a /\ v.elite)
      PROVE  ByVouches(a, Append(q, v)) = ByVouches(a, q)
  BY <1>3, <1>4, <1>6 DEF ByVouches
<1>7. ByVouches(a, q) \in Int
  BY <1>4 DEF ByVouches
<1> QED
  BY <1>3, <1>4, <1>5, <1>6, <1>7

\* Who vouched for whom does not change.
LEMMA VouchEnded ==
  ASSUME NEW a, NEW q \in Seq(VouchRows), NEW k \in DOMAIN q, NEW v \in VouchRows,
         v.by = q[k].by, v.for = q[k].for, v.elite = q[k].elite,
         v.status # "active"
  PROVE  /\ CountIn(Put(q, k, v), For(a)) = CountIn(q, For(a))
         /\ a \notin {v.by, v.for} =>
              ByVouches(a, Put(q, k, v)) = ByVouches(a, q)
         /\ q[k].status = "active" /\ v.by = a =>
              ByVouches(a, Put(q, k, v)) =
                ByVouches(a, q) + IF v.status = "resolved" THEN 5 ELSE 0
         /\ q[k].status = "active" /\ v.for = a =>
              ByVouches(a, Put(q, k, v)) =
                ByVouches(a, q) + IF v.status = "resolved" THEN 3
                                  ELSE IF v.status = "slashed" THEN -1 ELSE 0
<1> PICK r : r = Put(q, k, v)
  OBVIOUS
<1>1. q[k] \in VouchRows
  BY LenProperties, ElementOfSeq
<1>2. \A R : CountIn(q, R) \in Nat
  BY <1>1, CountAppended
<1>3. ASSUME NEW R
      PROVE  /\ One(q[k], R) = One(v, R) => CountIn(r, R) = CountIn(q, R)
             /\ One(q[k], R) = 0 => CountIn(r, R) = CountIn(q, R) + One(v, R)
  <2>1. /\ One(q[k], R) = One(v, R) =>
             CountIn(Put(q, k, v), R) = CountIn(q, R)
        /\ One(q[k], R) = 0 =>
             CountIn(Put(q, k, v), R) = CountIn(q, R) + One(v, R)
    BY CountReplaced
  <2> QED
    BY <2>1
<1>4. /\ One(q[k], Elite(a)) = One(v, Elite(a))
      /\ One(q[k], For(a)) = One(v, For(a))
  BY <1>1 DEF One, Elite, For
<1>5. CountIn(r, Elite(a)) = CountIn(q, Elite(a)) /\ CountIn(r, For(a)) = CountIn(q, For(a))
  BY <1>2, <1>3, <1>4
<1>6. v.by # v.for /\ v.status \in {"resolved", "slashed", "expired"}
  BY DEF VouchRows
<1>7. CASE a \notin {v.by, v.for}
  <2>1. \A st : /\ One(q[k], Given(a, st)) = 0 /\ One(v, Given(a, st)) = 0
                /\ One(q[k], Got(a, st)) = 0 /\ One(v, Got(a, st)) = 0
    BY <1>7 DEF One, Given, Got
  <2>2. \A st : /\ CountIn(r, Given(a, st)) = CountIn(q, Given(a, st))
                /\ CountIn(r, Got(a, st)) = CountIn(q, Got(a, st))
    BY <1>2, <1>3, <2>1
  <2> QED
    BY <1>2, <1>5, <1>7, <2>2 DEF ByVouches
<1>8. CASE q[k].status = "active" /\ a \in {v.by, v.for}
  <2>1. \A st \in {"resolved", "slashed"} :
          /\ One(q[k], Given(a, st)) = 0 /\ One(q[k], Got(a, st)) = 0
          /\ One(v, Given(a, st)) = IF v.by = a /\ v.status = st THEN 1 ELSE 0
          /\ One(v, Got(a, st)) = IF v.for = a /\ v.status = st THEN 1 ELSE 0
    BY <1>8 DEF One, Given, Got
  <2>2. \A st \in {"resolved", "slashed"} :
          /\ CountIn(r, Given(a, st)) =
               CountIn(q, Given(a, st)) + IF v.by = a /\ v.status = st THEN 1 ELSE 0
          /\ CountIn(r, Got(a, st)) =
               CountIn(q, Got(a, st)) + IF v.for = a /\ v.status = st THEN 1 ELSE 0
    BY <1>2, <1>3, <2>1
  <2>3. /\ CountIn(q, Elite(a)) \in Nat /\ CountIn(q, Given(a, "resolved")) \in Nat
        /\ CountIn(q, Got(a, "resolved")) \in Nat /\ CountIn(q, Got(a, "slashed")) \in Nat
    BY <1>2
  <2>4. -1 \in Int
    OBVIOUS
  <2>5. /\ CountIn(r, Given(a, "resolved")) = CountIn(q, Given(a, "resolved"))
                   + IF v.by = a /\ v.status = "resolved" THEN 1 ELSE 0
        /\ CountIn(r, Got(a, "resolved")) = CountIn(q, Got(a, "resolved"))
                   + IF v.for = a /\ v.status = "resolved" THEN 1 ELSE 0
        /\ CountIn(r, Got(a, "slashed")) = CountIn(q, Got(a, "slashed"))
                   + IF v.for = a /\ v.status = "slashed" THEN 1 ELSE 0
    BY <2>2
  <2>6. ASSUME v.by = a
        PROVE  ByVouches(a, r) = ByVouches(a, q) + IF v.status = "resolved" THEN 5 ELSE 0
    <3>1. v.for # a
      BY <1>6, <2>6
    <3>2. CASE v.status = "resolved"
      BY <1>5, <2>3, <2>5, <2>6, <3>1, <3>2 DEF ByVouches
    <3>3. CASE v.status # "resolved"
      BY <1>5, <2>3, <2>5, <3>1, <3>3 DEF ByVouches
    <3> QED
      BY <3>2, <3>3
  <2>7. ASSUME v.for = a
        PROVE  ByVouches(a, r) = ByVouches(a, q) + IF v.status = "resolved" THEN 3
                                 ELSE IF v.status = "slashed" THEN -1 ELSE 0
    <3>1. v.by # a
      BY <1>6, <2>7
    <3>2. CASE v.status = "resolved"
      BY <1>5, <2>3, <2>5, <2>7, <3>1, <3>2 DEF ByVouches
    <3>3. CASE v.status = "slashed"
      BY <1>5, <2>3, <2>4, <2>5, <2>7, <3>1, <3>3 DEF ByVouches
    <3>4. CASE v.status = "expired"
      BY <1>5, <2>3, <2>5, <3>1, <3>4 DEF ByVouches
    <3> QED
      BY <1>6, <3>2, <3>3, <3>4
  <2> QED
    BY <1>5, <1>6, <1>8, <2>6, <2>7
<1> QED
  BY <1>5, <1>7, <1>8

-----------------------------------------------------------------------------
(* What a session knows of the karma it will write.                        *)

Raises(c, a, by) == a \in DOMAIN c /\ c[a].karma = c[a].seen + by

Whole(c) ==
  \A a \in DOMAIN c : a \in Known /\ c[a].seen \in Int /\ c[a].karma \in Int

LoginOk(s) == s.row.agent \in Agents /\ DOMAIN s.changes = {}

DepositOk(s) ==
  /\ s.row \in DepositRows /\ s.row.agent \in Known /\ s.row.status = "locked"
  /\ s.row.large => Raises(s.changes, s.row.agent, 10)
  /\ DOMAIN s.changes \subseteq IF s.row.large THEN {s.row.agent} ELSE {}

ReleaseOk(s) ==
  /\ s.id \in DOMAIN deposits
  /\ s.row \in DepositRows /\ s.row.status # "locked"
  /\ s.row.agent = deposits[s.id].agent /\ s.row.large = deposits[s.id].large
  /\ Raises(s.changes, s.row.agent, IF s.row.status = "released" THEN 15 ELSE -5)
  /\ DOMAIN s.changes \subseteq {s.row.agent}

VouchOk(s) ==
  /\ s.row \in VouchRows /\ {s.row.by, s.row.for} \subseteq Known
  /\ s.row.status = "active"
  /\ s.row.elite => Raises(s.changes, s.row.by, 5)
  /\ DOMAIN s.changes \subseteq IF s.row.elite THEN {s.row.by} ELSE {}

\* A slashed voucher loses what its fine says.
ResolveOk(s) ==
  /\ s.id \in DOMAIN vouches
  /\ s.row \in VouchRows /\ s.row.status # "active"
  /\ s.row.by = vouches[s.id].by /\ s.row.for = vouches[s.id].for
  /\ s.row.elite = vouches[s.id].elite
  /\ s.row.status = "resolved" => /\ Raises(s.changes, s.row.by, 5)
                                  /\ Raises(s.changes, s.row.for, 3)
  /\ s.row.status = "slashed" => Raises(s.changes, s.row.for, -1)
  /\ DOMAIN s.changes \subseteq
       IF s.row.status = "expired" THEN {} ELSE {s.row.by, s.row.for}

PenalizeOk(s) == DOMAIN s.changes \subseteq {s.row.agent}

KarmaSession(s) ==
  /\ s.at \in Commits \cup {"look"} => Whole(s.changes)
  /\ s.at = "login" => LoginOk(s)
  /\ s.at = "deposit" => DepositOk(s)
  /\ s.at \in {"look", "release"} => ReleaseOk(s)
  /\ s.at = "vouch" => VouchOk(s)
  /\ s.at = "resolve" => ResolveOk(s)
  /\ s.at = "penalize" => PenalizeOk(s)

KarmaPoll(s) == s.at = "commit" => Whole(s.changes)

-----------------------------------------------------------------------------
(* The invariant.                                                          *)

Start(a) == IF a \in Veterans THEN OldKarma ELSE NewKarma

Balanced(a) ==
  /\ karma[a] = Start(a) + ByDeposits(a, deposits) + ByVouches(a, vouches) - fined[a]
  /\ vouched_by_count[a] = CountIn(vouches, For(a))

\* The columns have their types, and an agent without a row has no history.
KarmaTypes ==
  /\ karma \in [Known -> Int] /\ Known \subseteq Agents /\ Veterans \subseteq Known
  /\ deposits \in Seq(DepositRows) /\ vouches \in Seq(VouchRows)
  /\ \A i \in DOMAIN deposits : deposits[i].agent \in Known
  /\ \A i \in DOMAIN vouches : vouches[i].by \in Known /\ vouches[i].for \in Known
  /\ vouched_by_count \in [Agents -> Int] /\ fined \in [Agents -> Int]
  /\ \A a \in Agents \ Known : fined[a] = 0 /\ vouched_by_count[a] = 0

KarmaInv ==
  /\ KarmaTypes
  /\ \A a \in Known \ raced : Balanced(a)
  /\ handler = [h \in Handlers |-> handler[h]]
  /\ \A h \in Handlers : KarmaSession(handler[h])
  /\ poll = [p \in Pollers |-> poll[p]]
  /\ \A p \in Pollers : KarmaPoll(poll[p])

\* What sessions rely on is not taken back.
RowsStay ==
  /\ Known \subseteq Known'
  /\ DOMAIN deposits \subseteq DOMAIN deposits'
  /\ \A i \in DOMAIN deposits : /\ deposits'[i].agent = deposits[i].agent
                                /\ deposits'[i].large = deposits[i].large
  /\ DOMAIN vouches \subseteq DOMAIN vouches'
  /\ \A i \in DOMAIN vouches : /\ vouches'[i].by = vouches[i].by
                               /\ vouches'[i].for = vouches[i].for
                               /\ vouches'[i].elite = vouches[i].elite

LEMMA KarmaSessionStays ==
  ASSUME RowsStay, NEW s
  PROVE  /\ KarmaSession(s) => KarmaSession(s)'
         /\ KarmaPoll(s) => KarmaPoll(s)'
<1>1. Whole(s.changes) => Whole(s.changes)'
  BY DEF RowsStay, Whole
<1>2. DepositOk(s) => DepositOk(s)'
  BY DEF RowsStay, DepositOk
<1>3. ReleaseOk(s) => ReleaseOk(s)'
  BY DEF RowsStay, ReleaseOk
<1>4. VouchOk(s) => VouchOk(s)'
  BY DEF RowsStay, VouchOk
<1>5. ResolveOk(s) => ResolveOk(s)'
  BY DEF RowsStay, ResolveOk
<1> QED
  BY <1>1, <1>2, <1>3, <1>4, <1>5 DEF KarmaSession, KarmaPoll, LoginOk, PenalizeOk

LEMMA KarmaFrame ==
  ASSUME KarmaInv, RowsStay, KarmaTypes', \A a \in Known' \ raced' : Balanced(a)',
         handler' = [h \in Handlers |-> handler'[h]],
         \A h \in Handlers : handler'[h] = handler[h] \/ KarmaSession(handler'[h]),
         poll' = [p \in Pollers |-> poll'[p]],
         \A p \in Pollers : poll'[p] = poll[p] \/ KarmaPoll(poll'[p])
  PROVE  KarmaInv'
<1>1. ASSUME NEW h \in Handlers PROVE KarmaSession(handler[h])'
  <2> PICK s : s = handler'[h]
    OBVIOUS
  <2>1. KarmaSession(s)
    BY DEF KarmaInv
  <2>2. KarmaSession(s)'
    BY <2>1, KarmaSessionStays
  <2> QED
    BY <2>2 DEF KarmaSession, Whole, LoginOk, DepositOk, ReleaseOk, VouchOk, ResolveOk,
                PenalizeOk
<1>2. ASSUME NEW p \in Pollers PROVE KarmaPoll(poll[p])'
  <2> PICK s : s = poll'[p]
    OBVIOUS
  <2>1. KarmaPoll(s)
    BY DEF KarmaInv
  <2>2. KarmaPoll(s)'
    BY <2>1, KarmaSessionStays
  <2> QED
    BY <2>2 DEF KarmaPoll, Whole
<1> QED
  BY <1>1, <1>2 DEF KarmaInv

-----------------------------------------------------------------------------
(* The karma a commit moves.                                               *)

\* What it adds to an agent beyond its fine.
Shift(c, agents, a) ==
  IF a \in DOMAIN c /\ a \notin agents THEN c[a].karma - c[a].seen ELSE 0

LEMMA KarmaMoves ==
  ASSUME KarmaTypes, NEW c, Whole(c), NEW agents,
         karma' = KarmaAfter(c), fined' = Fine(agents, c)
  PROVE  /\ Known' = Known /\ karma' \in [Known -> Int] /\ fined' \in [Agents -> Int]
         /\ \A a \in Agents \ Known : fined'[a] = fined[a]
         /\ \A a \in Known \ Overwritten(c) :
              /\ Shift(c, agents, a) \in Int
              /\ karma'[a] + fined'[a] = karma[a] + fined[a] + Shift(c, agents, a)
<1>1. /\ karma' = [a \in Known |-> IF a \in DOMAIN c THEN c[a].karma ELSE karma[a]]
      /\ fined' = [a \in Agents |-> IF a \in agents \cap DOMAIN c
                                      THEN fined[a] + c[a].seen - c[a].karma
                                      ELSE fined[a]]
  BY DEF KarmaAfter, Fine
<1>2. /\ karma \in [Known -> Int] /\ fined \in [Agents -> Int] /\ Known \subseteq Agents
      /\ \A a \in DOMAIN c : a \in Known /\ c[a].seen \in Int /\ c[a].karma \in Int
  BY DEF KarmaTypes, Whole
<1>3. Known' = Known
  BY <1>1 DEF Known
<1>4. ASSUME NEW a \in Known \ Overwritten(c)
      PROVE  /\ Shift(c, agents, a) \in Int
             /\ karma'[a] + fined'[a] = karma[a] + fined[a] + Shift(c, agents, a)
  <2>1. a \in Known /\ a \in Agents /\ karma[a] \in Int /\ fined[a] \in Int
    BY <1>2
  <2>2. CASE a \notin DOMAIN c
    BY <1>1, <2>1, <2>2 DEF Shift
  <2>3. CASE a \in DOMAIN c
    <3>1. c[a].seen = karma[a] /\ c[a].karma \in Int
      BY <1>2, <1>4, <2>3 DEF Overwritten
    <3>2. CASE a \in agents
      BY <1>1, <2>1, <2>3, <3>1, <3>2 DEF Shift
    <3>3. CASE a \notin agents
      BY <1>1, <2>1, <2>3, <3>1, <3>3 DEF Shift
    <3> QED
      BY <3>2, <3>3
  <2> QED
    BY <2>2, <2>3
<1>5. karma' \in [Known -> Int]
  BY <1>1, <1>2
<1>6. fined' \in [Agents -> Int]
  BY <1>1, <1>2
<1>7. \A a \in Agents \ Known : fined'[a] = fined[a]
  BY <1>1, <1>2
<1> QED
  BY <1>3, <1>4, <1>5, <1>6, <1>7

LEMMA CountsAreNatural ==
  ASSUME NEW T, NEW q \in Seq(T), NEW R PROVE CountIn(q, R) \in Nat
<1> PICK n : n = Len(q)
  OBVIOUS
<1> DEFINE S == {i \in DOMAIN q : q[i] \in R}
<1>1. n \in Nat /\ DOMAIN q = 1 .. n
  BY LenProperties
<1>2. IsFiniteSet(1 .. n) /\ S \in SUBSET (1 .. n)
  BY <1>1, FS_Interval
<1>3. Cardinality(S) \in Nat
  BY <1>2, FS_Subset, FS_CardinalityType
<1> QED
  BY <1>3 DEF CountIn

\* What rows are worth is a number.
LEMMA WorthIsWhole ==
  ASSUME NEW a, NEW ds \in Seq(DepositRows), NEW vs \in Seq(VouchRows)
  PROVE  /\ ByDeposits(a, ds) \in Int /\ ByVouches(a, vs) \in Int
         /\ CountIn(vs, For(a)) \in Nat /\ Start(a) \in Int
<1>1. \A R : CountIn(ds, R) \in Nat
  BY CountsAreNatural
<1>2. \A R : CountIn(vs, R) \in Nat
  BY CountsAreNatural
<1>3. /\ CountIn(ds, Large(a)) \in Nat
      /\ CountIn(ds, EndedAs(a, "released")) \in Nat
      /\ CountIn(ds, EndedAs(a, "slashed")) \in Nat
  BY <1>1
<1>4. /\ CountIn(vs, Elite(a)) \in Nat /\ CountIn(vs, Given(a, "resolved")) \in Nat
      /\ CountIn(vs, Got(a, "resolved")) \in Nat
      /\ CountIn(vs, Got(a, "slashed")) \in Nat
  BY <1>2
<1>5. Start(a) \in Int
  BY ColdStartAssumption DEF Start, NewKarma
<1>6. ByDeposits(a, ds) \in Int
  BY <1>3 DEF ByDeposits
<1>7. ByVouches(a, vs) \in Int
  BY <1>4 DEF ByVouches
<1> QED
  BY <1>2, <1>5, <1>6, <1>7

LEMMA StaysBalanced ==
  ASSUME KarmaTypes, KarmaTypes', NEW a \in Known, a \in Known', Balanced(a), NEW d \in Int,
         karma'[a] + fined'[a] = karma[a] + fined[a] + d,
         ByDeposits(a, deposits') + ByVouches(a, vouches') =
           ByDeposits(a, deposits) + ByVouches(a, vouches) + d,
         vouched_by_count'[a] = CountIn(vouches', For(a))
  PROVE  Balanced(a)'
<1>1. /\ deposits \in Seq(DepositRows) /\ vouches \in Seq(VouchRows)
      /\ deposits' \in Seq(DepositRows) /\ vouches' \in Seq(VouchRows)
  BY DEF KarmaTypes, DepositRows, VouchRows
<1>2. /\ ByDeposits(a, deposits) \in Int /\ ByVouches(a, vouches) \in Int /\ Start(a) \in Int
  BY <1>1, WorthIsWhole
<1>3. /\ ByDeposits(a, deposits') \in Int /\ ByVouches(a, vouches') \in Int
  BY <1>1, WorthIsWhole
<1>4. /\ karma[a] \in Int /\ fined[a] \in Int
  BY DEF KarmaTypes
<1>5. /\ karma'[a] \in Int /\ fined'[a] \in Int
  BY DEF KarmaTypes
<1>6. karma[a] = Start(a) + ByDeposits(a, deposits) + ByVouches(a, vouches) - fined[a]
  BY DEF Balanced
<1>7. karma'[a] = Start(a) + ByDeposits(a, deposits') + ByVouches(a, vouches') - fined'[a]
  BY <1>2, <1>3, <1>4, <1>5, <1>6
<1> QED
  BY <1>7 DEF Balanced

LEMMA CommitBalances ==
  ASSUME KarmaInv, KarmaTypes', NEW c, Whole(c), NEW agents,
         karma' = KarmaAfter(c), fined' = Fine(agents, c),
         raced \cup Overwritten(c) \subseteq raced',
         \A a \in Known \ raced' :
           /\ ByDeposits(a, deposits') + ByVouches(a, vouches') =
                ByDeposits(a, deposits) + ByVouches(a, vouches) + Shift(c, agents, a)
           /\ vouched_by_count'[a] = CountIn(vouches', For(a))
  PROVE  \A a \in Known' \ raced' : Balanced(a)'
<1>1. KarmaTypes
  BY DEF KarmaInv
<1>2. /\ Known' = Known
      /\ \A a \in Known \ Overwritten(c) :
           /\ Shift(c, agents, a) \in Int
           /\ karma'[a] + fined'[a] = karma[a] + fined[a] + Shift(c, agents, a)
  BY <1>1, KarmaMoves
<1>3. ASSUME NEW a \in Known' \ raced' PROVE Balanced(a)'
  <2>1. a \in Known /\ a \in Known' /\ a \notin Overwritten(c) /\ a \notin raced
    BY <1>2, <1>3
  <2> PICK d \in Int : d = Shift(c, agents, a)
    BY <1>2, <2>1
  <2>2. Balanced(a)
    BY <2>1 DEF KarmaInv
  <2>3. karma'[a] + fined'[a] = karma[a] + fined[a] + d
    BY <1>2, <2>1
  <2>4. /\ ByDeposits(a, deposits') + ByVouches(a, vouches') =
             ByDeposits(a, deposits) + ByVouches(a, vouches) + d
        /\ vouched_by_count'[a] = CountIn(vouches', For(a))
    BY <1>3, <2>1
  <2> QED
    BY <1>1, <2>1, <2>2, <2>3, <2>4, StaysBalanced
<1> QED
  BY <1>3

-----------------------------------------------------------------------------
(* Steps that write nothing or a single session.                           *)

worth == <<karma, deposits, vouches, vouched_by_count, fined, raced>>

LEMMA KarmaSame ==
  ASSUME KarmaInv, UNCHANGED worth
  PROVE  RowsStay /\ KarmaTypes' /\ \A a \in Known' \ raced' : Balanced(a)'
<1>1. KarmaTypes'
  BY DEF KarmaInv, KarmaTypes, worth, Known
<1>2. \A a \in Known' \ raced' : Balanced(a)'
  BY DEF KarmaInv, Balanced, worth, Known
<1>3. RowsStay
  BY DEF RowsStay, worth, Known
<1> QED
  BY <1>1, <1>2, <1>3

LEMMA KarmaHandler ==
  ASSUME KarmaInv, UNCHANGED <<worth, poll>>, NEW h \in Handlers, NEW s,
         handler' = [handler EXCEPT ![h] = s], KarmaSession(s)
  PROVE  KarmaInv'
<1>1. RowsStay /\ KarmaTypes' /\ \A a \in Known' \ raced' : Balanced(a)'
  BY KarmaSame
<1>2. /\ handler' = [k \in Handlers |-> handler'[k]]
      /\ \A k \in Handlers : handler'[k] = IF k = h THEN s ELSE handler[k]
  BY DEF KarmaInv
<1>3. KarmaSession(s)'
  BY <1>1, KarmaSessionStays
<1>4. \A k \in Handlers : handler'[k] = handler[k] \/ KarmaSession(handler'[k])
  BY <1>2
<1>5. /\ poll' = [p \in Pollers |-> poll'[p]]
      /\ \A p \in Pollers : poll'[p] = poll[p] \/ KarmaPoll(poll'[p])
  BY DEF KarmaInv
<1> QED
  BY <1>1, <1>2, <1>4, <1>5, KarmaFrame

LEMMA KarmaPoller ==
  ASSUME KarmaInv, UNCHANGED <<worth, handler>>, NEW p \in Pollers, NEW s,
         poll' = [poll EXCEPT ![p] = s], KarmaPoll(s)
  PROVE  KarmaInv'
<1>1. RowsStay /\ KarmaTypes' /\ \A a \in Known' \ raced' : Balanced(a)'
  BY KarmaSame
<1>2. /\ poll' = [k \in Pollers |-> poll'[k]]
      /\ \A k \in Pollers : poll'[k] = IF k = p THEN s ELSE poll[k]
  BY DEF KarmaInv
<1>3. \A k \in Pollers : poll'[k] = poll[k] \/ KarmaPoll(poll'[k])
  BY <1>2
<1>4. /\ handler' = [k \in Handlers |-> handler'[k]]
      /\ \A k \in Handlers : handler'[k] = handler[k] \/ KarmaSession(handler'[k])
  BY DEF KarmaInv
<1> QED
  BY <1>1, <1>2, <1>3, <1>4, KarmaFrame

LEMMA KarmaNobody ==
  ASSUME KarmaInv, UNCHANGED <<worth, handler, poll>>
  PROVE  KarmaInv'
<1>1. RowsStay /\ KarmaTypes' /\ \A a \in Known' \ raced' : Balanced(a)'
  BY KarmaSame
<1>2. /\ handler' = [k \in Handlers |-> handler'[k]]
      /\ \A k \in Handlers : handler'[k] = handler[k] \/ KarmaSession(handler'[k])
      /\ poll' = [k \in Pollers |-> poll'[k]]
      /\ \A k \in Pollers : poll'[k] = poll[k] \/ KarmaPoll(poll'[k])
  BY DEF KarmaInv
<1> QED
  BY <1>1, <1>2, KarmaFrame

LEMMA OtherKarmaSession ==
  ASSUME NEW s, s.at \notin Commits \cup {"look"} PROVE KarmaSession(s)
BY DEF KarmaSession, Commits

LEMMA KarmaDecides ==
  ASSUME KarmaInv, NEW h \in Handlers, NEW op, NEW id, NEW row, NEW changes,
         Decide(h, op, id, row, changes), UNCHANGED poll,
         KarmaSession([at |-> op, id |-> id, row |-> row, changes |-> changes])
  PROVE  KarmaInv'
<1>1. UNCHANGED <<worth, poll>>
  BY DEF Decide, worth, tables, histories
<1> QED
  BY <1>1, KarmaHandler DEF Decide

LEMMA KarmaDecidesFlag ==
  ASSUME KarmaInv, NEW h \in Handlers, NEW at, NEW id, NEW row, NEW changes, NEW flag,
         DecideFlag(h, at, id, row, changes, flag), UNCHANGED poll, NEW loaded,
         loaded = has_collateral[row.agent],
         KarmaSession([at |-> at, id |-> id, row |-> row, changes |-> changes,
                       flag |-> flag, loaded |-> loaded])
  PROVE  KarmaInv'
<1>1. UNCHANGED <<worth, poll>>
  BY DEF DecideFlag, worth, tables, histories
<1> QED
  BY <1>1, KarmaHandler DEF DecideFlag

-----------------------------------------------------------------------------
(* The handlers.                                                           *)

\* A changed column is written with the value it had.
LEMMA ChangesKnown ==
  ASSUME KarmaTypes, NEW to, DOMAIN to \subseteq Known,
         \A a \in DOMAIN to : to[a] \in Int, NEW c, c = Changes(to)
  PROVE  /\ DOMAIN c \subseteq DOMAIN to /\ Whole(c)
         /\ \A a \in DOMAIN to : to[a] # karma[a] =>
              a \in DOMAIN c /\ c[a].seen = karma[a] /\ c[a].karma = to[a]
<1>1. c = [a \in {b \in DOMAIN to : to[b] # karma[b]} |->
             [seen |-> karma[a], karma |-> to[a]]]
  BY DEF Changes
<1>2. \A a \in DOMAIN c : c[a].seen = karma[a] /\ c[a].karma = to[a] /\ a \in DOMAIN to
  BY <1>1
<1>3. \A a \in DOMAIN c : a \in Known /\ c[a].seen \in Int /\ c[a].karma \in Int
  BY <1>2 DEF KarmaTypes
<1> QED
  BY <1>1, <1>2, <1>3 DEF Whole

LEMMA ChangesOnly ==
  ASSUME KarmaTypes, NEW a \in Known, NEW k \in Int, NEW c, c = Changes(Only(a, k))
  PROVE  /\ DOMAIN c \subseteq {a} /\ Whole(c)
         /\ k # karma[a] => a \in DOMAIN c /\ c[a].seen = karma[a] /\ c[a].karma = k
<1> PICK to : to = Only(a, k)
  OBVIOUS
<1>1. DOMAIN to = {a} /\ to[a] = k
  BY DEF Only
<1> QED
  BY <1>1, ChangesKnown

LEMMA ChangesTwo ==
  ASSUME KarmaTypes, NEW a \in Known, NEW b \in Known, a # b, NEW k \in Int,
         NEW m \in Int, NEW c, c = Changes(Over(Only(a, k), Only(b, m)))
  PROVE  /\ DOMAIN c \subseteq {a, b} /\ Whole(c)
         /\ k # karma[a] => a \in DOMAIN c /\ c[a].seen = karma[a] /\ c[a].karma = k
         /\ m # karma[b] => b \in DOMAIN c /\ c[b].seen = karma[b] /\ c[b].karma = m
<1> PICK to : to = Over(Only(a, k), Only(b, m))
  OBVIOUS
<1>1. DOMAIN to = {a, b} /\ to[a] = k /\ to[b] = m
  BY DEF Over, Only
<1>2. DOMAIN to \subseteq Known /\ \A x \in DOMAIN to : to[x] \in Int
  BY <1>1
<1>3. /\ DOMAIN c \subseteq DOMAIN to /\ Whole(c)
      /\ \A x \in DOMAIN to : to[x] # karma[x] =>
           x \in DOMAIN c /\ c[x].seen = karma[x] /\ c[x].karma = to[x]
  BY <1>2, ChangesKnown
<1> QED
  BY <1>1, <1>3

LEMMA NoChangeIsWhole == DOMAIN NoChange = {} /\ Whole(NoChange)
BY DEF NoChange, Whole


LEMMA KarmaLogin ==
  ASSUME KarmaInv, UNCHANGED poll, NEW h \in Handlers, NEW a \in Agents, Login(h, a)
  PROVE  KarmaInv'
<1> PICK c : c = NoChange
  OBVIOUS
<1> PICK s : s = [at |-> "login", id |-> 0, row |-> [agent |-> a], changes |-> c]
  OBVIOUS
<1>1. s.at = "login" /\ s.row.agent = a /\ s.changes = c
  OBVIOUS
<1>2. KarmaSession(s)
  BY <1>1, NoChangeIsWhole DEF KarmaSession, LoginOk
<1> QED
  BY <1>2, KarmaDecides DEF Login

LEMMA KarmaPenalize ==
  ASSUME KarmaInv, UNCHANGED poll, NEW h \in Handlers, NEW a \in Agents, Penalize(h, a)
  PROVE  KarmaInv'
<1> PICK k : k = Floor(karma[a] - Penalty)
  OBVIOUS
<1> PICK c : c = Changes(Only(a, k))
  OBVIOUS
<1> PICK s : s = [at |-> "penalize", id |-> 0, row |-> [agent |-> a], changes |-> c]
  OBVIOUS
<1>1. s.at = "penalize" /\ s.row.agent = a /\ s.changes = c
  OBVIOUS
<1>2. KarmaTypes /\ a \in Known
  BY DEF KarmaInv, Penalize
<1>3. k \in Int
  <2>1. karma[a] \in Int /\ Penalty \in Nat
    BY <1>2, ColdStartAssumption DEF KarmaTypes
  <2> QED
    BY <2>1 DEF Floor
<1>4. DOMAIN c \subseteq {a} /\ Whole(c)
  BY <1>2, <1>3, ChangesOnly
<1>5. KarmaSession(s)
  BY <1>1, <1>4 DEF KarmaSession, PenalizeOk
<1> QED
  BY <1>5, KarmaDecides DEF Penalize

LEMMA KarmaDeposits ==
  ASSUME KarmaInv, UNCHANGED poll, NEW h \in Handlers, NEW a \in Agents,
         NEW large \in BOOLEAN, DepositCollateral(h, a, large)
  PROVE  KarmaInv'
<1> PICK c : c = IF large THEN Changes(Only(a, karma[a] + 10)) ELSE NoChange
  OBVIOUS
<1> PICK row : row = [agent |-> a, large |-> large, status |-> "locked"]
  OBVIOUS
<1> PICK f : f = has_collateral[row.agent]
  OBVIOUS
<1> PICK s : s = [at |-> "deposit", id |-> 0, row |-> row, changes |-> c,
                  flag |-> TRUE, loaded |-> f]
  OBVIOUS
<1>1. s.at = "deposit" /\ s.row = row /\ s.changes = c
  OBVIOUS
<1>2. KarmaTypes /\ a \in Known
  BY DEF KarmaInv, DepositCollateral
<1>3. /\ row \in DepositRows /\ row.agent = a /\ row.large = large
      /\ row.status = "locked"
  BY DEF DepositRows
<1>4. Whole(c) /\ (large => Raises(c, a, 10)) /\ DOMAIN c \subseteq IF large THEN {a} ELSE {}
  <2>1. CASE ~large
    BY <2>1, NoChangeIsWhole
  <2>2. CASE large
    <3>1. karma[a] \in Int
      BY <1>2 DEF KarmaTypes
    <3> PICK k : k = karma[a] + 10
      OBVIOUS
    <3>2. k \in Int /\ k # karma[a]
      BY <3>1
    <3>3. c = Changes(Only(a, k))
      BY <2>2
    <3>4. /\ DOMAIN c \subseteq {a} /\ Whole(c)
          /\ a \in DOMAIN c /\ c[a].seen = karma[a] /\ c[a].karma = k
      BY <1>2, <3>2, <3>3, ChangesOnly
    <3> QED
      BY <2>2, <3>4 DEF Raises
  <2> QED
    BY <2>1, <2>2
<1>5. DepositOk(s)
  BY <1>1, <1>2, <1>3, <1>4 DEF DepositOk
<1>6. KarmaSession(s)
  BY <1>1, <1>4, <1>5 DEF KarmaSession
<1>7. DecideFlag(h, "deposit", 0, row, c, TRUE)
  BY DEF DepositCollateral
<1> QED
  BY <1>6, <1>7, KarmaDecidesFlag

LEMMA KarmaVouches ==
  ASSUME KarmaInv, UNCHANGED poll, NEW h \in Handlers, NEW a \in Agents,
         NEW b \in Agents, NEW bounty \in Bounties \cup {NoBounty},
         CreateVouch(h, a, b, bounty)
  PROVE  KarmaInv'
<1> PICK elite : elite = (karma[a] >= 25)
  OBVIOUS
<1> PICK c : c = IF elite THEN Changes(Only(a, karma[a] + 5)) ELSE NoChange
  OBVIOUS
<1> PICK row : row = [by |-> a, for |-> b, bounty |-> bounty, status |-> "active",
                      elite |-> elite, count |-> vouched_by_count[b] + 1]
  OBVIOUS
<1> PICK s : s = [at |-> "vouch", id |-> 0, row |-> row, changes |-> c]
  OBVIOUS
<1>1. s.at = "vouch" /\ s.row = row /\ s.changes = c
  OBVIOUS
<1>2. KarmaTypes /\ a \in Known /\ b \in Known /\ a # b
  BY DEF KarmaInv, CreateVouch
<1>3. karma[a] \in Int /\ vouched_by_count[b] \in Int
  BY <1>2 DEF KarmaTypes
<1>4. elite \in BOOLEAN /\ vouched_by_count[b] + 1 \in Int
  BY <1>3
<1>5. /\ row \in VouchRows /\ row.by = a /\ row.for = b /\ row.elite = elite
      /\ row.status = "active"
  BY <1>2, <1>4 DEF VouchRows
<1>6. Whole(c) /\ (elite => Raises(c, a, 5)) /\ DOMAIN c \subseteq IF elite THEN {a} ELSE {}
  <2>1. CASE ~elite
    BY <2>1, NoChangeIsWhole
  <2>2. CASE elite
    <3> PICK k : k = karma[a] + 5
      OBVIOUS
    <3>1. k \in Int /\ k # karma[a]
      BY <1>3
    <3>2. c = Changes(Only(a, k))
      BY <2>2
    <3>3. /\ DOMAIN c \subseteq {a} /\ Whole(c)
          /\ a \in DOMAIN c /\ c[a].seen = karma[a] /\ c[a].karma = k
      BY <1>2, <3>1, <3>2, ChangesOnly
    <3> QED
      BY <2>2, <3>3 DEF Raises
  <2> QED
    BY <2>1, <2>2
<1>7. VouchOk(s)
  BY <1>1, <1>2, <1>5, <1>6 DEF VouchOk
<1>8. KarmaSession(s)
  BY <1>1, <1>6, <1>7 DEF KarmaSession
<1>9. Decide(h, "vouch", 0, row, c)
  BY DEF CreateVouch
<1> QED
  BY <1>8, <1>9, KarmaDecides

LEMMA KarmaReleases ==
  ASSUME KarmaInv, UNCHANGED poll, NEW h \in Handlers, NEW i \in DOMAIN deposits,
         NEW outcome \in {"released", "slashed"}, ReleaseCollateral(h, i, outcome)
  PROVE  KarmaInv'
<1> PICK d : d = deposits[i]
  OBVIOUS
<1> PICK a : a = d.agent
  OBVIOUS
<1> PICK by : by = IF outcome = "released" THEN 15 ELSE -5
  OBVIOUS
<1> PICK k : k = karma[a] + by
  OBVIOUS
<1> PICK c : c = Changes(Only(a, k))
  OBVIOUS
<1> PICK row : row = [d EXCEPT !.status = outcome]
  OBVIOUS
<1> PICK at : at = IF outcome = "released" THEN "look" ELSE "release"
  OBVIOUS
<1> PICK f : f = has_collateral[a]
  OBVIOUS
<1> PICK s : s = [at |-> at, id |-> i, row |-> row, changes |-> c,
                  flag |-> f, loaded |-> f]
  OBVIOUS
<1>1. s.at \in {"look", "release"} /\ s.id = i /\ s.row = row /\ s.changes = c
  OBVIOUS
<1>2. KarmaTypes /\ a \in Known /\ d \in DepositRows
  <2>1. KarmaTypes
    BY DEF KarmaInv
  <2>2. a \in Known
    BY <2>1 DEF KarmaTypes
  <2>3. d \in DepositRows
    BY <2>1, LenProperties, ElementOfSeq DEF KarmaTypes
  <2> QED
    BY <2>1, <2>2, <2>3
<1>3. /\ row \in DepositRows /\ row.agent = a /\ row.large = d.large
      /\ row.status = outcome
  BY <1>2 DEF DepositRows
<1>4. by \in Int /\ by # 0
  <2>1. -5 \in Int /\ -5 # 0
    OBVIOUS
  <2> QED
    BY <2>1
<1>5. k \in Int /\ k # karma[a] /\ k = karma[a] + by
  <2>1. karma[a] \in Int
    BY <1>2 DEF KarmaTypes
  <2> QED
    BY <1>4, <2>1
<1>6. Whole(c) /\ Raises(c, a, by) /\ DOMAIN c \subseteq {a}
  <2>1. /\ DOMAIN c \subseteq {a} /\ Whole(c)
        /\ a \in DOMAIN c /\ c[a].seen = karma[a] /\ c[a].karma = k
    BY <1>2, <1>5, ChangesOnly
  <2> QED
    BY <1>5, <2>1 DEF Raises
<1>7. DecideFlag(h, at, i, row, c, f)
  <2>1. CASE outcome = "released"
    BY <2>1 DEF ReleaseCollateral
  <2>2. CASE outcome = "slashed"
    <3>1. karma[a] - 5 = k
      <4>1. karma[a] \in Int
        BY <1>2 DEF KarmaTypes
      <4> QED
        BY <2>2, <4>1
    <3> QED
      BY <2>2, <3>1 DEF ReleaseCollateral
  <2> QED
    BY <2>1, <2>2
<1>8. ReleaseOk(s)
  BY <1>1, <1>3, <1>6 DEF ReleaseOk
<1>9. KarmaSession(s)
  BY <1>1, <1>6, <1>8 DEF KarmaSession
<1> QED
  BY <1>3, <1>7, <1>9, KarmaDecidesFlag

\* A session that has looked moves the karma it was going to move.
LEMMA KarmaLooks ==
  ASSUME KarmaInv, UNCHANGED poll, NEW h \in Handlers, LookForLocked(h)
  PROVE  KarmaInv'
<1> PICK q : q = handler[h]
  OBVIOUS
<1> PICK f : f = IF Locked(q.row.agent) = {} THEN FALSE ELSE q.flag
  OBVIOUS
<1> PICK s : s = [at |-> "release", id |-> q.id, row |-> q.row, changes |-> q.changes,
                  flag |-> f, loaded |-> q.loaded]
  OBVIOUS
<1>1. /\ UNCHANGED worth /\ handler' = [handler EXCEPT ![h] = s] /\ q.at = "look"
  BY DEF LookForLocked, Looked, worth, tables, histories
<1>2. ReleaseOk(q) /\ Whole(q.changes)
  BY <1>1 DEF KarmaInv, KarmaSession
<1>3. /\ s.at = "release" /\ s.id = q.id /\ s.row = q.row /\ s.changes = q.changes
  OBVIOUS
<1>4. KarmaSession(s)
  BY <1>2, <1>3 DEF KarmaSession, ReleaseOk
<1> QED
  BY <1>1, <1>4, KarmaHandler

LEMMA KarmaResolves ==
  ASSUME KarmaInv, UNCHANGED poll, NEW h \in Handlers, NEW i \in DOMAIN vouches,
         NEW outcome \in {"resolved", "slashed", "expired"}, ResolveVouch(h, i, outcome)
  PROVE  KarmaInv'
<1> PICK v : v = vouches[i]
  OBVIOUS
<1> PICK a : a = v.by
  OBVIOUS
<1> PICK b : b = v.for
  OBVIOUS
<1> PICK row : row = [v EXCEPT !.status = outcome]
  OBVIOUS
<1>1. KarmaTypes /\ a \in Known /\ b \in Known /\ v \in VouchRows /\ a # b
  <2>1. KarmaTypes
    BY DEF KarmaInv
  <2>2. a \in Known /\ b \in Known
    BY <2>1 DEF KarmaTypes
  <2>3. v \in VouchRows
    BY <2>1, LenProperties, ElementOfSeq DEF KarmaTypes
  <2> QED
    BY <2>1, <2>2, <2>3 DEF VouchRows
<1>2. /\ row \in VouchRows /\ row.by = a /\ row.for = b /\ row.elite = v.elite
      /\ row.status = outcome
  BY <1>1 DEF VouchRows
<1>3. karma[a] \in Int /\ karma[b] \in Int /\ Stake \in Nat
  BY <1>1, ColdStartAssumption DEF KarmaTypes
<1>4. ASSUME NEW c, Whole(c), Decide(h, "resolve", i, row, c),
             outcome = "resolved" => Raises(c, a, 5) /\ Raises(c, b, 3),
             outcome = "slashed" => Raises(c, b, -1),
             DOMAIN c \subseteq IF outcome = "expired" THEN {} ELSE {a, b}
      PROVE  KarmaInv'
  <2> PICK s : s = [at |-> "resolve", id |-> i, row |-> row, changes |-> c]
    OBVIOUS
  <2>1. s.at = "resolve" /\ s.id = i /\ s.row = row /\ s.changes = c
    OBVIOUS
  <2>2. ResolveOk(s)
    BY <1>2, <1>4, <2>1 DEF ResolveOk
  <2>3. KarmaSession(s)
    BY <1>4, <2>1, <2>2 DEF KarmaSession
  <2> QED
    BY <1>4, <2>3, KarmaDecides
<1>5. CASE outcome = "resolved"
  <2> PICK k : k = karma[a] + 5
    OBVIOUS
  <2> PICK m : m = karma[b] + 3
    OBVIOUS
  <2> PICK c : c = Changes(Over(Only(a, k), Only(b, m)))
    OBVIOUS
  <2>1. k \in Int /\ m \in Int /\ k # karma[a] /\ m # karma[b]
    BY <1>3
  <2>2. /\ DOMAIN c \subseteq {a, b} /\ Whole(c)
        /\ a \in DOMAIN c /\ c[a].seen = karma[a] /\ c[a].karma = k
        /\ b \in DOMAIN c /\ c[b].seen = karma[b] /\ c[b].karma = m
    BY <1>1, <2>1, ChangesTwo
  <2>3. Raises(c, a, 5) /\ Raises(c, b, 3)
    BY <2>2 DEF Raises
  <2>4. Decide(h, "resolve", i, row, c)
    BY <1>5 DEF ResolveVouch
  <2> QED
    BY <1>4, <1>5, <2>2, <2>3, <2>4
<1>6. CASE outcome = "slashed"
  <2> PICK k : k = Floor(karma[a] - Stake)
    OBVIOUS
  <2> PICK m : m = karma[b] - 1
    OBVIOUS
  <2> PICK c : c = Changes(Over(Only(a, k), Only(b, m)))
    OBVIOUS
  <2>1. k \in Int /\ m \in Int /\ m # karma[b] /\ m = karma[b] + (-1)
    BY <1>3 DEF Floor
  <2>2. /\ DOMAIN c \subseteq {a, b} /\ Whole(c)
        /\ b \in DOMAIN c /\ c[b].seen = karma[b] /\ c[b].karma = m
    BY <1>1, <2>1, ChangesTwo
  <2>3. Raises(c, b, -1)
    BY <2>1, <2>2 DEF Raises
  <2>4. Decide(h, "resolve", i, row, c)
    BY <1>6 DEF ResolveVouch
  <2> QED
    BY <1>4, <1>6, <2>2, <2>3, <2>4
<1>7. CASE outcome = "expired"
  <2>1. Decide(h, "resolve", i, row, NoChange)
    BY <1>7 DEF ResolveVouch
  <2> QED
    BY <1>4, <1>7, <2>1, NoChangeIsWhole
<1> QED
  BY <1>5, <1>6, <1>7

-----------------------------------------------------------------------------
(* The commits.                                                            *)

LEMMA SettlesFrame ==
  ASSUME KarmaInv, RowsStay, KarmaTypes', \A a \in Known' \ raced' : Balanced(a)',
         NEW h \in Handlers, handler' = [handler EXCEPT ![h] = Idle], UNCHANGED poll
  PROVE  KarmaInv'
<1>1. /\ handler' = [k \in Handlers |-> handler'[k]]
      /\ \A k \in Handlers : handler'[k] = IF k = h THEN Idle ELSE handler[k]
      /\ poll' = [p \in Pollers |-> poll'[p]]
      /\ \A p \in Pollers : poll'[p] = poll[p]
  BY DEF KarmaInv
<1>2. KarmaSession(Idle)
  BY OtherKarmaSession DEF Idle, Commits
<1>3. KarmaSession(Idle)'
  BY <1>2, KarmaSessionStays
<1> QED
  BY <1>1, <1>2, KarmaFrame

\* An agent without a row is in no row.
LEMMA NobodysWorth ==
  ASSUME KarmaTypes, NEW a, a \notin Known
  PROVE  /\ ByDeposits(a, deposits) = 0 /\ ByVouches(a, vouches) = 0
         /\ CountIn(vouches, For(a)) = 0
<1>1. \A R : (\A i \in DOMAIN deposits : deposits[i] \notin R) => CountIn(deposits, R) = 0
  BY FS_EmptySet DEF CountIn
<1>2. \A R : (\A i \in DOMAIN vouches : vouches[i] \notin R) => CountIn(vouches, R) = 0
  BY FS_EmptySet DEF CountIn
<1>3. /\ CountIn(deposits, Large(a)) = 0 /\ CountIn(deposits, EndedAs(a, "released")) = 0
      /\ CountIn(deposits, EndedAs(a, "slashed")) = 0
  <2>1. \A i \in DOMAIN deposits : deposits[i].agent # a
    BY DEF KarmaTypes
  <2> QED
    BY <1>1, <2>1 DEF Large, EndedAs
<1>4. /\ CountIn(vouches, Elite(a)) = 0 /\ CountIn(vouches, Given(a, "resolved")) = 0
      /\ CountIn(vouches, Got(a, "resolved")) = 0 /\ CountIn(vouches, Got(a, "slashed")) = 0
      /\ CountIn(vouches, For(a)) = 0
  <2>1. \A i \in DOMAIN vouches : vouches[i].by # a /\ vouches[i].for # a
    BY DEF KarmaTypes
  <2> QED
    BY <1>2, <2>1 DEF Elite, Given, Got, For
<1> QED
  BY <1>3, <1>4 DEF ByDeposits, ByVouches

LEMMA CommitLogin ==
  ASSUME KarmaInv, UNCHANGED poll, NEW h \in Handlers, Commit(h), handler[h].at = "login"
  PROVE  KarmaInv'
<1> PICK s : s = handler[h]
  OBVIOUS
<1> PICK a : a = s.row.agent
  OBVIOUS
<1>1. KarmaTypes /\ KarmaSession(s)
  BY DEF KarmaInv
<1>2. a \in Agents /\ DOMAIN s.changes = {}
  BY <1>1 DEF KarmaSession, LoginOk
<1>3. /\ s.at = "login" /\ ~Duplicate(s)
      /\ karma' = Over(Only(a, NewKarma), karma)
      /\ vouched_by_count' = vouched_by_count
      /\ deposits' = deposits /\ vouches' = vouches
      /\ handler' = [handler EXCEPT ![h] = Idle]
      /\ fined' = Fine({}, s.changes)
      /\ raced \subseteq raced'
  BY DEF Commit, DepositsAfter, VouchesAfter, Fines
<1>4. a \notin Known
  BY <1>3 DEF Duplicate
<1>5. fined' = fined
  BY <1>1, <1>3 DEF Fine, KarmaTypes
<1>6. /\ Known' = Known \cup {a} /\ karma'[a] = 25
      /\ \A b \in Known : karma'[b] = karma[b]
      /\ karma' = [b \in Known \cup {a} |-> IF b = a THEN 25 ELSE karma[b]]
  BY <1>3, <1>4 DEF Over, Only, Known, NewKarma
<1>7. KarmaTypes'
  <2>1. karma' \in [Known' -> Int]
    BY <1>1, <1>6 DEF KarmaTypes
  <2> QED
    BY <1>1, <1>2, <1>3, <1>5, <1>6, <2>1 DEF KarmaTypes
<1>8. RowsStay
  BY <1>3, <1>6 DEF RowsStay
<1>9. ASSUME NEW b \in Known' \ raced' PROVE Balanced(b)'
  <2>1. CASE b \in Known
    <3>1. Balanced(b)
      BY <1>3, <1>9, <2>1 DEF KarmaInv
    <3> QED
      BY <1>3, <1>5, <1>6, <2>1, <3>1 DEF Balanced
  <2>2. CASE b = a
    <3>1. /\ ByDeposits(a, deposits) = 0 /\ ByVouches(a, vouches) = 0
          /\ CountIn(vouches, For(a)) = 0
      BY <1>1, <1>4, NobodysWorth
    <3>2. fined[a] = 0 /\ vouched_by_count[a] = 0 /\ a \notin Veterans
      BY <1>1, <1>2, <1>4 DEF KarmaTypes
    <3> QED
      BY <1>3, <1>5, <1>6, <2>2, <3>1, <3>2 DEF Balanced, Start, NewKarma
  <2> QED
    BY <1>6, <1>9, <2>1, <2>2
<1> QED
  BY <1>3, <1>7, <1>8, <1>9, SettlesFrame


\* What every other commit writes.
LEMMA CommitWrites ==
  ASSUME KarmaInv, NEW h \in Handlers, Commit(h), handler[h].at # "login",
         NEW s, s = handler[h], NEW c, c = s.changes
  PROVE  /\ KarmaTypes /\ KarmaSession(s) /\ Whole(c)
         /\ karma' = KarmaAfter(c) /\ fined' = Fine(Fines(s), c)
         /\ raced' = raced \cup Overwritten(c) \cup Again(s)
         /\ handler' = [handler EXCEPT ![h] = Idle]
         /\ deposits' = DepositsAfter(s) /\ vouches' = VouchesAfter(s)
<1>1. KarmaTypes /\ KarmaSession(s)
  BY DEF KarmaInv
<1>2. s.at \in Commits
  BY DEF Commit
<1>3. Whole(c)
  BY <1>1, <1>2 DEF KarmaSession
<1> QED
  BY <1>1, <1>3 DEF Commit

LEMMA TypesAfter ==
  ASSUME KarmaTypes, NEW c, Whole(c), NEW agents,
         karma' = KarmaAfter(c), fined' = Fine(agents, c),
         deposits' \in Seq(DepositRows), vouches' \in Seq(VouchRows),
         \A i \in DOMAIN deposits' : deposits'[i].agent \in Known,
         \A i \in DOMAIN vouches' : vouches'[i].by \in Known /\ vouches'[i].for \in Known,
         vouched_by_count' \in [Agents -> Int],
         \A a \in Agents \ Known : vouched_by_count'[a] = vouched_by_count[a]
  PROVE  KarmaTypes' /\ Known' = Known
<1>1. /\ Known' = Known /\ karma' \in [Known -> Int] /\ fined' \in [Agents -> Int]
      /\ \A a \in Agents \ Known : fined'[a] = fined[a]
  BY KarmaMoves
<1>2. /\ Known \subseteq Agents /\ Veterans \subseteq Known
      /\ \A a \in Agents \ Known : fined[a] = 0 /\ vouched_by_count[a] = 0
  BY DEF KarmaTypes
<1>3. /\ deposits' \in Seq(DepositRows) /\ vouches' \in Seq(VouchRows)
  OBVIOUS
<1> QED
  BY <1>1, <1>2, <1>3 DEF KarmaTypes, DepositRows, VouchRows

\* A commit of changes to karma alone, apart from fines.
LEMMA CommitPenalize ==
  ASSUME KarmaInv, UNCHANGED poll, NEW h \in Handlers, Commit(h),
         handler[h].at = "penalize"
  PROVE  KarmaInv'
<1> PICK s : s = handler[h]
  OBVIOUS
<1> PICK c : c = s.changes
  OBVIOUS
<1> PICK x : x = s.row.agent
  OBVIOUS
<1>1. /\ KarmaTypes /\ KarmaSession(s) /\ Whole(c)
      /\ karma' = KarmaAfter(c) /\ fined' = Fine(Fines(s), c)
      /\ raced' = raced \cup Overwritten(c) \cup Again(s)
      /\ handler' = [handler EXCEPT ![h] = Idle]
      /\ deposits' = DepositsAfter(s) /\ vouches' = VouchesAfter(s)
  BY CommitWrites
<1>2. /\ Fines(s) = {x} /\ deposits' = deposits /\ vouches' = vouches
      /\ vouched_by_count' = vouched_by_count
  BY <1>1 DEF Commit, Fines, DepositsAfter, VouchesAfter
<1>3. DOMAIN c \subseteq {x}
  BY <1>1 DEF KarmaSession, PenalizeOk
<1>4. KarmaTypes' /\ Known' = Known
  BY <1>1, <1>2, TypesAfter DEF KarmaTypes
<1>5. ASSUME NEW a \in Known \ raced'
      PROVE  /\ ByDeposits(a, deposits') + ByVouches(a, vouches') =
                  ByDeposits(a, deposits) + ByVouches(a, vouches) + Shift(c, Fines(s), a)
             /\ vouched_by_count'[a] = CountIn(vouches', For(a))
  <2>1. Shift(c, Fines(s), a) = 0
    BY <1>2, <1>3 DEF Shift
  <2>2. ByDeposits(a, deposits) \in Int /\ ByVouches(a, vouches) \in Int
    BY <1>1, WorthIsWhole DEF KarmaTypes
  <2>3. Balanced(a)
    BY <1>1, <1>5 DEF KarmaInv
  <2> QED
    BY <1>2, <2>1, <2>2, <2>3 DEF Balanced
<1>6. \A a \in Known' \ raced' : Balanced(a)'
  BY <1>1, <1>4, <1>5, CommitBalances
<1>7. RowsStay
  BY <1>2, <1>4 DEF RowsStay
<1> QED
  BY <1>1, <1>4, <1>6, <1>7, SettlesFrame

LEMMA CommitDeposit ==
  ASSUME KarmaInv, UNCHANGED poll, NEW h \in Handlers, Commit(h),
         handler[h].at = "deposit"
  PROVE  KarmaInv'
<1> PICK s : s = handler[h]
  OBVIOUS
<1> PICK c : c = s.changes
  OBVIOUS
<1> PICK row : row = s.row
  OBVIOUS
<1>1. /\ KarmaTypes /\ KarmaSession(s) /\ Whole(c)
      /\ karma' = KarmaAfter(c) /\ fined' = Fine(Fines(s), c)
      /\ raced' = raced \cup Overwritten(c) \cup Again(s)
      /\ handler' = [handler EXCEPT ![h] = Idle]
      /\ deposits' = DepositsAfter(s) /\ vouches' = VouchesAfter(s)
  BY CommitWrites
<1>2. /\ Fines(s) = {} /\ deposits' = Append(deposits, row) /\ vouches' = vouches
      /\ vouched_by_count' = vouched_by_count
  BY <1>1 DEF Commit, Fines, DepositsAfter, VouchesAfter
<1>3. /\ row \in DepositRows /\ row.agent \in Known /\ row.status = "locked"
      /\ row.large => Raises(c, row.agent, 10)
      /\ DOMAIN c \subseteq IF row.large THEN {row.agent} ELSE {}
  BY <1>1 DEF KarmaSession, DepositOk
<1> PICK n : n = Len(deposits)
  OBVIOUS
<1>4. /\ n \in Nat /\ DOMAIN deposits = 1 .. n
      /\ deposits' \in Seq(DepositRows) /\ DOMAIN deposits' = 1 .. n + 1
      /\ deposits'[n + 1] = row
      /\ \A i \in 1 .. n : deposits'[i] = deposits[i]
  <2>1. deposits \in Seq(DepositRows)
    BY <1>1 DEF KarmaTypes
  <2>2. /\ Append(deposits, row) \in Seq(DepositRows)
        /\ Len(Append(deposits, row)) = n + 1
        /\ Append(deposits, row)[n + 1] = row
        /\ \A i \in 1 .. n : Append(deposits, row)[i] = deposits[i]
    BY <1>3, <2>1, AppendProperties
  <2>3. n \in Nat /\ DOMAIN deposits = 1 .. n
    BY <2>1, LenProperties
  <2>4. DOMAIN Append(deposits, row) = 1 .. n + 1
    BY <2>2, LenProperties
  <2> QED
    BY <1>2, <2>2, <2>3, <2>4
<1>5. \A i \in DOMAIN deposits' : deposits'[i].agent \in Known
  <2>1. \A i \in DOMAIN deposits' : i \in 1 .. n \/ i = n + 1
    BY <1>4
  <2>2. \A i \in 1 .. n : deposits[i].agent \in Known
    BY <1>1, <1>4 DEF KarmaTypes
  <2> QED
    BY <1>3, <1>4, <2>1, <2>2
<1>6. KarmaTypes' /\ Known' = Known
  BY <1>1, <1>2, <1>4, <1>5, TypesAfter DEF KarmaTypes
<1>7. ASSUME NEW a \in Known \ raced'
      PROVE  /\ ByDeposits(a, deposits') + ByVouches(a, vouches') =
                  ByDeposits(a, deposits) + ByVouches(a, vouches) + Shift(c, Fines(s), a)
             /\ vouched_by_count'[a] = CountIn(vouches', For(a))
  <2> PICK e : e = IF row.agent = a /\ row.large THEN 10 ELSE 0
    OBVIOUS
  <2>1. Shift(c, Fines(s), a) = e
    <3>1. CASE row.agent = a /\ row.large
      <4>1. a \in DOMAIN c /\ c[a].karma = c[a].seen + 10 /\ c[a].seen \in Int
        BY <1>1, <1>3, <3>1 DEF Raises, Whole
      <4> QED
        BY <1>2, <3>1, <4>1 DEF Shift
    <3>2. CASE ~(row.agent = a /\ row.large)
      BY <1>3, <3>2 DEF Shift
    <3> QED
      BY <3>1, <3>2
  <2>2. ByDeposits(a, deposits) \in Int /\ ByVouches(a, vouches) \in Int
    BY <1>1, WorthIsWhole DEF KarmaTypes
  <2>3. ByDeposits(a, deposits') = ByDeposits(a, deposits) + e
    BY <1>1, <1>2, <1>3, DepositAdded DEF KarmaTypes
  <2>4. Balanced(a)
    BY <1>1, <1>7 DEF KarmaInv
  <2>5. e \in Int
    OBVIOUS
  <2>6. ByDeposits(a, deposits') + ByVouches(a, vouches') =
          ByDeposits(a, deposits) + ByVouches(a, vouches) + e
    BY <1>2, <2>2, <2>3, <2>5
  <2> QED
    BY <1>2, <2>1, <2>4, <2>6 DEF Balanced
<1>8. \A a \in Known' \ raced' : Balanced(a)'
  BY <1>1, <1>6, <1>7, CommitBalances
<1>9. RowsStay
  <2>1. \A i \in DOMAIN deposits : i \in DOMAIN deposits' /\ deposits'[i] = deposits[i]
    BY <1>4
  <2> QED
    BY <1>2, <1>6, <2>1 DEF RowsStay
<1> QED
  BY <1>1, <1>6, <1>8, <1>9, SettlesFrame


\* A row that is replaced stays a row of the table.
LEMMA PutIsRow ==
  ASSUME NEW T, NEW q \in Seq(T), NEW k \in DOMAIN q, NEW x \in T
  PROVE  Put(q, k, x) \in Seq(T)
<1>1. DOMAIN q = 1 .. Len(q)
  BY LenProperties
<1> QED
  BY <1>1, ExceptSeq DEF Put

LEMMA CommitRelease ==
  ASSUME KarmaInv, UNCHANGED poll, NEW h \in Handlers, Commit(h),
         handler[h].at = "release"
  PROVE  KarmaInv'
<1> PICK s : s = handler[h]
  OBVIOUS
<1> PICK c : c = s.changes
  OBVIOUS
<1> PICK row : row = s.row
  OBVIOUS
<1> PICK k : k = s.id
  OBVIOUS
<1>1. /\ KarmaTypes /\ KarmaSession(s) /\ Whole(c)
      /\ karma' = KarmaAfter(c) /\ fined' = Fine(Fines(s), c)
      /\ raced' = raced \cup Overwritten(c) \cup Again(s)
      /\ handler' = [handler EXCEPT ![h] = Idle]
      /\ deposits' = DepositsAfter(s) /\ vouches' = VouchesAfter(s)
  BY CommitWrites
<1>2. /\ Fines(s) = {} /\ vouches' = vouches /\ vouched_by_count' = vouched_by_count
      /\ deposits' = Put(deposits, k, row)
  BY <1>1 DEF Commit, Fines, DepositsAfter, VouchesAfter, Put
<1>3. /\ k \in DOMAIN deposits /\ row \in DepositRows /\ row.status # "locked"
      /\ row.agent = deposits[k].agent /\ row.large = deposits[k].large
      /\ Raises(c, row.agent, IF row.status = "released" THEN 15 ELSE -5)
      /\ DOMAIN c \subseteq {row.agent}
  BY <1>1 DEF KarmaSession, ReleaseOk
<1>4. deposits \in Seq(DepositRows) /\ \A i \in DOMAIN deposits : deposits[i].agent \in Known
  BY <1>1 DEF KarmaTypes
<1>5. /\ deposits' \in Seq(DepositRows) /\ DOMAIN deposits' = DOMAIN deposits
      /\ deposits'[k] = row
      /\ \A i \in DOMAIN deposits : i # k => deposits'[i] = deposits[i]
  <2>1. Put(deposits, k, row) \in Seq(DepositRows)
    BY <1>3, <1>4, PutIsRow
  <2> QED
    BY <1>2, <1>3, <2>1 DEF Put
<1>6. \A i \in DOMAIN deposits' : deposits'[i].agent \in Known
  BY <1>3, <1>4, <1>5
<1>7. KarmaTypes' /\ Known' = Known
  BY <1>1, <1>2, <1>5, <1>6, TypesAfter DEF KarmaTypes
<1>8. ASSUME NEW a \in Known \ raced'
      PROVE  /\ ByDeposits(a, deposits') + ByVouches(a, vouches') =
                  ByDeposits(a, deposits) + ByVouches(a, vouches) + Shift(c, Fines(s), a)
             /\ vouched_by_count'[a] = CountIn(vouches', For(a))
  <2>1. ByDeposits(a, deposits) \in Int /\ ByVouches(a, vouches) \in Int
    BY <1>1, WorthIsWhole DEF KarmaTypes
  <2>2. Balanced(a)
    BY <1>1, <1>8 DEF KarmaInv
  <2>3. CASE row.agent = a
    <3> PICK e : e = EndWorth(row)
      OBVIOUS
    <3>1. e \in Int
      <4>1. -5 \in Int
        OBVIOUS
      <4> QED
        BY <4>1 DEF EndWorth
    <3>2. Shift(c, Fines(s), a) = e
      <4>1. a \in DOMAIN c /\ c[a].karma = c[a].seen + e /\ c[a].seen \in Int
        BY <1>1, <1>3, <2>3 DEF Raises, Whole, EndWorth
      <4>2. c[a].karma - c[a].seen = e
        BY <3>1, <4>1
      <4> QED
        BY <1>2, <4>1, <4>2 DEF Shift
    <3>3. deposits[k].status = "locked"
      BY <1>1, <1>8, <2>3 DEF Again, Twice
    <3>4. ByDeposits(a, deposits') = ByDeposits(a, deposits) + e
      <4>1. ByDeposits(a, Put(deposits, k, row)) =
              ByDeposits(a, deposits) + EndWorth(row)
        <5>1. /\ deposits \in Seq(DepositRows) /\ k \in DOMAIN deposits
              /\ row \in DepositRows /\ row.status # "locked"
              /\ row.agent = deposits[k].agent /\ row.large = deposits[k].large
          BY <1>3, <1>4
        <5>2. row.agent = a
          BY <2>3
        <5> QED
          BY <3>3, <5>1, <5>2, DepositEnded
      <4> QED
        BY <1>2, <4>1
    <3>5. ByDeposits(a, deposits') + ByVouches(a, vouches') =
            ByDeposits(a, deposits) + ByVouches(a, vouches) + e
      BY <1>2, <2>1, <3>1, <3>4
    <3> QED
      BY <1>2, <2>2, <3>2, <3>5 DEF Balanced
  <2>4. CASE row.agent # a
    <3>1. Shift(c, Fines(s), a) = 0
      BY <1>3, <2>4 DEF Shift
    <3>2. ByDeposits(a, deposits') = ByDeposits(a, deposits)
      BY <1>2, <1>3, <1>4, <2>4, DepositEnded
    <3> QED
      BY <1>2, <2>1, <2>2, <3>1, <3>2 DEF Balanced
  <2> QED
    BY <2>3, <2>4
<1>9. \A a \in Known' \ raced' : Balanced(a)'
  BY <1>1, <1>7, <1>8, CommitBalances
<1>10. RowsStay
  BY <1>2, <1>3, <1>5, <1>7 DEF RowsStay
<1> QED
  BY <1>1, <1>7, <1>9, <1>10, SettlesFrame

LEMMA CommitVouch ==
  ASSUME KarmaInv, UNCHANGED poll, NEW h \in Handlers, Commit(h),
         handler[h].at = "vouch"
  PROVE  KarmaInv'
<1> PICK s : s = handler[h]
  OBVIOUS
<1> PICK c : c = s.changes
  OBVIOUS
<1> PICK row : row = s.row
  OBVIOUS
<1>1. /\ KarmaTypes /\ KarmaSession(s) /\ Whole(c)
      /\ karma' = KarmaAfter(c) /\ fined' = Fine(Fines(s), c)
      /\ raced' = raced \cup Overwritten(c) \cup Again(s)
      /\ handler' = [handler EXCEPT ![h] = Idle]
      /\ deposits' = DepositsAfter(s) /\ vouches' = VouchesAfter(s)
  BY CommitWrites
<1>2. /\ Fines(s) = {} /\ deposits' = deposits /\ vouches' = Append(vouches, row)
      /\ vouched_by_count' = [vouched_by_count EXCEPT ![row.for] = row.count]
  BY <1>1 DEF Commit, Fines, DepositsAfter, VouchesAfter
<1>3. /\ row \in VouchRows /\ row.by \in Known /\ row.for \in Known
      /\ row.status = "active" /\ row.count \in Int
      /\ row.elite => Raises(c, row.by, 5)
      /\ DOMAIN c \subseteq IF row.elite THEN {row.by} ELSE {}
  BY <1>1 DEF KarmaSession, VouchOk, VouchRows
<1>4. vouches \in Seq(VouchRows)
  BY <1>1 DEF KarmaTypes
<1> PICK n : n = Len(vouches)
  OBVIOUS
<1>5. /\ n \in Nat /\ DOMAIN vouches = 1 .. n
      /\ vouches' \in Seq(VouchRows) /\ DOMAIN vouches' = 1 .. n + 1
      /\ vouches'[n + 1] = row
      /\ \A i \in 1 .. n : vouches'[i] = vouches[i]
  <2>1. /\ Append(vouches, row) \in Seq(VouchRows)
        /\ Len(Append(vouches, row)) = n + 1
        /\ Append(vouches, row)[n + 1] = row
        /\ \A i \in 1 .. n : Append(vouches, row)[i] = vouches[i]
    BY <1>3, <1>4, AppendProperties
  <2>2. n \in Nat /\ DOMAIN vouches = 1 .. n
    BY <1>4, LenProperties
  <2>3. DOMAIN Append(vouches, row) = 1 .. n + 1
    BY <2>1, LenProperties
  <2> QED
    BY <1>2, <2>1, <2>2, <2>3
<1>6. \A i \in DOMAIN vouches' : vouches'[i].by \in Known /\ vouches'[i].for \in Known
  <2>1. \A i \in DOMAIN vouches' : i \in 1 .. n \/ i = n + 1
    BY <1>5
  <2>2. \A i \in 1 .. n : vouches[i].by \in Known /\ vouches[i].for \in Known
    BY <1>1, <1>5 DEF KarmaTypes
  <2> QED
    BY <1>3, <1>5, <2>1, <2>2
<1>7. /\ vouched_by_count' \in [Agents -> Int]
      /\ \A a \in Agents : vouched_by_count'[a] =
           IF a = row.for THEN row.count ELSE vouched_by_count[a]
  <2>1. vouched_by_count \in [Agents -> Int] /\ Known \subseteq Agents
    BY <1>1 DEF KarmaTypes
  <2> QED
    BY <1>2, <1>3, <2>1
<1>8. KarmaTypes' /\ Known' = Known
  <2>1. deposits' \in Seq(DepositRows)
    BY <1>1, <1>2 DEF KarmaTypes
  <2>2. \A i \in DOMAIN deposits' : deposits'[i].agent \in Known
    BY <1>1, <1>2 DEF KarmaTypes
  <2>3. \A a \in Agents \ Known : vouched_by_count'[a] = vouched_by_count[a]
    BY <1>3, <1>7
  <2> QED
    BY <1>1, <1>5, <1>6, <1>7, <2>1, <2>2, <2>3, TypesAfter
<1>9. ASSUME NEW a \in Known \ raced'
      PROVE  /\ ByDeposits(a, deposits') + ByVouches(a, vouches') =
                  ByDeposits(a, deposits) + ByVouches(a, vouches) + Shift(c, Fines(s), a)
             /\ vouched_by_count'[a] = CountIn(vouches', For(a))
  <2> PICK e : e = IF row.by = a /\ row.elite THEN 5 ELSE 0
    OBVIOUS
  <2>1. Shift(c, Fines(s), a) = e
    <3>1. CASE row.by = a /\ row.elite
      <4>1. a \in DOMAIN c /\ c[a].karma = c[a].seen + 5 /\ c[a].seen \in Int
        BY <1>1, <1>3, <3>1 DEF Raises, Whole
      <4> QED
        BY <1>2, <3>1, <4>1 DEF Shift
    <3>2. CASE ~(row.by = a /\ row.elite)
      BY <1>3, <3>2 DEF Shift
    <3> QED
      BY <3>1, <3>2
  <2>2. ByDeposits(a, deposits) \in Int /\ ByVouches(a, vouches) \in Int
    BY <1>1, WorthIsWhole DEF KarmaTypes
  <2>3. /\ ByVouches(a, vouches') = ByVouches(a, vouches) + e
        /\ CountIn(vouches, For(a)) \in Nat
        /\ CountIn(vouches', For(a)) =
             CountIn(vouches, For(a)) + IF row.for = a THEN 1 ELSE 0
    BY <1>2, <1>3, <1>4, VouchAdded
  <2>4. vouched_by_count[a] = CountIn(vouches, For(a)) /\ a \in Agents
    BY <1>1, <1>9 DEF KarmaInv, Balanced, KarmaTypes
  <2>5. e \in Int
    OBVIOUS
  <2>6. ByDeposits(a, deposits') + ByVouches(a, vouches') =
          ByDeposits(a, deposits) + ByVouches(a, vouches) + e
    BY <1>2, <2>2, <2>3, <2>5
  <2>7. vouched_by_count'[a] = CountIn(vouches', For(a))
    <3>1. CASE row.for = a
      <4>1. vouched_by_count[a] + 1 = row.count
        BY <1>1, <1>9, <3>1 DEF Again
      <4> QED
        BY <1>7, <2>3, <2>4, <3>1, <4>1
    <3>2. CASE row.for # a
      BY <1>7, <2>3, <2>4, <3>2
    <3> QED
      BY <3>1, <3>2
  <2> QED
    BY <2>1, <2>6, <2>7
<1>10. \A a \in Known' \ raced' : Balanced(a)'
  BY <1>1, <1>8, <1>9, CommitBalances
<1>11. RowsStay
  <2>1. \A i \in DOMAIN vouches : i \in DOMAIN vouches' /\ vouches'[i] = vouches[i]
    BY <1>5
  <2> QED
    BY <1>2, <1>8, <2>1 DEF RowsStay
<1> QED
  BY <1>1, <1>8, <1>10, <1>11, SettlesFrame


LEMMA CommitResolve ==
  ASSUME KarmaInv, UNCHANGED poll, NEW h \in Handlers, Commit(h),
         handler[h].at = "resolve"
  PROVE  KarmaInv'
<1> PICK s : s = handler[h]
  OBVIOUS
<1> PICK c : c = s.changes
  OBVIOUS
<1> PICK row : row = s.row
  OBVIOUS
<1> PICK k : k = s.id
  OBVIOUS
<1>1. /\ KarmaTypes /\ KarmaSession(s) /\ Whole(c)
      /\ karma' = KarmaAfter(c) /\ fined' = Fine(Fines(s), c)
      /\ raced' = raced \cup Overwritten(c) \cup Again(s)
      /\ handler' = [handler EXCEPT ![h] = Idle]
      /\ deposits' = DepositsAfter(s) /\ vouches' = VouchesAfter(s)
  BY CommitWrites
<1>2. /\ Fines(s) = IF row.status = "slashed" THEN {row.by} ELSE {}
      /\ deposits' = deposits /\ vouched_by_count' = vouched_by_count
      /\ vouches' = Put(vouches, k, row)
  BY <1>1 DEF Commit, Fines, DepositsAfter, VouchesAfter, Put
<1>3. /\ k \in DOMAIN vouches /\ row \in VouchRows /\ row.status # "active"
      /\ row.by = vouches[k].by /\ row.for = vouches[k].for
      /\ row.elite = vouches[k].elite
  BY <1>1 DEF KarmaSession, ResolveOk
<1>4. /\ row.status = "resolved" => Raises(c, row.by, 5) /\ Raises(c, row.for, 3)
      /\ row.status = "slashed" => Raises(c, row.for, -1)
      /\ DOMAIN c \subseteq IF row.status = "expired" THEN {} ELSE {row.by, row.for}
  BY <1>1 DEF KarmaSession, ResolveOk
<1>5. row.by # row.for /\ row.status \in {"resolved", "slashed", "expired"}
  BY <1>3 DEF VouchRows
<1>6. /\ vouches \in Seq(VouchRows)
      /\ \A i \in DOMAIN vouches : vouches[i].by \in Known /\ vouches[i].for \in Known
  BY <1>1 DEF KarmaTypes
<1>7. /\ vouches' \in Seq(VouchRows) /\ DOMAIN vouches' = DOMAIN vouches
      /\ vouches'[k] = row
      /\ \A i \in DOMAIN vouches : i # k => vouches'[i] = vouches[i]
  <2>1. Put(vouches, k, row) \in Seq(VouchRows)
    BY <1>3, <1>6, PutIsRow
  <2> QED
    BY <1>2, <1>3, <2>1 DEF Put
<1>8. \A i \in DOMAIN vouches' : vouches'[i].by \in Known /\ vouches'[i].for \in Known
  BY <1>3, <1>6, <1>7
<1>9. KarmaTypes' /\ Known' = Known
  BY <1>1, <1>2, <1>7, <1>8, TypesAfter DEF KarmaTypes
<1>10. ASSUME NEW a \in Known \ raced'
       PROVE  /\ ByDeposits(a, deposits') + ByVouches(a, vouches') =
                   ByDeposits(a, deposits) + ByVouches(a, vouches) + Shift(c, Fines(s), a)
              /\ vouched_by_count'[a] = CountIn(vouches', For(a))
  <2>1. ByDeposits(a, deposits) \in Int /\ ByVouches(a, vouches) \in Int
    BY <1>1, WorthIsWhole DEF KarmaTypes
  <2>2. Balanced(a)
    BY <1>1, <1>10 DEF KarmaInv
  <2>3. a \in {row.by, row.for} => vouches[k].status = "active"
    BY <1>1, <1>10 DEF Again
  <2>4. CountIn(vouches', For(a)) = CountIn(vouches, For(a))
    BY <1>2, <1>3, <1>6, VouchEnded
  <2>5. ASSUME NEW e \in Int, Shift(c, Fines(s), a) = e,
               ByVouches(a, Put(vouches, k, row)) = ByVouches(a, vouches) + e
        PROVE  ByDeposits(a, deposits') + ByVouches(a, vouches') =
                 ByDeposits(a, deposits) + ByVouches(a, vouches) + Shift(c, Fines(s), a)
    <3>1. ByDeposits(a, deposits') = ByDeposits(a, deposits)
      BY <1>2
    <3>2. ByVouches(a, vouches') = ByVouches(a, vouches) + e
      BY <1>2, <2>5
    <3> QED
      BY <2>1, <2>5, <3>1, <3>2
  <2>6. CASE a \notin {row.by, row.for}
    <3>1. Shift(c, Fines(s), a) = 0
      BY <1>4, <2>6 DEF Shift
    <3>2. ByVouches(a, Put(vouches, k, row)) = ByVouches(a, vouches)
      BY <1>3, <1>6, <2>6, VouchEnded
    <3> QED
      BY <1>2, <2>1, <2>2, <2>4, <2>5, <3>1, <3>2 DEF Balanced
  <2>7. CASE a = row.by
    <3> PICK e : e = IF row.status = "resolved" THEN 5 ELSE 0
      OBVIOUS
    <3>1. Shift(c, Fines(s), a) = e
      <4>1. CASE row.status = "resolved"
        <5>1. a \in DOMAIN c /\ c[a].karma = c[a].seen + 5 /\ c[a].seen \in Int
          BY <1>1, <1>4, <2>7, <4>1 DEF Raises, Whole
        <5> QED
          BY <1>2, <4>1, <5>1 DEF Shift
      <4>2. CASE row.status = "slashed"
        BY <1>2, <2>7, <4>2 DEF Shift
      <4>3. CASE row.status = "expired"
        BY <1>4, <4>3 DEF Shift
      <4> QED
        BY <1>5, <4>1, <4>2, <4>3
    <3>2. ByVouches(a, Put(vouches, k, row)) = ByVouches(a, vouches) + e
      BY <1>3, <1>6, <2>3, <2>7, VouchEnded
    <3>3. e \in Int
      OBVIOUS
    <3> QED
      BY <1>2, <2>2, <2>4, <2>5, <3>1, <3>2, <3>3 DEF Balanced
  <2>8. CASE a = row.for
    <3> PICK e : e = IF row.status = "resolved" THEN 3
                     ELSE IF row.status = "slashed" THEN -1 ELSE 0
      OBVIOUS
    <3>1. e \in Int
      <4>1. -1 \in Int
        OBVIOUS
      <4> QED
        BY <4>1
    <3>2. Shift(c, Fines(s), a) = e
      <4>1. ASSUME NEW x \in Int, Raises(c, a, x) PROVE Shift(c, Fines(s), a) = x
        <5>1. a \in DOMAIN c /\ c[a].karma = c[a].seen + x /\ c[a].seen \in Int
          BY <1>1, <4>1 DEF Raises, Whole
        <5>2. c[a].karma - c[a].seen = x
          BY <4>1, <5>1
        <5>3. a \notin Fines(s)
          BY <1>2, <1>5, <2>8
        <5> QED
          BY <5>1, <5>2, <5>3 DEF Shift
      <4>2. CASE row.status = "resolved"
        BY <1>4, <2>8, <4>1, <4>2
      <4>3. CASE row.status = "slashed"
        <5>1. e = -1 /\ Raises(c, a, e)
          BY <1>4, <2>8, <4>3
        <5> QED
          BY <3>1, <4>1, <5>1
      <4>4. CASE row.status = "expired"
        BY <1>4, <4>4 DEF Shift
      <4> QED
        BY <1>5, <4>2, <4>3, <4>4
    <3>3. ByVouches(a, Put(vouches, k, row)) = ByVouches(a, vouches) + e
      BY <1>3, <1>6, <2>3, <2>8, VouchEnded
    <3> QED
      BY <1>2, <2>2, <2>4, <2>5, <3>1, <3>2, <3>3 DEF Balanced
  <2> QED
    BY <2>6, <2>7, <2>8
<1>11. \A a \in Known' \ raced' : Balanced(a)'
  BY <1>1, <1>9, <1>10, CommitBalances
<1>12. RowsStay
  BY <1>2, <1>3, <1>7, <1>9 DEF RowsStay
<1> QED
  BY <1>1, <1>9, <1>11, <1>12, SettlesFrame

LEMMA ColdNextKarma ==
  ASSUME KarmaInv, ColdNext, UNCHANGED panelVars PROVE KarmaInv'
<1>1. UNCHANGED poll
  BY DEF panelVars
<1>2. ASSUME NEW h \in Handlers, Commit(h) PROVE KarmaInv'
  <2>1. handler[h].at \in Commits
    BY <1>2 DEF Commit
  <2> QED
    BY <1>1, <1>2, <2>1, CommitLogin, CommitDeposit, CommitVouch, CommitResolve,
       CommitRelease, CommitPenalize DEF Commits
<1>3. ASSUME NEW h \in Handlers, Abort(h) PROVE KarmaInv'
  <2>1. KarmaSession(Idle)
    BY OtherKarmaSession DEF Idle, Commits
  <2>2. UNCHANGED <<worth, poll>> /\ handler' = [handler EXCEPT ![h] = Idle]
    BY <1>1, <1>3 DEF Abort, tables, histories, worth
  <2> QED
    BY <2>1, <2>2, KarmaHandler
<1>4. ASSUME NEW h \in Handlers, NEW a \in Agents,
             \/ Login(h, a) \/ Penalize(h, a)
             \/ \E large \in BOOLEAN : DepositCollateral(h, a, large)
             \/ \E b \in Agents, bounty \in Bounties \cup {NoBounty} :
                  CreateVouch(h, a, b, bounty)
      PROVE  KarmaInv'
  BY <1>1, <1>4, KarmaLogin, KarmaPenalize, KarmaDeposits, KarmaVouches
<1> QED
  BY <1>1, <1>2, <1>3, <1>4, KarmaReleases, KarmaLooks, KarmaResolves
     DEF ColdNext


-----------------------------------------------------------------------------
(* The polls.                                                              *)

LEMMA CheckInactiveKarma ==
  ASSUME KarmaInv, IsFiniteSet(DOMAIN assignments), NEW p \in Pollers, CheckInactive(p)
  PROVE  KarmaInv'
<1>1. UNCHANGED <<worth, handler>>
  BY DEF CheckInactive, coldVars, tables, histories, worth
<1>2. KarmaTypes
  BY DEF KarmaInv
<1> DEFINE Rows(a) == Missed \cap RowsOf(a)
           fees == [a \in Agents |-> 5 * Cardinality(Rows(a))]
           due == {a \in Known : Rows(a) # {}}
           c == [a \in {b \in due : Floor(karma[b] - fees[b]) # karma[b]} |->
                   [seen |-> karma[a], karma |-> Floor(karma[a] - fees[a])]]
           s == [at |-> "commit", enrol |-> poll[p].enrol, seat |-> poll[p].seat,
                 status |-> poll[p].status,
                 votes |-> Over([i \in Missed |-> "abstained"], poll[p].votes),
                 changes |-> c]
<1>3. Whole(c)
  <2>1. ASSUME NEW a \in Known
        PROVE  karma[a] \in Int /\ Floor(karma[a] - fees[a]) \in Int
    <3>1. karma[a] \in Int /\ a \in Agents
      BY <1>2, <2>1 DEF KarmaTypes
    <3>2. Cardinality(Rows(a)) \in Nat
      <4>1. Rows(a) \in SUBSET DOMAIN assignments
        BY DEF RowsOf
      <4> QED
        BY <4>1, FS_Subset, FS_CardinalityType
    <3>3. fees[a] = 5 * Cardinality(Rows(a))
      BY <3>1
    <3> HIDE DEF fees, Rows
    <3>4. fees[a] \in Int
      BY <3>2, <3>3
    <3> QED
      BY <3>1, <3>4 DEF Floor
  <2>2. ASSUME NEW a \in DOMAIN c
        PROVE  /\ a \in Known /\ c[a].seen = karma[a]
               /\ c[a].karma = Floor(karma[a] - fees[a])
    <3> HIDE DEF fees, Rows
    <3> QED
      BY <2>2
  <2> HIDE DEF c, fees
  <2> QED
    BY <2>1, <2>2 DEF Whole
<1>4. poll' = [poll EXCEPT ![p] = s]
  <2> HIDE DEF fees, Rows
  <2> QED
    BY DEF CheckInactive, fees, Rows
<1>5. KarmaPoll(s)
  <2>1. s.changes = c
    OBVIOUS
  <2> HIDE DEF s, c
  <2> QED
    BY <1>3, <2>1 DEF KarmaPoll
<1> HIDE DEF s
<1> QED
  BY <1>1, <1>4, <1>5, KarmaPoller

LEMMA CommitPollKarma ==
  ASSUME KarmaInv, NEW p \in Pollers, CommitPoll(p) PROVE KarmaInv'
<1> PICK c : c = poll[p].changes
  OBVIOUS
<1>1. KarmaTypes /\ KarmaPoll(poll[p])
  BY DEF KarmaInv
<1>2. /\ poll[p].at = "commit"
      /\ karma' = KarmaAfter(c) /\ fined' = Fine(Agents, c)
      /\ raced' = raced \cup Overwritten(c)
      /\ poll' = [poll EXCEPT ![p] = Idle]
      /\ deposits' = deposits /\ vouches' = vouches
      /\ vouched_by_count' = vouched_by_count /\ handler' = handler
  BY DEF CommitPoll
<1>3. Whole(c)
  BY <1>1, <1>2 DEF KarmaPoll
<1>4. KarmaTypes' /\ Known' = Known
  BY <1>1, <1>2, <1>3, TypesAfter DEF KarmaTypes
<1>5. ASSUME NEW a \in Known \ raced'
      PROVE  /\ ByDeposits(a, deposits') + ByVouches(a, vouches') =
                  ByDeposits(a, deposits) + ByVouches(a, vouches) + Shift(c, Agents, a)
             /\ vouched_by_count'[a] = CountIn(vouches', For(a))
  <2>1. Shift(c, Agents, a) = 0
    BY <1>1 DEF Shift, KarmaTypes
  <2>2. ByDeposits(a, deposits) \in Int /\ ByVouches(a, vouches) \in Int
    BY <1>1, WorthIsWhole DEF KarmaTypes
  <2>3. Balanced(a)
    BY <1>2, <1>5 DEF KarmaInv
  <2> QED
    BY <1>2, <2>1, <2>2, <2>3 DEF Balanced
<1>6. \A a \in Known' \ raced' : Balanced(a)'
  BY <1>2, <1>3, <1>4, <1>5, CommitBalances
<1>7. RowsStay
  BY <1>2, <1>4 DEF RowsStay
<1>8. /\ poll' = [k \in Pollers |-> poll'[k]]
      /\ \A k \in Pollers : poll'[k] = IF k = p THEN Idle ELSE poll[k]
      /\ handler' = [k \in Handlers |-> handler'[k]]
  BY <1>2 DEF KarmaInv
<1>9. KarmaPoll(Idle)
  BY DEF KarmaPoll, Idle
<1>10. KarmaPoll(Idle)'
  BY <1>7, <1>9, KarmaSessionStays
<1> QED
  BY <1>2, <1>4, <1>6, <1>7, <1>8, <1>9, KarmaFrame

LEMMA PollLogsKarma ==
  ASSUME KarmaInv, NEW p \in Pollers, NEW from, PollLogs(p, from) PROVE KarmaInv'
<1>1. UNCHANGED <<worth, handler>>
  BY DEF PollLogs, coldVars, tables, histories, worth
<1> PICK logs : logs = IF status = "closed" THEN <<>>
                       ELSE SubSeq(chain, from, Len(chain))
  OBVIOUS
<1>2. PICK first, to :
        /\ first \in FirstRows
        /\ poll' = [poll EXCEPT ![p] =
                      [at |-> "check", enrol |-> NewEvaluators(logs),
                       seat |-> NewRows(logs), votes |-> VotesRead(logs, first),
                       status |-> to]]
  BY Zenon DEF PollLogs
<1> PICK s : s = [at |-> "check", enrol |-> NewEvaluators(logs),
                  seat |-> NewRows(logs), votes |-> VotesRead(logs, first),
                  status |-> to]
  OBVIOUS
<1>3. poll' = [poll EXCEPT ![p] = s] /\ s.at = "check"
  BY <1>2
<1>4. KarmaPoll(s)
  BY <1>3 DEF KarmaPoll
<1> QED
  BY <1>1, <1>3, <1>4, KarmaPoller

LEMMA PanelNextKarma ==
  ASSUME KarmaInv, IsFiniteSet(DOMAIN assignments), PanelNext PROVE KarmaInv'
<1>1. ASSUME ContractLogs PROVE KarmaInv'
  <2>1. UNCHANGED <<worth, handler, poll>>
    BY <1>1 DEF ContractLogs, Logs, coldVars, tables, histories, worth
  <2> QED
    BY <2>1, KarmaNobody
<1>2. ASSUME NEW st, RowMoves(st) PROVE KarmaInv'
  <2>1. UNCHANGED <<worth, handler, poll>>
    BY <1>2 DEF RowMoves, coldVars, tables, histories, worth
  <2> QED
    BY <2>1, KarmaNobody
<1>3. ASSUME NEW a, RegisterEvaluator(a) \/ DeregisterEvaluator(a) \/ Age(a)
      PROVE  KarmaInv'
  <2>1. UNCHANGED <<worth, handler, poll>>
    BY <1>3 DEF RegisterEvaluator, DeregisterEvaluator, Age, Enrol, coldVars, tables,
                histories, worth
  <2> QED
    BY <2>1, KarmaNobody
<1>4. ASSUME NEW h \in Handlers, NEW a, NEW v, VoteDispute(h, a, v) PROVE KarmaInv'
  <2>1. PICK i, row : Decide(h, "cast", i, row, NoChange) /\ UNCHANGED poll
    BY <1>4 DEF VoteDispute, panelVars
  <2> PICK s : s = [at |-> "cast", id |-> i, row |-> row, changes |-> NoChange]
    OBVIOUS
  <2>2. KarmaSession(s)
    BY OtherKarmaSession DEF Commits
  <2> QED
    BY <2>1, <2>2, KarmaDecides
<1>5. ASSUME NEW h \in Handlers, CommitVote(h) PROVE KarmaInv'
  <2>1. UNCHANGED <<worth, poll>> /\ handler' = [handler EXCEPT ![h] = Idle]
    BY <1>5 DEF CommitVote, tables, histories, worth
  <2>2. KarmaSession(Idle)
    BY OtherKarmaSession DEF Idle, Commits
  <2> QED
    BY <2>1, <2>2, KarmaHandler
<1>6. ASSUME NEW p \in Pollers, PollFails(p) PROVE KarmaInv'
  <2>1. UNCHANGED <<worth, handler>> /\ poll' = [poll EXCEPT ![p] = Idle]
    BY <1>6 DEF PollFails, coldVars, tables, histories, worth
  <2>2. KarmaPoll(Idle)
    BY DEF KarmaPoll, Idle
  <2> QED
    BY <2>1, <2>2, KarmaPoller
<1> QED
  BY <1>1, <1>2, <1>3, <1>4, <1>5, <1>6, ColdNextKarma, CheckInactiveKarma,
     CommitPollKarma, PollLogsKarma DEF PanelNext

LEMMA RecordsNextKarma ==
  ASSUME KarmaInv, RecordsNext PROVE KarmaInv'
<1>1. ASSUME NEW h \in Handlers, NEW op, op \notin Commits \cup {"look"}, NEW row,
             UNCHANGED panelVars,
             Decide(h, op, 0, row, NoChange)
      PROVE  KarmaInv'
  <2> PICK s : s = [at |-> op, id |-> 0, row |-> row, changes |-> NoChange]
    OBVIOUS
  <2>1. KarmaSession(s)
    BY <1>1, OtherKarmaSession
  <2> QED
    BY <1>1, <2>1, KarmaDecides DEF panelVars
<1>2. {"tax", "link", "accept"} \cap (Commits \cup {"look"}) = {}
  BY DEF Commits
<1>3. ASSUME NEW h \in Handlers, NEW a \in Agents, UNCHANGED panelVars,
             \/ \E j \in Jurisdictions : UpdateTaxInfo(h, a, j)
             \/ \E amount \in Amounts : RecordPayout(h, a, amount)
             \/ \E login \in Logins : LinkGithubUsername(h, a, login)
             \/ AcceptTerms(h, a)
      PROVE  KarmaInv'
  BY <1>1, <1>2, <1>3 DEF UpdateTaxInfo, RecordPayout, LinkGithubUsername, AcceptTerms
<1>4. ASSUME NEW h \in Handlers, CommitRecord(h) PROVE KarmaInv'
  <2>1. UNCHANGED <<worth, poll>> /\ handler' = [handler EXCEPT ![h] = Idle]
    BY <1>4 DEF CommitRecord, tables, histories, panelVars, worth
  <2>2. KarmaSession(Idle)
    BY OtherKarmaSession DEF Idle, Commits
  <2> QED
    BY <2>1, <2>2, KarmaHandler
<1>5. ASSUME NEW a, AddToBlacklist(a) \/ ResolveBlacklist(a) PROVE KarmaInv'
  <2>1. UNCHANGED <<worth, handler, poll>>
    BY <1>5 DEF AddToBlacklist, ResolveBlacklist, Rewritten, coldVars, tables, histories,
                panelVars, worth
  <2> QED
    BY <2>1, KarmaNobody
<1> QED
  BY <1>3, <1>4, <1>5 DEF RecordsNext

LEMMA KarmaInitially == Init => KarmaInv
<1> SUFFICES ASSUME Init PROVE KarmaInv
  OBVIOUS
<1>1. /\ karma = [a \in Veterans |-> OldKarma]
      /\ vouched_by_count = [a \in Agents |-> 0]
      /\ deposits = <<>> /\ vouches = <<>>
      /\ fined = [a \in Agents |-> 0]
      /\ handler = [h \in Handlers |-> Idle] /\ poll = [p \in Pollers |-> Idle]
  BY DEF Init, PanelInit, ColdInit
<1>2. deposits \in Seq(DepositRows) /\ vouches \in Seq(VouchRows)
  <2>1. \A T : <<>> \in Seq(T)
    BY EmptySeq
  <2> QED
    BY <1>1, <2>1
<1>3. DOMAIN deposits = {} /\ DOMAIN vouches = {}
  <2>1. DOMAIN <<>> = {}
    BY EmptySeq
  <2> QED
    BY <1>1, <2>1
<1>4. /\ Known = Veterans /\ Veterans \subseteq Agents /\ OldKarma \in Int
  BY <1>1, ColdStartAssumption DEF Known
<1>5. KarmaTypes
  BY <1>1, <1>2, <1>3, <1>4 DEF KarmaTypes
<1>6. \A R : CountIn(deposits, R) = 0 /\ CountIn(vouches, R) = 0
  BY <1>3, FS_EmptySet DEF CountIn
<1>7. ASSUME NEW a \in Known PROVE Balanced(a)
  <2>1. ByDeposits(a, deposits) = 0 /\ ByVouches(a, vouches) = 0
    BY <1>6 DEF ByDeposits, ByVouches
  <2>2. karma[a] = OldKarma /\ fined[a] = 0 /\ vouched_by_count[a] = 0 /\ a \in Veterans
    BY <1>1, <1>4
  <2> QED
    BY <1>4, <1>6, <2>1, <2>2 DEF Balanced, Start
<1>8. KarmaSession(Idle) /\ KarmaPoll(Idle)
  BY OtherKarmaSession DEF Idle, Commits, KarmaPoll
<1> QED
  BY <1>1, <1>5, <1>7, <1>8 DEF KarmaInv

LEMMA KarmaStepwise ==
  KarmaInv /\ IsFiniteSet(DOMAIN assignments) /\ [Next]_vars => KarmaInv'
<1>1. KarmaInv /\ UNCHANGED vars => KarmaInv'
  BY KarmaNobody DEF vars, coldVars, tables, histories, panelVars, worth
<1> QED
  BY <1>1, PanelNextKarma, RecordsNextKarma DEF Next

\* What the invariant counts is what the property counts.
LEMMA BalancedIsExplained == KarmaInv => KarmaExplained
<1> SUFFICES ASSUME KarmaInv PROVE KarmaExplained
  OBVIOUS
<1>1. /\ \A i \in DOMAIN deposits : deposits[i] \in DepositRows
      /\ \A i \in DOMAIN vouches : vouches[i] \in VouchRows
  BY LenProperties, ElementOfSeq DEF KarmaInv, KarmaTypes
<1>2. ASSUME NEW a, NEW st
      PROVE  /\ Cardinality({i \in DOMAIN deposits :
                               deposits[i].agent = a /\ deposits[i].status = st}) =
                  CountIn(deposits, EndedAs(a, st))
             /\ Cardinality({i \in DOMAIN deposits :
                               deposits[i].agent = a /\ deposits[i].large}) =
                  CountIn(deposits, Large(a))
             /\ Cardinality({i \in DOMAIN vouches :
                               vouches[i].by = a /\ vouches[i].elite}) =
                  CountIn(vouches, Elite(a))
             /\ Cardinality({i \in DOMAIN vouches :
                               vouches[i].by = a /\ vouches[i].status = st}) =
                  CountIn(vouches, Given(a, st))
             /\ Cardinality({i \in DOMAIN vouches :
                               vouches[i].for = a /\ vouches[i].status = st}) =
                  CountIn(vouches, Got(a, st))
             /\ Cardinality({i \in DOMAIN vouches : vouches[i].for = a}) =
                  CountIn(vouches, For(a))
  <2>1. /\ {i \in DOMAIN deposits : deposits[i].agent = a /\ deposits[i].status = st}
             = {i \in DOMAIN deposits : deposits[i] \in EndedAs(a, st)}
        /\ {i \in DOMAIN deposits : deposits[i].agent = a /\ deposits[i].large}
             = {i \in DOMAIN deposits : deposits[i] \in Large(a)}
    BY <1>1 DEF EndedAs, Large
  <2>2. /\ {i \in DOMAIN vouches : vouches[i].by = a /\ vouches[i].elite}
             = {i \in DOMAIN vouches : vouches[i] \in Elite(a)}
        /\ {i \in DOMAIN vouches : vouches[i].by = a /\ vouches[i].status = st}
             = {i \in DOMAIN vouches : vouches[i] \in Given(a, st)}
        /\ {i \in DOMAIN vouches : vouches[i].for = a /\ vouches[i].status = st}
             = {i \in DOMAIN vouches : vouches[i] \in Got(a, st)}
        /\ {i \in DOMAIN vouches : vouches[i].for = a}
             = {i \in DOMAIN vouches : vouches[i] \in For(a)}
    BY <1>1 DEF Elite, Given, Got, For
  <2> QED
    BY <2>1, <2>2 DEF CountIn
<1>3. ASSUME NEW a \in Known \ raced
      PROVE  /\ karma[a] = Start(a) + 10 * CountIn(deposits, Large(a))
                   + 15 * CountIn(deposits, EndedAs(a, "released"))
                   - 5 * CountIn(deposits, EndedAs(a, "slashed"))
                   + 5 * CountIn(vouches, Elite(a))
                   + 5 * CountIn(vouches, Given(a, "resolved"))
                   + 3 * CountIn(vouches, Got(a, "resolved"))
                   - CountIn(vouches, Got(a, "slashed")) - fined[a]
             /\ vouched_by_count[a] = CountIn(vouches, For(a))
  <2>1. Balanced(a) /\ KarmaTypes
    BY <1>3 DEF KarmaInv
  <2>2. \A R : CountIn(deposits, R) \in Nat
    BY <2>1, CountsAreNatural DEF KarmaTypes
  <2>3. \A R : CountIn(vouches, R) \in Nat
    BY <2>1, CountsAreNatural DEF KarmaTypes
  <2>4. /\ CountIn(deposits, Large(a)) \in Int
        /\ CountIn(deposits, EndedAs(a, "released")) \in Int
        /\ CountIn(deposits, EndedAs(a, "slashed")) \in Int
    BY <2>2
  <2>5. /\ CountIn(vouches, Elite(a)) \in Int /\ CountIn(vouches, Given(a, "resolved")) \in Int
        /\ CountIn(vouches, Got(a, "resolved")) \in Int
        /\ CountIn(vouches, Got(a, "slashed")) \in Int
    BY <2>3
  <2>6. Start(a) \in Int /\ fined[a] \in Int
    BY <1>3, <2>1, ColdStartAssumption DEF Start, NewKarma, KarmaTypes
  <2> QED
    BY <2>1, <2>4, <2>5, <2>6 DEF Balanced, ByDeposits, ByVouches
<1> QED
  BY <1>2, <1>3 DEF KarmaExplained, Count, Start

-----------------------------------------------------------------------------
\* For any agents, amounts and number of sessions and pollers, the karma of an
\* agent and its count of vouches are what its rows and its fines tell, unless
\* a session has written over what another had committed (coldstart.py,
\* check_inactive_evaluators, resolve_quarantine).
THEOREM KarmaAlwaysExplained == Spec => []KarmaExplained
<1>1. PanelInv => IsFiniteSet(DOMAIN assignments)
  <2> SUFFICES ASSUME PanelInv PROVE IsFiniteSet(DOMAIN assignments)
    OBVIOUS
  <2> PICK n : n = Len(assignments)
    OBVIOUS
  <2>1. n \in Nat /\ DOMAIN assignments = 1 .. n
    BY LenProperties DEF PanelInv
  <2> QED
    BY <2>1, FS_Interval
<1>2. PanelInv /\ KarmaInv /\ [Next]_vars => PanelInv' /\ KarmaInv'
  BY <1>1, PanelStepwise, KarmaStepwise
<1>3. Init => PanelInv /\ KarmaInv
  BY PanelInitially, KarmaInitially
<1> QED
  BY <1>2, <1>3, BalancedIsExplained, PTL DEF Spec
=============================================================================
