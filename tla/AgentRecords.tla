---------------------------- MODULE AgentRecords ----------------------------
(***************************************************************************)
(* What an agent keeps about itself next to its karma, and the system of   *)
(* ColdStart and DisputePanel with it: the GitHub login, the payouts of    *)
(* the year and the tax withheld of routers/agents.py, the acceptances and *)
(* the blacklist of routers/terms.py.  The handlers run in the sessions of *)
(* ColdStart and race in the same way.                                     *)
(*                                                                         *)
(* Left out: the columns no handler decides on (the tax form, the steward, *)
(* hashes and reasons) and the routes that only read.  Amounts are whole   *)
(* dollars: cents, infinities and NaN, which a float may be, are left out. *)
(***************************************************************************)
EXTENDS DisputePanel

CONSTANTS
  Logins,               \* GitHub logins
  NoLogin,
  Jurisdictions,        \* that update_tax_info is called with
  Amounts,              \* dollars record_payout is called with, of any sign
  MaxTurnover           \* bound: dollars moved, added and taken

ASSUME RecordsAssumption ==
  /\ NoLogin \notin Logins
  /\ Amounts \subseteq Int /\ MaxTurnover \in Nat

VARIABLES
  github_username,      \* table agents: column github_username
  tax,                  \* and tax_jurisdiction, cumulative_payouts_year and
                        \* tax_withhold_rate
  acceptances,          \* table user_terms_acceptance, by id
  blacklist,            \* table user_blacklist: the status by address
  credited,             \* history: dollars record_payout has added
  debited,              \* history: and has taken, with a negative amount
  misread               \* history: agents whose tax columns changed between
                        \* a session's read and its commit

recordVars ==
  <<github_username, tax, acceptances, blacklist, credited, debited, misread>>
vars == <<coldVars, panelVars, recordVars>>

Init ==
  /\ PanelInit
  /\ github_username = [a \in Agents |-> NoLogin]
  /\ tax = [a \in Agents |-> [jurisdiction |-> "", cumulative |-> 0, rate |-> 0]]
  /\ acceptances = <<>>
  /\ blacklist = [a \in {} |-> ""]
  /\ credited = [a \in Agents |-> 0] /\ debited = [a \in Agents |-> 0]
  /\ misread = {}

-----------------------------------------------------------------------------
(* The schedule: percent withheld of all further payouts of the year.      *)

Threshold == 600

\* Nobody's jurisdiction is taken to be the United States.
Rate(jurisdiction) ==
  CASE jurisdiction \in {"", "US"} -> 24
    [] jurisdiction = "IN" -> 25
    [] OTHER -> 0

\* What update_tax_info and record_payout store.
Withheld(row) ==
  IF row.cumulative > Threshold /\ Rate(row.jurisdiction) > 0
    THEN Rate(row.jurisdiction) ELSE 0

\* What /me/tax/withholding answers, whatever is stored.
Determined(row) ==
  IF row.cumulative # 0 /\ row.cumulative > Threshold
    THEN Rate(row.jurisdiction) ELSE 0

Moved(row, jurisdiction) ==
  LET to == [row EXCEPT !.jurisdiction = jurisdiction]
  IN  [to EXCEPT !.rate = Withheld(to)]

MutantPaid(row, amount) ==
  [row EXCEPT !.cumulative = @ + amount, !.rate = Withheld(row)]

Paid(row, amount) ==
  LET to == [row EXCEPT !.cumulative = @ + amount]
  IN  [to EXCEPT !.rate = Withheld(to)]

-----------------------------------------------------------------------------
(* Handlers: what they read and decide.                                    *)

UpdateTaxInfo(h, a, jurisdiction) ==
  /\ a \in Known
  /\ Decide(h, "tax", 0, [agent |-> a, seen |-> tax[a], paid |-> 0,
                          tax |-> Moved(tax[a], jurisdiction)], NoChange)

\* Called by the agent itself, with any amount.
RecordPayout(h, a, amount) ==
  /\ a \in Known /\ credited[a] + debited[a] < MaxTurnover
  /\ Decide(h, "tax", 0, [agent |-> a, seen |-> tax[a], paid |-> amount,
                          tax |-> Paid(tax[a], amount)], NoChange)

LinkGithubUsername(h, a, login) ==
  /\ a \in Known
  /\ \A b \in Known \ {a} : github_username[b] # login
  /\ Decide(h, "link", 0, [agent |-> a, login |-> login], NoChange)

\* Anyone may accept for any agent; an acceptance that is found is confirmed.
AcceptTerms(h, a) ==
  /\ a \in Known /\ a \notin Range(acceptances)
  /\ Decide(h, "accept", 0, [agent |-> a], NoChange)

-----------------------------------------------------------------------------
(* Commits.                                                                *)

\* The unique keys of agents.github_username and uq_terms_address_version.
Taken(s) ==
  \/ s.at = "accept" /\ s.row.agent \in Range(acceptances)
  \/ s.at = "link" /\ \E b \in Known \ {s.row.agent} :
                        github_username[b] = s.row.login

\* A column that a session set to the value it had read is not written.
Columns(row, seen, new) ==
  LET Of(r, s, n) == IF n = s THEN r ELSE n
  IN  [jurisdiction |-> Of(row.jurisdiction, seen.jurisdiction, new.jurisdiction),
       cumulative   |-> Of(row.cumulative, seen.cumulative, new.cumulative),
       rate         |-> Of(row.rate, seen.rate, new.rate)]

Credit(amount) == IF amount > 0 THEN amount ELSE 0
Debit(amount) == IF amount < 0 THEN -amount ELSE 0

CommitRecord(h) ==
  LET s == handler[h]
      a == s.row.agent
  IN  /\ s.at \in {"tax", "link", "accept"} /\ ~Taken(s)
      /\ tax' = IF s.at # "tax" THEN tax
                ELSE [tax EXCEPT ![a] = Columns(@, s.row.seen, s.row.tax)]
      /\ credited' = IF s.at # "tax" THEN credited
                     ELSE [credited EXCEPT ![a] = @ + Credit(s.row.paid)]
      /\ debited' = IF s.at # "tax" THEN debited
                    ELSE [debited EXCEPT ![a] = @ + Debit(s.row.paid)]
      /\ misread' = IF s.at = "tax" /\ s.row.seen # tax[a] THEN misread \cup {a}
                    ELSE misread
      /\ github_username' = IF s.at # "link" THEN github_username
                            ELSE [github_username EXCEPT ![a] = s.row.login]
      /\ acceptances' = IF s.at # "accept" THEN acceptances
                        ELSE Append(acceptances, a)
      /\ handler' = [handler EXCEPT ![h] = Idle]
      /\ UNCHANGED <<tables, histories, panelVars, blacklist>>

Rewritten(table) ==
  /\ blacklist' = table
  /\ UNCHANGED <<coldVars, panelVars, github_username, tax, acceptances,
                 credited, debited, misread>>

\* One statement each.  The address is a unique key whatever the status: an
\* agent that was resolved cannot be listed again.  No route reads the table.
AddToBlacklist(a) ==
  /\ "accept" \in mix /\ a \in Known /\ a \notin DOMAIN blacklist
  /\ Rewritten((a :> "active") @@ blacklist)

ResolveBlacklist(a) ==
  /\ a \in DOMAIN blacklist /\ blacklist[a] = "active"
  /\ Rewritten([blacklist EXCEPT ![a] = "resolved"])

-----------------------------------------------------------------------------
RecordsNext ==
  \/ \E h \in Handlers, a \in Agents :
       /\ \/ \E j \in Jurisdictions : UpdateTaxInfo(h, a, j)
          \/ \E amount \in Amounts : RecordPayout(h, a, amount)
          \/ \E login \in Logins : LinkGithubUsername(h, a, login)
          \/ AcceptTerms(h, a)
       /\ UNCHANGED <<panelVars, recordVars>>
  \/ \E h \in Handlers : CommitRecord(h)
  \/ \E a \in Agents : AddToBlacklist(a) \/ ResolveBlacklist(a)

Next ==
  \/ PanelNext /\ UNCHANGED recordVars
  \/ RecordsNext

Spec == Init /\ [][Next]_vars

-----------------------------------------------------------------------------
(* Properties.                                                             *)

\* Whichever sessions cross, and whatever the sign of their amounts, no amount
\* is counted twice: the sum of the year lies between what was taken and what
\* was added, and tax is withheld only from an agent to which more than the
\* threshold was added.  Unless the columns moved between a read and a commit,
\* every amount is counted and the stored rate is the one the agent is shown
\* (update_tax_info, record_payout, _determine_withholding).
WithholdingExplained ==
  \A a \in Agents :
    /\ tax[a].cumulative \in -debited[a] .. credited[a]
    /\ tax[a].rate > 0 => credited[a] > Threshold
    /\ a \notin misread => /\ tax[a].cumulative = credited[a] - debited[a]
                           /\ tax[a].rate = Determined(tax[a])
=============================================================================
