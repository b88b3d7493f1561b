--------------------------- MODULE HardeningAudit ---------------------------
(***************************************************************************)
(* Hardening audits of one device: the router resolves the VDOM, the       *)
(* service selects the rules, asks the device for the data of each         *)
(* endpoint, evaluates the rules and stores a report; meanwhile other      *)
(* requests audit the device and delete its VDOMs.                         *)
(*                                                                         *)
(* What the device answers is abstracted to what the rule engine makes of  *)
(* it, the evidence for each rule: how many of its units (checks, or items *)
(* of a collection) are met, or why they are not counted.  Scores are      *)
(* hundredths of a percent.                                                *)
(***************************************************************************)
EXTENDS Integers, FiniteSets, Functions, TLC

CONSTANTS
  Requests,
  Vdoms0,      \* VDOMs at the start
  NameOf,      \* their names
  Root,        \* the name "root"
  Rules,       \* rules of the catalogue that are active
  EndpointOf,  \* rule -> required_endpoint
  ScopeOf,     \* rule -> "GLOBAL" or "VDOM"
  Units,       \* rule -> number of its units in the data of the device
  Outcomes,    \* rule -> the evidence the data may give
  Profile,     \* rules of the profile
  Standard,    \* rules of the requested version
  Null

Names == {NameOf[v] : v \in Vdoms0} \cup {Root}
Ids == Vdoms0 \cup Requests       \* a row is named after the request that made it
Endpoints == {EndpointOf[rule] : rule \in Rules}

\* Evidence for a rule: a number of units that are met, or one of the cases
\* in which the engine counts none ("missing" is when its endpoint has no data).
Met(n) == [kind |-> "units", met |-> n]
Other(kind) == [kind |-> kind, met |-> 0]

ASSUME AuditAssumption ==
  /\ Vdoms0 \cap Requests = {} /\ Null \notin Ids
  /\ NameOf \in [Vdoms0 -> Names]
  /\ \A v, w \in Vdoms0 : NameOf[v] = NameOf[w] => v = w
  /\ ScopeOf \in [Rules -> {"GLOBAL", "VDOM"}]
  /\ Units \in [Rules -> Nat]
  /\ \A rule \in Rules : Outcomes[rule] \subseteq
       {Other(kind) : kind \in {"no_block", "no_items", "no_required_items", "error"}}
         \cup {Met(n) : n \in 0 .. Units[rule]}
  /\ IsFiniteSet(Rules) /\ Profile \subseteq Rules /\ Standard \subseteq Rules

VARIABLES
  vdoms,    \* committed device_vdoms: id -> name
  reports,  \* committed reports with their findings, named by the audit
  pc,
  job       \* per request: what it has read so far

vars == <<vdoms, reports, pc, job>>

\* vdom: the VDOM of the report; name: the partition to audit; offline: a
\* raw_config was sent; rules: those selected; asked: the endpoints that were;
\* seen: the evidence for the rules whose endpoint has data; draft: the
\* flushed report.
Idle == [vdom |-> Null, name |-> Root, offline |-> FALSE, rules |-> {}, asked |-> {},
         seen |-> << >>, draft |-> Null]

Init ==
  /\ vdoms = NameOf
  /\ reports = << >>
  /\ pc = [r \in Requests |-> "new"]
  /\ job = [r \in Requests |-> Idle]

GoTo(r, step) == pc' = [pc EXCEPT ![r] = step]
Taken(name) == \E v \in DOMAIN vdoms : vdoms[v] = name

\* The request fails; get_db closes the session without a commit.
Error(r) ==
  /\ GoTo(r, "error")
  /\ job' = [job EXCEPT ![r] = Idle]
  /\ UNCHANGED <<vdoms, reports>>
-----------------------------------------------------------------------------
(***************************************************************************)
(* The rule engine.                                                        *)
(***************************************************************************)
Threshold == 3500
Full == 10000

\* round(a / b, 2): the nearest hundredths, either one at a tie, where it is
\* the binary fraction that decides.
Rounded(a, b) == {k \in {a \div b, a \div b + 1} : 2 * (k * b - a) <= b /\ 2 * (a - k * b) <= b}

Finding(status, score) == [status |-> status, score |-> score]

\* evaluate_rule on the data of its endpoint, and the FAILED of
\* evaluate_rules when it raises.
EvaluateRule(rule, seen) ==
  CASE seen.kind \in {"missing", "no_items"} -> Finding("NOT_APPLICABLE", 0)
    [] seen.kind \in {"no_block", "no_required_items", "error"} -> Finding("FAILED", 0)
    [] seen.kind = "units" /\ seen.met = Units[rule] -> Finding("PASSED", Full)
    [] seen.kind = "units" /\ seen.met = 0 /\ Units[rule] # 0 -> Finding("FAILED", 0)
    [] OTHER -> Finding("PARTIAL", CHOOSE s \in Rounded(Full * seen.met, Units[rule]) : TRUE)

\* The policy on low partial results changes the status and not the score.
Classified(f) ==
  IF f.status = "PARTIAL" /\ f.score < Threshold THEN Finding("FAILED", f.score) ELSE f

Count(findings, status) == Cardinality({rule \in DOMAIN findings : findings[rule].status = status})

\* Mutant of Evaluable: rules that do not apply count with their score 0.
EvaluableAll(findings) == DOMAIN findings

Evaluable(findings) == {rule \in DOMAIN findings : findings[rule].status # "NOT_APPLICABLE"}

\* The global score: the mean over the evaluable rules, 100 if there are none.
Scores(findings) ==
  LET rules == Evaluable(findings)
      sum == SumFunctionOnSet([rule \in DOMAIN findings |-> findings[rule].score], rules)
  IN IF rules = {} THEN {Full} ELSE Rounded(sum, Cardinality(rules))

\* evaluate_rules and the row of save_audit_report, which has no column for
\* the partial results.
Summary(vdom, findings, score) ==
  [vdom |-> vdom, findings |-> findings, score |-> score,
   passed |-> Count(findings, "PASSED"), failed |-> Count(findings, "FAILED"),
   not_applicable |-> Count(findings, "NOT_APPLICABLE")]

\* The partition an endpoint is asked for, or Null if it is not asked.
Target(rule, name, has_vdom_enabled) ==
  CASE has_vdom_enabled /\ name # Root -> IF ScopeOf[rule] = "GLOBAL" THEN Null ELSE name
    [] ~has_vdom_enabled -> Root
    [] OTHER -> IF ScopeOf[rule] = "GLOBAL" THEN "global" ELSE Root

\* The connection data that get_connection_data returns has no attribute
\* has_vdom_enabled, so run_audit always takes the default.
HasVdomEnabled == FALSE

\* endpoint_targets of the selected rules.
Asked(rules, name) ==
  {EndpointOf[rule] : rule \in {q \in rules : Target(q, name, HasVdomEnabled) # Null}}
-----------------------------------------------------------------------------
(***************************************************************************)
(* The requests.                                                           *)
(***************************************************************************)
\* run_audit with a vdom_id: 404 without the row.
AuditVdom(r) ==
  \E v \in Ids :
    /\ pc[r] = "new"
    /\ IF v \in DOMAIN vdoms
       THEN /\ GoTo(r, "resolved")
            /\ job' = [job EXCEPT ![r].vdom = v, ![r].name = vdoms[v]]
            /\ UNCHANGED <<vdoms, reports>>
       ELSE Error(r)

\* run_audit with a device_id only: ensure_root_vdom looks for the root.
AuditDevice(r) ==
  /\ pc[r] = "new"
  /\ IF Taken(Root)
     THEN /\ GoTo(r, "resolved")
          /\ job' = [job EXCEPT ![r].vdom = CHOOSE v \in DOMAIN vdoms : vdoms[v] = Root]
     ELSE GoTo(r, "ensure_root") /\ UNCHANGED job
  /\ UNCHANGED <<vdoms, reports>>

\* It commits the root it did not find, unless another request was faster.
InsertRoot(r) ==
  /\ pc[r] = "ensure_root"
  /\ IF Taken(Root)
     THEN Error(r)
     ELSE /\ vdoms' = [v \in DOMAIN vdoms \cup {r} |-> IF v = r THEN Root ELSE vdoms[v]]
          /\ job' = [job EXCEPT ![r].vdom = r]
          /\ GoTo(r, "resolved")
          /\ UNCHANGED reports

\* With a raw_config the vdom_id of the payload is taken as it is.
AuditOffline(r) ==
  \E v \in Ids \cup {Null} :
    /\ pc[r] = "new"
    /\ job' = [job EXCEPT ![r].vdom = v, ![r].offline = TRUE]
    /\ GoTo(r, "resolved")
    /\ UNCHANGED <<vdoms, reports>>

\* ASSIGNED_PROFILE, FULL_STANDARD and CUSTOM_ADHOC; 422 without a rule.
Selections == {Profile, Standard} \cup {asked \cap Standard : asked \in SUBSET Rules}

SelectRules(r) ==
  \E rules \in Selections :
    /\ pc[r] = "resolved"
    /\ IF rules # {}
       THEN /\ GoTo(r, IF job[r].offline THEN "parsing" ELSE "fetching")
            /\ job' = [job EXCEPT ![r].rules = rules]
            /\ UNCHANGED <<vdoms, reports>>
       ELSE Error(r)

\* The evidence that data may give for a set of rules.
Evidence ==
  [rules \in SUBSET Rules |->
    {f \in [rules -> UNION {Outcomes[rule] : rule \in rules}] : \A rule \in rules : f[rule] \in Outcomes[rule]}]

Of(rules, endpoints) == {rule \in rules : EndpointOf[rule] \in endpoints}

Unasked(r) == Asked(job[r].rules, job[r].name) \ job[r].asked

\* fetch_endpoints_data asks for one endpoint after the other; an error of any
\* kind is swallowed and leaves the endpoint without data.
Fetch(r) ==
  \E endpoint \in Unasked(r) : \E f \in Evidence[{}] \cup Evidence[Of(job[r].rules, {endpoint})] :
    /\ pc[r] = "fetching"
    /\ job' = [job EXCEPT ![r].asked = @ \cup {endpoint},
         ![r].seen = [rule \in DOMAIN @ \cup DOMAIN f |-> IF rule \in DOMAIN f THEN f[rule] ELSE @[rule]]]
    /\ UNCHANGED <<vdoms, reports, pc>>

\* 422 if nothing had to be asked.
Fetched(r) ==
  /\ pc[r] = "fetching" /\ Unasked(r) = {}
  /\ IF job[r].asked # {}
     THEN GoTo(r, "evaluating") /\ UNCHANGED <<vdoms, reports, job>>
     ELSE Error(r)

\* The backup holds sections of some endpoints, maybe of none of the rules';
\* one without any section is refused.
ParseBackup(r) ==
  /\ pc[r] = "parsing"
  /\ \/ Error(r)
     \/ \E present \in SUBSET Endpoints : \E f \in Evidence[Of(job[r].rules, present)] :
          /\ job' = [job EXCEPT ![r].seen = f]
          /\ GoTo(r, "evaluating")
          /\ UNCHANGED <<vdoms, reports>>

SeenOf(r, rule) == IF rule \in DOMAIN job[r].seen THEN job[r].seen[rule] ELSE Other("missing")

FindingsOf(r) == [rule \in job[r].rules |-> Classified(EvaluateRule(rule, SeenOf(r, rule)))]

\* Mutant of FlushReport: vdom_id is no foreign key.
FlushReportAnyway(r) ==
  /\ pc[r] = "evaluating"
  /\ \E score \in Scores(FindingsOf(r)) :
       job' = [job EXCEPT ![r] = [Idle EXCEPT !.draft = Summary(job[r].vdom, FindingsOf(r), score)]]
  /\ GoTo(r, "flushed")
  /\ UNCHANGED <<vdoms, reports>>

\* Mutant of FlushReport: the header is committed before the findings.
FlushReportCommits(r) ==
  /\ pc[r] = "evaluating"
  /\ job[r].vdom \in DOMAIN vdoms \cup {Null}
  /\ \E score \in Scores(FindingsOf(r)) :
       LET header == Summary(job[r].vdom, << >>, score) IN
       /\ job' = [job EXCEPT ![r] = [Idle EXCEPT !.draft = Summary(job[r].vdom, FindingsOf(r), score)]]
       /\ reports' = [a \in DOMAIN reports \cup {r} |-> IF a = r THEN header ELSE reports[a]]
  /\ GoTo(r, "flushed")
  /\ UNCHANGED vdoms

\* Evaluation, and the INSERT of the report, which needs its VDOM; what was
\* fetched is not used again.
FlushReport(r) ==
  /\ pc[r] = "evaluating"
  /\ IF job[r].vdom \in DOMAIN vdoms \cup {Null}
     THEN /\ \E score \in Scores(FindingsOf(r)) :
               job' = [job EXCEPT ![r] = [Idle EXCEPT !.draft = Summary(job[r].vdom, FindingsOf(r), score)]]
          /\ GoTo(r, "flushed")
          /\ UNCHANGED <<vdoms, reports>>
     ELSE Error(r)

\* Mutant of CommitReport: the transaction stays open.
CommitReportHeld(r) ==
  /\ pc[r] = "flushed"
  /\ reports' = [a \in DOMAIN reports \cup {r} |-> IF a = r THEN job[r].draft ELSE reports[a]]
  /\ GoTo(r, "committed")
  /\ UNCHANGED <<vdoms, job>>

\* The findings are inserted and the report committed.
CommitReport(r) ==
  /\ pc[r] = "flushed"
  /\ reports' = [a \in DOMAIN reports \cup {r} |-> IF a = r THEN job[r].draft ELSE reports[a]]
  /\ job' = [job EXCEPT ![r] = Idle]
  /\ GoTo(r, "committed")
  /\ UNCHANGED vdoms

Answer(r) ==
  /\ pc[r] = "committed"
  /\ GoTo(r, "ok")
  /\ UNCHANGED <<vdoms, reports, job>>

\* delete_vdom looks the VDOM up.
DeleteVdom(r) ==
  \E v \in Ids :
    /\ pc[r] = "new"
    /\ IF v \in DOMAIN vdoms
       THEN /\ GoTo(r, "deleting")
            /\ job' = [job EXCEPT ![r].vdom = v]
            /\ UNCHANGED <<vdoms, reports>>
       ELSE Error(r)

\* A flushed report holds the row it refers to.
Referenced(v) == \E q \in Requests : pc[q] = "flushed" /\ job[q].draft.vdom = v

\* Mutant of EraseVdom: the reports of the VDOM go with it.
EraseVdomCascades(r) ==
  /\ pc[r] = "deleting" /\ ~Referenced(job[r].vdom)
  /\ vdoms' = [v \in DOMAIN vdoms \ {job[r].vdom} |-> vdoms[v]]
  /\ reports' = [a \in {b \in DOMAIN reports : reports[b].vdom # job[r].vdom} |-> reports[a]]
  /\ GoTo(r, "ok")
  /\ UNCHANGED job

\* DELETE and commit; the reports of the VDOM lose their reference to it.
EraseVdom(r) ==
  /\ pc[r] = "deleting" /\ ~Referenced(job[r].vdom)
  /\ vdoms' = [v \in DOMAIN vdoms \ {job[r].vdom} |-> vdoms[v]]
  /\ reports' = [a \in DOMAIN reports |->
                  IF reports[a].vdom = job[r].vdom THEN [reports[a] EXCEPT !.vdom = Null] ELSE reports[a]]
  /\ GoTo(r, "ok")
  /\ job' = [job EXCEPT ![r] = Idle]

\* A crash, the database down, an exception anywhere.
Abort(r) == pc[r] \notin {"new", "ok", "error"} /\ Error(r)
-----------------------------------------------------------------------------
Arrive(r) == AuditVdom(r) \/ AuditDevice(r) \/ AuditOffline(r) \/ DeleteVdom(r)

Service(r) ==
  \/ InsertRoot(r) \/ SelectRules(r) \/ Fetch(r) \/ Fetched(r) \/ ParseBackup(r)
  \/ FlushReport(r) \/ CommitReport(r) \/ Answer(r) \/ EraseVdom(r)

Next == \E r \in Requests : Arrive(r) \/ Service(r) \/ Abort(r)

Spec == Init /\ [][Next]_vars
-----------------------------------------------------------------------------
Statuses == {"PASSED", "PARTIAL", "FAILED", "NOT_APPLICABLE"}

IsReport(report) ==
  /\ report.vdom \in Ids \cup {Null}
  /\ DOMAIN report.findings \subseteq Rules
  /\ \A rule \in DOMAIN report.findings :
       report.findings[rule] \in [status : Statuses, score : 0 .. Full]
  /\ report.score \in 0 .. Full

\* The types of the variables; a request that has flushed a report, and no
\* other, is in a transaction that has written one.
TypeOK ==
  /\ DOMAIN vdoms \subseteq Ids /\ \A v \in DOMAIN vdoms : vdoms[v] \in Names
  /\ DOMAIN reports \subseteq Requests /\ \A a \in DOMAIN reports : IsReport(reports[a])
  /\ pc \in [Requests -> {"new", "ensure_root", "resolved", "fetching", "parsing", "evaluating",
                         "flushed", "committed", "deleting", "ok", "error"}]
  /\ \A r \in Requests :
       /\ job[r].vdom \in Ids \cup {Null} /\ job[r].name \in Names /\ job[r].offline \in BOOLEAN
       /\ job[r].asked \subseteq Endpoints
       /\ DOMAIN job[r].seen \subseteq job[r].rules /\ job[r].rules \subseteq Rules
       /\ IF pc[r] = "flushed" THEN IsReport(job[r].draft) ELSE job[r].draft = Null

\* A VDOM that is deleted while it is audited never leaves a report behind that
\* refers to it: neither a committed one nor one that is about to be.
ReportsRefer ==
  /\ \A a \in DOMAIN reports : reports[a].vdom \in DOMAIN vdoms \cup {Null}
  /\ \A r \in Requests : job[r].draft # Null => job[r].draft.vdom \in DOMAIN vdoms \cup {Null}

\* A stored report is whole, whatever failed while it was written: it has
\* findings, and those that its three counters leave out are the partial ones.
ReportsAreWhole ==
  \A a \in DOMAIN reports :
    LET report == reports[a] IN
    /\ DOMAIN report.findings # {}
    /\ report.passed + report.failed + report.not_applicable + Count(report.findings, "PARTIAL")
         = Cardinality(DOMAIN report.findings)

\* There are so few rules and units that a hundredth of a percent tells apart
\* every unit that is not met: forty rules with 250 items each, for example.
Distinguishable ==
  /\ Cardinality(Rules) <= Full
  /\ \A rule \in Rules : Units[rule] * Cardinality(Rules) <= Full

\* The score of a stored report does not contradict its findings.  It is 100 if
\* nothing that could be evaluated falls short; and not 100 if a rule failed or,
\* as long as rounding does not hide it, a rule was only partly met; and below
\* the threshold of a partial result if everything that was evaluated failed.
ScoreAgrees ==
  \A a \in DOMAIN reports :
    LET report == reports[a]
        short == report.failed + Count(report.findings, "PARTIAL")
    IN /\ short = 0 => report.score = Full
       /\ short > 0 /\ Distinguishable => report.score < Full
       /\ report.failed > 0 /\ Cardinality(Rules) <= Full => report.score < Full
       /\ short = report.failed /\ report.passed = 0 /\ short > 0 => report.score < Threshold

\* A stored report never changes, except that it may lose its VDOM: deleting
\* the VDOM, or auditing the device again, leaves the history alone.
ReportsFrozen ==
  [][\A a \in DOMAIN reports :
       /\ a \in DOMAIN reports'
       /\ reports'[a].vdom \in {reports[a].vdom, Null}
       /\ [reports[a] EXCEPT !.vdom = reports'[a].vdom] = reports'[a]]_vars

\* What run_audit says of itself ("La unidad objetivo es la VDOM"): the data a
\* live audit evaluates were asked of the VDOM it audits, or of the chassis.
LiveAuditsAskTheirVdom ==
  \A r \in Requests : pc[r] = "evaluating" /\ ~job[r].offline =>
    \A rule \in job[r].rules :
      Target(rule, job[r].name, HasVdomEnabled) \in {job[r].name, "global", Null}
=============================================================================
