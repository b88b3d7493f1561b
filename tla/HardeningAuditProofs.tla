------------------------- MODULE HardeningAuditProofs -------------------------
(***************************************************************************)
(* Theorems of HardeningAudit, for any number of requests, VDOMs and rules *)
(* and whatever the devices answer.                                        *)
(***************************************************************************)
EXTENDS HardeningAudit, FoldLemmas

Steps == {"new", "ensure_root", "resolved", "fetching", "parsing", "evaluating",
          "flushed", "committed", "deleting", "ok", "error"}

\* The evidence for a rule of this many units.
IsEvidence(seen, n) ==
  \/ seen.kind \in {"missing", "no_items", "no_block", "no_required_items", "error"}
  \/ seen.kind = "units" /\ seen.met \in 0 .. n

\* The relation between the findings of a report, its counters and its score.
Agrees(report) ==
  LET short == report.failed + Count(report.findings, "PARTIAL")
  IN /\ report.score \in 0 .. Full
     /\ short = 0 => report.score = Full
     /\ short > 0 /\ Distinguishable => report.score < Full
     /\ report.failed > 0 /\ Cardinality(Rules) <= Full => report.score < Full
     /\ short = report.failed /\ report.passed = 0 /\ short > 0 => report.score < Threshold

\* A report with all of its fields, of their types, with findings, counters that
\* leave out the partial ones, and a score that agrees with them.
Whole(report) ==
  /\ report = [vdom |-> report.vdom, findings |-> report.findings, score |-> report.score,
               passed |-> report.passed, failed |-> report.failed,
               not_applicable |-> report.not_applicable]
  /\ IsReport(report)
  /\ DOMAIN report.findings # {}
  /\ report.passed + report.failed + report.not_applicable + Count(report.findings, "PARTIAL")
       = Cardinality(DOMAIN report.findings)
  /\ Agrees(report)

\* A request at a step with a job: only between the two transactions' steps
\* does it hold a report, it evaluates nothing without a rule, and it has
\* evidence of nothing before it has selected the rules.
Fits(step, work) ==
  /\ work = [vdom |-> work.vdom, name |-> work.name, offline |-> work.offline, rules |-> work.rules,
             asked |-> work.asked, seen |-> work.seen, draft |-> work.draft]
  /\ work.vdom \in Ids \cup {Null} /\ work.name \in Names /\ work.offline \in BOOLEAN
  /\ work.rules \subseteq Rules /\ work.asked \subseteq Endpoints
  /\ DOMAIN work.seen \subseteq work.rules
  /\ \A rule \in DOMAIN work.seen : IsEvidence(work.seen[rule], Units[rule])
  /\ step \in {"new", "ensure_root", "resolved"} => DOMAIN work.seen = {}
  /\ step \in {"fetching", "parsing", "evaluating"} => work.rules # {}
  /\ step = "flushed" => Whole(work.draft)
  /\ step # "flushed" => work.draft = Null

RequestsOK ==
  /\ pc \in [Requests -> Steps]
  /\ job = [r \in Requests |-> job[r]]
  /\ \A r \in Requests : Fits(pc[r], job[r])

\* A report is stored under the request that made it, which then has no other
\* step to store one.
ReportsOK ==
  /\ DOMAIN reports \subseteq Requests
  /\ \A a \in DOMAIN reports : Whole(reports[a]) /\ pc[a] \in {"committed", "ok", "error"}

VdomsOK == DOMAIN vdoms \subseteq Ids /\ \A v \in DOMAIN vdoms : vdoms[v] \in Names

\* What refers to a VDOM, committed or about to be, refers to a row.
RefersOK ==
  /\ \A a \in DOMAIN reports : reports[a].vdom \in DOMAIN vdoms \cup {Null}
  /\ \A r \in Requests : pc[r] = "flushed" => job[r].draft.vdom \in DOMAIN vdoms \cup {Null}

\* The inductive invariant.
IndInv == RequestsOK /\ ReportsOK /\ VdomsOK /\ RefersOK

-----------------------------------------------------------------------------
(* The rule engine.                                                        *)

\* The cardinality of two disjoint sets.
LEMMA DisjointUnion ==
  ASSUME NEW S, NEW T, IsFiniteSet(S), IsFiniteSet(T), S \cap T = {}
  PROVE  /\ IsFiniteSet(S \cup T)
         /\ Cardinality(S \cup T) = Cardinality(S) + Cardinality(T)
         /\ Cardinality(S) \in Nat /\ Cardinality(T) \in Nat
<1>1. Cardinality(S) \in Nat /\ Cardinality(T) \in Nat
  BY FS_CardinalityType
<1>2. IsFiniteSet(S \cup T) /\ Cardinality(S \cup T) = Cardinality(S) + Cardinality(T) - Cardinality({})
  BY FS_Union
<1>3. Cardinality({}) = 0
  BY FS_EmptySet
<1>4. QED
  BY <1>1, <1>2, <1>3

\* The counts of the four statuses add up.
LEMMA CountsAddUp ==
  ASSUME NEW f, IsFiniteSet(DOMAIN f), \A rule \in DOMAIN f : f[rule].status \in Statuses
  PROVE  Count(f, "PASSED") + Count(f, "FAILED") + Count(f, "NOT_APPLICABLE") + Count(f, "PARTIAL")
           = Cardinality(DOMAIN f)
<1> DEFINE With(s) == {rule \in DOMAIN f : f[rule].status = s}
           A == With("PASSED")  B == With("FAILED")
           C == With("NOT_APPLICABLE")  D == With("PARTIAL")
<1>1. IsFiniteSet(A) /\ IsFiniteSet(B) /\ IsFiniteSet(C) /\ IsFiniteSet(D)
  BY FS_Subset
<1>2. DOMAIN f = ((A \cup B) \cup C) \cup D
  BY DEF Statuses
<1>3. A \cap B = {} /\ (A \cup B) \cap C = {} /\ ((A \cup B) \cup C) \cap D = {}
  OBVIOUS
<1>4. /\ Count(f, "PASSED") = Cardinality(A) /\ Count(f, "FAILED") = Cardinality(B)
      /\ Count(f, "NOT_APPLICABLE") = Cardinality(C) /\ Count(f, "PARTIAL") = Cardinality(D)
  BY DEF Count
<1> HIDE DEF A, B, C, D
<1> DEFINE AB == A \cup B  ABC == AB \cup C
<1>5. /\ IsFiniteSet(AB) /\ Cardinality(AB) = Cardinality(A) + Cardinality(B)
      /\ Cardinality(A) \in Nat /\ Cardinality(B) \in Nat
  BY <1>1, <1>3, DisjointUnion
<1>6. AB \cap C = {} /\ ABC \cap D = {} /\ DOMAIN f = ABC \cup D
  BY <1>2, <1>3
<1> HIDE DEF AB
<1>7. /\ IsFiniteSet(ABC) /\ Cardinality(ABC) = Cardinality(AB) + Cardinality(C)
      /\ Cardinality(C) \in Nat
  BY <1>1, <1>5, <1>6, DisjointUnion
<1> HIDE DEF ABC
<1>8. /\ Cardinality(ABC \cup D) = Cardinality(ABC) + Cardinality(D)
      /\ Cardinality(D) \in Nat
  BY <1>1, <1>6, <1>7, DisjointUnion
<1>9. QED
  BY <1>4, <1>5, <1>6, <1>7, <1>8

-----------------------------------------------------------------------------
(* The scores.                                                             *)

\* Rounding: there is a nearest hundredth, and it is within a half.
LEMMA RoundedToNearest ==
  ASSUME NEW a \in Nat, NEW b \in Nat, b > 0
  PROVE  /\ Rounded(a, b) # {}
         /\ \A k \in Rounded(a, b) : k \in Nat /\ 2 * (k * b - a) <= b /\ 2 * (a - k * b) <= b
<1>1. PICK q : q = a \div b
  OBVIOUS
<1>2. q \in Nat /\ q * b <= a /\ a < q * b + b /\ q * b \in Nat
  BY <1>1
<1>3. (q + 1) * b = q * b + b
  BY <1>2
<1>4. q \in Rounded(a, b) \/ q + 1 \in Rounded(a, b)
  BY <1>1, <1>2, <1>3 DEF Rounded
<1>5. \A k \in Rounded(a, b) : k \in Nat
  BY <1>1, <1>2 DEF Rounded
<1>6. QED
  BY <1>4, <1>5 DEF Rounded

\* The score of a mean is that of its bounds.
LEMMA RoundedBounds ==
  ASSUME NEW a \in Nat, NEW b \in Nat, b > 0, NEW k \in Rounded(a, b), NEW c \in Nat
  PROVE  /\ k \in Nat
         /\ a <= c * b => k <= c
         /\ a = c * b => k = c
         /\ 2 * (c * b - a) > b => k < c
<1>1. k \in Nat /\ 2 * (k * b - a) <= b /\ 2 * (a - k * b) <= b
  BY RoundedToNearest
<1>2. k * b \in Nat /\ c * b \in Nat
  BY <1>1
<1>3. ASSUME k >= c + 1 PROVE k * b >= c * b + b
  <2>1. PICK d \in Nat : k = c + 1 + d
    <3>1. k - c - 1 \in Nat /\ k = c + 1 + (k - c - 1)
      BY <1>1, <1>3
    <3>2. QED
      BY <3>1
  <2>2. k * b = c * b + b + d * b /\ d * b \in Nat
    BY <2>1
  <2>3. QED
    BY <1>2, <2>2
<1>4. ASSUME k <= c - 1 PROVE k * b <= c * b - b
  <2>1. PICK d \in Nat : c = k + 1 + d
    <3>1. c - k - 1 \in Nat /\ c = k + 1 + (c - k - 1)
      BY <1>1, <1>4
    <3>2. QED
      BY <3>1
  <2>2. c * b = k * b + b + d * b /\ d * b \in Nat
    BY <1>1, <2>1
  <2>3. QED
    BY <1>2, <2>2
<1>5. a <= c * b => k <= c
  BY <1>1, <1>2, <1>3
<1>6. a = c * b => k = c
  BY <1>1, <1>2, <1>3, <1>4
<1>7. 2 * (c * b - a) > b => k < c
  BY <1>1, <1>2, <1>3
<1>8. QED
  BY <1>1, <1>5, <1>6, <1>7

\* What a finding of a rule with n units may be: a rule that failed is below
\* the threshold, and one that was partly met lacks a unit, up to rounding.
Graded(f, n) ==
  /\ f \in [status : Statuses, score : 0 .. Full]
  /\ f.status = "PASSED" => f.score = Full
  /\ f.status = "FAILED" => f.score < Threshold
  /\ f.status = "PARTIAL" => n * (2 * (Full - f.score) + 1) >= 2 * Full

\* The score of a rule that is partly met.
LEMMA PartialScore ==
  ASSUME NEW met \in Nat, NEW n \in Nat, met < n, NEW score \in Rounded(Full * met, n)
  PROVE  score \in 0 .. Full /\ n * (2 * (Full - score) + 1) >= 2 * Full
<1>1. Full \in Nat /\ Full * met \in Nat /\ Full * n \in Nat /\ Full * met <= Full * n - Full
  BY DEF Full
<1>2. PICK a \in Nat : a = Full * met
  BY <1>1
<1>3. score \in Nat /\ 2 * (score * n - a) <= n /\ score <= Full
  <2>1. Full * n = n * Full /\ a <= Full * n /\ n > 0 /\ score \in Rounded(a, n)
    BY <1>1, <1>2 DEF Full
  <2>2. QED
    BY <1>1, <2>1, RoundedToNearest, RoundedBounds
<1>4. n * (2 * (Full - score) + 1) = 2 * (Full * n) - 2 * (score * n) + n
  BY <1>1, <1>3 DEF Full
<1>5. score * n \in Nat
  BY <1>3
<1>6. QED
  BY <1>1, <1>2, <1>3, <1>4, <1>5 DEF Full

\* Every rule is graded, from any evidence.
LEMMA RuleGraded ==
  ASSUME NEW rule, NEW seen, Units[rule] \in Nat, IsEvidence(seen, Units[rule])
  PROVE  Graded(Classified(EvaluateRule(rule, seen)), Units[rule])
<1>1. PICK n \in Nat : n = Units[rule]
  OBVIOUS
<1>2. PICK f : f = EvaluateRule(rule, seen)
  OBVIOUS
<1>3. Graded(f, n)
  <2>1. Graded(Finding("NOT_APPLICABLE", 0), n) /\ Graded(Finding("FAILED", 0), n)
    BY DEF Graded, Finding, Statuses, Full, Threshold
  <2>2. Graded(Finding("PASSED", Full), n)
    BY DEF Graded, Finding, Statuses, Full
  <2>3. CASE seen.kind \in {"missing", "no_items"}
    BY <1>2, <2>1, <2>3 DEF EvaluateRule
  <2>4. CASE seen.kind \in {"no_block", "no_required_items", "error"}
    BY <1>2, <2>1, <2>4 DEF EvaluateRule
  <2>5. CASE seen.kind = "units" /\ seen.met = n
    BY <1>1, <1>2, <2>2, <2>5 DEF EvaluateRule
  <2>6. CASE seen.kind = "units" /\ seen.met # n /\ seen.met = 0
    BY <1>1, <1>2, <2>1, <2>6 DEF EvaluateRule
  <2>7. CASE seen.kind = "units" /\ seen.met # n /\ seen.met # 0
    <3>1. PICK met \in Nat : met = seen.met /\ met < n /\ n > 0
      BY <1>1, <2>7 DEF IsEvidence
    <3>2. PICK a \in Nat : a = Full * met
      BY <3>1 DEF Full
    <3>3. PICK score : score = CHOOSE s \in Rounded(a, n) : TRUE
      OBVIOUS
    <3>4. Rounded(a, n) # {}
      BY <3>1, RoundedToNearest
    <3>5. score \in Rounded(a, n)
      BY <3>3, <3>4
    <3>6. score \in 0 .. Full /\ n * (2 * (Full - score) + 1) >= 2 * Full
      BY <3>1, <3>2, <3>5, PartialScore
    <3>7. f = Finding("PARTIAL", score)
      BY <1>1, <1>2, <2>7, <3>1, <3>2, <3>3 DEF EvaluateRule
    <3>8. QED
      BY <3>6, <3>7 DEF Graded, Finding, Statuses
  <2>8. QED
    BY <1>1, <2>3, <2>4, <2>5, <2>6, <2>7 DEF IsEvidence
<1>4. CASE f.status = "PARTIAL" /\ f.score < Threshold
  <2>1. Classified(f) = Finding("FAILED", f.score)
    BY <1>4 DEF Classified
  <2>2. QED
    BY <1>1, <1>2, <1>3, <1>4, <2>1 DEF Graded, Finding, Statuses
<1>5. CASE ~(f.status = "PARTIAL" /\ f.score < Threshold)
  <2>1. Classified(f) = f
    BY <1>5 DEF Classified
  <2>2. QED
    BY <1>1, <1>2, <1>3, <2>1
<1>6. QED
  BY <1>4, <1>5

\* How many findings have a status, and whether one has.
LEMMA CountZero ==
  ASSUME NEW f, IsFiniteSet(DOMAIN f), NEW status
  PROVE  /\ Count(f, status) \in Nat
         /\ Count(f, status) = 0 <=> \A rule \in DOMAIN f : f[rule].status # status
<1> DEFINE S == {rule \in DOMAIN f : f[rule].status = status}
<1>1. IsFiniteSet(S) /\ Count(f, status) = Cardinality(S)
  BY FS_Subset DEF Count
<1>2. S = {} <=> \A rule \in DOMAIN f : f[rule].status # status
  OBVIOUS
<1> HIDE DEF S
<1>3. Cardinality(S) \in Nat /\ (Cardinality(S) = 0 <=> S = {})
  BY <1>1, FS_CardinalityType, FS_EmptySet
<1>4. QED
  BY <1>1, <1>2, <1>3

\* The global score does not contradict the findings it is the mean of.
LEMMA ScoreFollows ==
  ASSUME NEW f, DOMAIN f \subseteq Rules, NEW vdom, NEW score \in Scores(f),
         \A rule \in DOMAIN f : Graded(f[rule], Units[rule])
  PROVE  Agrees(Summary(vdom, f, score))
<1>1. /\ IsFiniteSet(Rules) /\ IsFiniteSet(DOMAIN f)
      /\ \A rule \in DOMAIN f : Units[rule] \in Nat
  BY AuditAssumption, FS_Subset
<1> Full \in Nat /\ Full > 1 /\ Threshold \in Nat /\ Threshold > 0 /\ 2 * (Full - Threshold) > Full
  BY DEF Full, Threshold
<1>2. PICK E : E = Evaluable(f)
  OBVIOUS
<1>3. PICK points : points = [rule \in DOMAIN f |-> f[rule].score]
  OBVIOUS
<1>4. PICK m : m = Cardinality(E)
  OBVIOUS
<1>5. PICK sum : sum = SumFunctionOnSet(points, E)
  OBVIOUS
<1>6. /\ E \subseteq DOMAIN f /\ IsFiniteSet(E) /\ m \in Nat /\ (m = 0 <=> E = {})
      /\ m <= Cardinality(Rules) /\ Cardinality(Rules) \in Nat
  <2>1. E \subseteq DOMAIN f
    BY <1>2 DEF Evaluable
  <2>2. IsFiniteSet(E) /\ Cardinality(E) <= Cardinality(Rules) /\ Cardinality(Rules) \in Nat
    BY <1>1, <2>1, FS_Subset, FS_CardinalityType
  <2>3. QED
    BY <1>4, <2>1, <2>2, FS_CardinalityType, FS_EmptySet
<1>7. /\ E = {} => score = Full
      /\ E # {} => score \in Rounded(sum, m)
  BY <1>2, <1>3, <1>4, <1>5 DEF Scores
<1>8. \A rule \in E : /\ f[rule].status \in {"PASSED", "PARTIAL", "FAILED"}
                      /\ points[rule] = f[rule].score /\ points[rule] \in 0 .. Full
  BY <1>2, <1>3, <1>6 DEF Evaluable, Graded, Statuses
<1>9. /\ Summary(vdom, f, score).score = score /\ Summary(vdom, f, score).findings = f
      /\ Summary(vdom, f, score).failed = Count(f, "FAILED")
      /\ Summary(vdom, f, score).passed = Count(f, "PASSED")
  BY DEF Summary
<1>10. PICK failed \in Nat : /\ failed = Count(f, "FAILED")
                             /\ failed = 0 <=> \A rule \in DOMAIN f : f[rule].status # "FAILED"
  BY <1>1, CountZero
<1>11. PICK partial \in Nat : /\ partial = Count(f, "PARTIAL")
                              /\ partial = 0 <=> \A rule \in DOMAIN f : f[rule].status # "PARTIAL"
  BY <1>1, CountZero
<1>12. PICK passed \in Nat : /\ passed = Count(f, "PASSED")
                             /\ passed = 0 <=> \A rule \in DOMAIN f : f[rule].status # "PASSED"
  BY <1>1, CountZero
\* Bounds on the mean.
<1>13. ASSUME NEW low \in Nat, NEW high \in Nat, \A rule \in E : points[rule] \in low .. high
       PROVE  /\ sum \in Nat /\ low * m <= sum /\ sum <= high * m
              /\ \A y \in E : sum <= high * m - (high - points[y])
  BY <1>4, <1>5, <1>6, <1>13, SumBounds
<1>14. sum \in Nat /\ sum <= Full * m /\ \A y \in E : sum <= Full * m - (Full - points[y])
  BY <1>8, <1>13
<1>15. score \in 0 .. Full
  <2>1. CASE E # {}
    <3>1. m > 0 /\ score \in Rounded(sum, m) /\ sum \in Nat /\ sum <= Full * m
      BY <1>6, <1>7, <1>14, <2>1
    <3>2. score \in Nat /\ score <= Full
      BY <1>6, <3>1, RoundedBounds
    <3>3. QED
      BY <3>2
  <2>2. QED
    BY <1>7, <2>1
<1>16. ASSUME failed = 0, partial = 0 PROVE score = Full
  <2>1. \A rule \in E : points[rule] \in Full .. Full
    <3>1. ASSUME NEW rule \in E PROVE f[rule].status = "PASSED" /\ f[rule].score = Full
      BY <1>6, <1>8, <1>10, <1>11, <1>16 DEF Graded
    <3>2. QED
      BY <1>8, <3>1
  <2>2. sum = Full * m
    <3>1. Full * m \in Nat /\ sum \in Nat
      BY <1>6, <1>14
    <3>2. Full * m <= sum /\ sum <= Full * m
      BY <1>13, <2>1
    <3>3. QED
      BY <3>1, <3>2
  <2>3. CASE E # {}
    BY <1>6, <1>7, <1>14, <2>2, <2>3, RoundedBounds
  <2>4. QED
    BY <1>7, <2>3
\* Half a hundredth of the mean is missing.
<1>17. ASSUME NEW y \in E, 2 * (Full - points[y]) > m PROVE score < Full
  <2>1. E # {} /\ m > 0 /\ points[y] \in Nat
    BY <1>6, <1>8
  <2>2. 2 * (Full * m - sum) > m
    <3>1. Full * m \in Nat /\ sum \in Nat /\ sum <= Full * m - (Full - points[y])
      BY <1>6, <1>14
    <3>2. QED
      BY <1>6, <1>17, <2>1, <3>1
  <2>3. QED
    BY <1>6, <1>7, <1>14, <2>1, <2>2, RoundedBounds
<1>18. ASSUME failed > 0, Cardinality(Rules) <= Full PROVE score < Full
  <2>1. PICK y \in DOMAIN f : f[y].status = "FAILED"
    BY <1>10, <1>18
  <2>2. y \in E /\ points[y] < Threshold /\ points[y] \in 0 .. Full
    BY <1>2, <1>8, <2>1 DEF Evaluable, Graded
  <2>3. QED
    <3>1. 2 * (Full - points[y]) > m
      BY <1>6, <1>18, <2>2
    <3>2. QED
      BY <1>17, <2>2, <3>1
<1>19. ASSUME failed + partial > 0, Distinguishable PROVE score < Full
  <2>1. CASE failed > 0
    BY <1>18, <1>19, <2>1 DEF Distinguishable
  <2>2. CASE partial > 0
    <3>1. PICK y \in DOMAIN f : f[y].status = "PARTIAL"
      BY <1>11, <2>2
    <3>2. y \in E /\ points[y] \in 0 .. Full /\ points[y] = f[y].score
      BY <1>2, <1>8, <3>1 DEF Evaluable
    <3>3. PICK n \in Nat : n = Units[y] /\ n * (2 * (Full - points[y]) + 1) >= 2 * Full
      BY <1>1, <3>1, <3>2 DEF Graded
    <3>4. PICK d \in Nat : d = Full - points[y]
      <4>1. Full - points[y] \in Nat
        BY <3>2
      <4>2. QED
        BY <4>1
    <3>5. n * m <= Full
      <4>1. PICK k \in Nat : k = Cardinality(Rules) /\ m <= k
        BY <1>6
      <4>2. n * k <= Full
        BY <1>19, <3>3, <4>1 DEF Distinguishable
      <4>3. n * m <= n * k
        BY <3>3, <4>1, <1>6
      <4>4. n * m \in Nat /\ n * k \in Nat
        BY <3>3, <4>1, <1>6
      <4>5. QED
        BY <4>2, <4>3, <4>4
    <3>6. m > 0 /\ n > 0
      BY <1>6, <3>2, <3>3
    <3>7. 2 * d > m
      <4>1. SUFFICES ASSUME 2 * d <= m PROVE FALSE
        BY <1>6, <3>4
      <4>2. n * (2 * d + 1) <= n * (m + 1) /\ n * (m + 1) = n * m + n
        BY <1>6, <3>3, <3>4, <4>1
      <4>3. n * m + n >= 2 * Full /\ n * m \in Nat
        <5>1. n * (2 * d + 1) >= 2 * Full
          BY <3>3, <3>4
        <5>2. n * (2 * d + 1) \in Nat /\ n * m \in Nat
          BY <1>6, <3>3, <3>4
        <5>3. QED
          BY <3>3, <4>2, <5>1, <5>2
      <4>4. n >= Full
        BY <3>5, <4>3
      <4>5. m = 1
        <5>1. CASE m >= 2
          <6>1. n * m >= n * 2
            BY <1>6, <3>3, <5>1
          <6>2. QED
            BY <3>3, <3>5, <4>3, <4>4, <6>1
        <5>2. QED
          BY <1>6, <3>6, <5>1
      <4>6. d = 0 /\ n * m = n
        BY <3>3, <3>4, <4>1, <4>5
      <4>7. QED
        BY <3>3, <3>4, <3>5, <4>6
    <3>8. QED
      BY <1>17, <3>2, <3>4, <3>7
  <2>3. QED
    BY <1>19, <2>1, <2>2
<1>20. ASSUME partial = 0, passed = 0, failed > 0 PROVE score < Threshold
  <2>1. \A rule \in E : points[rule] \in 0 .. Threshold - 1
    <3>1. ASSUME NEW rule \in E PROVE f[rule].status = "FAILED" /\ f[rule].score < Threshold
      BY <1>6, <1>8, <1>11, <1>12, <1>20 DEF Graded
    <3>2. QED
      BY <1>8, <3>1
  <2>2. sum <= (Threshold - 1) * m
    <3>1. 0 \in Nat /\ Threshold - 1 \in Nat
      BY DEF Threshold
    <3>2. QED
      BY <1>13, <2>1, <3>1
  <2>3. E # {} /\ m > 0
    <3>1. PICK y \in DOMAIN f : f[y].status = "FAILED"
      BY <1>10, <1>20
    <3>2. QED
      BY <1>2, <1>6, <3>1 DEF Evaluable
  <2>4. score <= Threshold - 1
    <3>1. Threshold - 1 \in Nat
      BY DEF Threshold
    <3>2. QED
      BY <1>6, <1>7, <1>14, <2>2, <2>3, <3>1, RoundedBounds
  <2>5. QED
    BY <1>15, <2>4 DEF Threshold
<1>21. QED
  BY <1>9, <1>10, <1>11, <1>12, <1>15, <1>16, <1>18, <1>19, <1>20 DEF Agrees

\* The report that is flushed is whole.
LEMMA SummaryWhole ==
  ASSUME RequestsOK, NEW r \in Requests, pc[r] = "evaluating", NEW score \in Scores(FindingsOf(r))
  PROVE  /\ Whole(Summary(job[r].vdom, FindingsOf(r), score))
         /\ Summary(job[r].vdom, FindingsOf(r), score).vdom = job[r].vdom
<1> PICK f : f = FindingsOf(r)
  OBVIOUS
<1>1. /\ DOMAIN f = job[r].rules /\ job[r].rules # {} /\ job[r].rules \subseteq Rules
      /\ \A rule \in DOMAIN f : f[rule] = Classified(EvaluateRule(rule, SeenOf(r, rule)))
      /\ job[r].vdom \in Ids \cup {Null}
  BY DEF FindingsOf, RequestsOK, Fits
<1>2. IsFiniteSet(DOMAIN f)
  BY <1>1, AuditAssumption, FS_Subset
<1>3. ASSUME NEW rule \in DOMAIN f PROVE Graded(f[rule], Units[rule])
  <2>1. Units[rule] \in Nat
    BY <1>1, AuditAssumption
  <2>2. IsEvidence(SeenOf(r, rule), Units[rule])
    BY DEF RequestsOK, Fits, SeenOf, Other, IsEvidence
  <2>3. QED
    BY <1>1, <2>1, <2>2, RuleGraded
<1>4. \A rule \in DOMAIN f : f[rule] \in [status : Statuses, score : 0 .. Full]
  BY <1>3 DEF Graded
<1>5. Count(f, "PASSED") + Count(f, "FAILED") + Count(f, "NOT_APPLICABLE") + Count(f, "PARTIAL")
        = Cardinality(DOMAIN f)
  BY <1>2, <1>4, CountsAddUp
<1>6. PICK report : report = Summary(job[r].vdom, f, score)
  OBVIOUS
<1>7. Agrees(report)
  BY <1>1, <1>3, <1>6, ScoreFollows
<1>8. IsReport(report)
  BY <1>1, <1>4, <1>6, <1>7 DEF IsReport, Summary, Agrees
<1>9. Whole(report) /\ report.vdom = job[r].vdom
  BY <1>1, <1>5, <1>6, <1>7, <1>8 DEF Whole, Summary
<1>10. QED
  BY <1>6, <1>9
-----------------------------------------------------------------------------
(* Induction.                                                              *)

\* The parts of the invariant in the next state, by the values that it has.
LEMMA NextRequests ==
  ASSUME pc' \in [Requests -> Steps], job' = [r \in Requests |-> job'[r]],
         \A r \in Requests : Fits(pc'[r], job'[r])
  PROVE  RequestsOK'
BY DEF RequestsOK, Steps

\* The same for the reports.
LEMMA NextReports ==
  ASSUME DOMAIN reports' \subseteq Requests,
         \A a \in DOMAIN reports' : Whole(reports'[a]) /\ pc'[a] \in {"committed", "ok", "error"}
  PROVE  ReportsOK'
BY DEF ReportsOK

\* And for the VDOMs.
LEMMA NextVdoms ==
  ASSUME DOMAIN vdoms' \subseteq Ids, \A v \in DOMAIN vdoms' : vdoms'[v] \in Names
  PROVE  VdomsOK'
BY DEF VdomsOK, Ids, Names

\* A request without a job.
LEMMA IdleFits ==
  ASSUME NEW step, step \notin {"fetching", "parsing", "evaluating", "flushed"}
  PROVE  Fits(step, Idle)
<1>1. DOMAIN Idle.seen = {} /\ Root \in Names
  BY DEF Idle, Names
<1>2. QED
  BY <1>1 DEF Fits, Idle

\* It holds initially.
LEMMA InitHolds == Init => IndInv
<1> SUFFICES ASSUME Init PROVE IndInv
  OBVIOUS
<1>1. RequestsOK
  BY IdleFits DEF Init, RequestsOK, Steps
<1>2. DOMAIN reports = {}
  BY DEF Init
<1>3. ReportsOK
  BY <1>2 DEF ReportsOK
<1>4. RefersOK
  BY <1>2 DEF Init, RefersOK
<1>5. VdomsOK
  BY AuditAssumption DEF Init, VdomsOK, Ids
<1>6. QED
  BY <1>1, <1>3, <1>4, <1>5 DEF IndInv

\* A request goes to a step with a job that fits it, and no report changes.
LEMMA Moves ==
  ASSUME IndInv, NEW r \in Requests, NEW step \in Steps,
         pc' = [pc EXCEPT ![r] = step], job' = [job EXCEPT ![r] = job'[r]],
         Fits(step, job'[r]),
         r \in DOMAIN reports => step \in {"committed", "ok", "error"},
         step = "flushed" => job'[r].draft.vdom \in DOMAIN vdoms \cup {Null},
         DOMAIN vdoms \subseteq DOMAIN vdoms', VdomsOK', reports' = reports
  PROVE  IndInv'
<1>1. RequestsOK'
  <2>1. pc' \in [Requests -> Steps] /\ job' = [q \in Requests |-> job'[q]]
    BY DEF IndInv, RequestsOK
  <2>2. ASSUME NEW q \in Requests PROVE Fits(pc'[q], job'[q])
    BY DEF IndInv, RequestsOK
  <2>3. QED
    BY <2>1, <2>2, NextRequests
<1>2. ReportsOK'
  BY NextReports DEF IndInv, RequestsOK, ReportsOK
<1>3. RefersOK'
  <2>1. ASSUME NEW q \in Requests, pc'[q] = "flushed"
        PROVE  job'[q].draft.vdom \in DOMAIN vdoms' \cup {Null}
    BY <2>1 DEF IndInv, RequestsOK, RefersOK
  <2>2. QED
    BY <2>1 DEF IndInv, RefersOK
<1>4. QED
  BY <1>1, <1>2, <1>3 DEF IndInv

\* VDOMs that do not change keep their types.
LEMMA SameVdoms == IndInv /\ UNCHANGED vdoms => VdomsOK'
BY NextVdoms DEF IndInv, VdomsOK

\* A request fails.
LEMMA ErrorKeeps ==
  ASSUME IndInv, NEW r \in Requests, Error(r)
  PROVE  IndInv'
<1>1. job' = [job EXCEPT ![r] = job'[r]] /\ job'[r] = Idle
  BY DEF Error, IndInv, RequestsOK
<1>2. Fits("error", job'[r])
  BY <1>1, IdleFits
<1>3. VdomsOK'
  BY SameVdoms DEF Error
<1>4. QED
  BY <1>1, <1>2, <1>3, Moves DEF Error, GoTo, Steps

\* The router resolves what is to be audited.
LEMMA ResolveKeeps ==
  ASSUME IndInv, NEW r \in Requests,
         AuditVdom(r) \/ AuditDevice(r) \/ InsertRoot(r) \/ AuditOffline(r)
  PROVE  IndInv'
<1>1. CASE AuditVdom(r)
  <2>1. CASE Error(r)
    BY <2>1, ErrorKeeps
  <2>2. ASSUME NEW v \in DOMAIN vdoms, pc[r] = "new", GoTo(r, "resolved"),
               job' = [job EXCEPT ![r].vdom = v, ![r].name = vdoms[v]], UNCHANGED <<vdoms, reports>>
        PROVE  IndInv'
    <3>1. /\ job' = [job EXCEPT ![r] = job'[r]]
          /\ job'[r] = [job[r] EXCEPT !.vdom = v, !.name = vdoms[v]]
      BY <2>2 DEF IndInv, RequestsOK
    <3>2. v \in Ids /\ vdoms[v] \in Names
      BY <2>2 DEF IndInv, VdomsOK
    <3>3. Fits("resolved", job'[r])
      BY <2>2, <3>1, <3>2 DEF IndInv, RequestsOK, Fits
    <3>4. QED
      BY <2>2, <3>1, <3>3, Moves, SameVdoms DEF GoTo, Steps, IndInv, ReportsOK
  <2>3. QED
    BY <1>1, <2>1, <2>2 DEF AuditVdom
<1>2. CASE AuditDevice(r)
  <2>1. pc[r] = "new" /\ UNCHANGED <<vdoms, reports>>
    BY <1>2 DEF AuditDevice
  <2>2. ASSUME NEW v \in Ids, GoTo(r, "resolved"), job' = [job EXCEPT ![r].vdom = v]
        PROVE  IndInv'
    <3>1. job' = [job EXCEPT ![r] = job'[r]] /\ Fits("resolved", job'[r])
      BY <2>1, <2>2 DEF IndInv, RequestsOK, Fits
    <3>2. QED
      BY <2>1, <2>2, <3>1, Moves, SameVdoms DEF GoTo, Steps, IndInv, ReportsOK
  <2>3. CASE GoTo(r, "ensure_root") /\ UNCHANGED job
    <3>1. job' = [job EXCEPT ![r] = job'[r]] /\ Fits("ensure_root", job'[r])
      BY <2>1, <2>3 DEF IndInv, RequestsOK, Fits
    <3>2. QED
      BY <2>1, <2>3, <3>1, Moves, SameVdoms DEF GoTo, Steps, IndInv, ReportsOK
  <2>4. CASE Taken(Root)
    <3>1. PICK v : v = CHOOSE w \in DOMAIN vdoms : vdoms[w] = Root
      OBVIOUS
    <3>2. v \in Ids
      BY <2>4, <3>1 DEF Taken, IndInv, VdomsOK
    <3>3. QED
      BY <1>2, <2>2, <2>4, <3>1, <3>2 DEF AuditDevice
  <2>5. QED
    BY <1>2, <2>3, <2>4 DEF AuditDevice
<1>3. CASE InsertRoot(r)
  <2>1. CASE Error(r)
    BY <2>1, ErrorKeeps
  <2>2. CASE ~Error(r)
    <3>1. /\ pc[r] = "ensure_root" /\ GoTo(r, "resolved") /\ UNCHANGED reports
          /\ job' = [job EXCEPT ![r].vdom = r]
          /\ vdoms' = [v \in DOMAIN vdoms \cup {r} |-> IF v = r THEN Root ELSE vdoms[v]]
      BY <1>3, <2>2 DEF InsertRoot
    <3>2. job' = [job EXCEPT ![r] = job'[r]] /\ Fits("resolved", job'[r])
      BY <3>1 DEF IndInv, RequestsOK, Fits, Ids
    <3>3. VdomsOK' /\ DOMAIN vdoms \subseteq DOMAIN vdoms'
      BY <3>1, NextVdoms DEF IndInv, VdomsOK, Ids, Names
    <3>4. QED
      BY <3>1, <3>2, <3>3, Moves, SameVdoms DEF GoTo, Steps, IndInv, ReportsOK
  <2>3. QED
    BY <2>1, <2>2
<1>4. CASE AuditOffline(r)
  <2>1. PICK v \in Ids \cup {Null} :
          /\ pc[r] = "new" /\ GoTo(r, "resolved") /\ UNCHANGED <<vdoms, reports>>
          /\ job' = [job EXCEPT ![r].vdom = v, ![r].offline = TRUE]
    BY <1>4 DEF AuditOffline
  <2>2. /\ job' = [job EXCEPT ![r] = job'[r]]
        /\ job'[r] = [job[r] EXCEPT !.vdom = v, !.offline = TRUE]
    BY <2>1 DEF IndInv, RequestsOK
  <2>3. Fits("resolved", job'[r])
    BY <2>1, <2>2 DEF IndInv, RequestsOK, Fits
  <2>4. QED
    BY <2>1, <2>2, <2>3, Moves, SameVdoms DEF GoTo, Steps, IndInv, ReportsOK
<1>5. QED
  BY <1>1, <1>2, <1>3, <1>4

\* The evidence for a set of rules.
LEMMA EvidenceFor ==
  ASSUME NEW rules \in SUBSET Rules, NEW f \in Evidence[rules]
  PROVE  DOMAIN f = rules /\ \A rule \in rules : IsEvidence(f[rule], Units[rule])
<1>1. /\ f \in [rules -> UNION {Outcomes[rule] : rule \in rules}]
      /\ \A rule \in rules : f[rule] \in Outcomes[rule]
  BY DEF Evidence
<1>2. ASSUME NEW rule \in rules PROVE IsEvidence(f[rule], Units[rule])
  <2>1. \/ \E kind \in {"no_block", "no_items", "no_required_items", "error"} : f[rule] = Other(kind)
        \/ \E n \in 0 .. Units[rule] : f[rule] = Met(n)
    BY <1>1, AuditAssumption
  <2>2. ASSUME NEW kind \in {"no_block", "no_items", "no_required_items", "error"}, f[rule] = Other(kind)
        PROVE  IsEvidence(f[rule], Units[rule])
    BY <2>2 DEF IsEvidence, Other
  <2>3. ASSUME NEW n \in 0 .. Units[rule], f[rule] = Met(n)
        PROVE  IsEvidence(f[rule], Units[rule])
    BY <2>3 DEF IsEvidence, Met
  <2>4. QED
    BY <2>1, <2>2, <2>3
<1>3. QED
  BY <1>1, <1>2

\* The service selects the rules and asks for their evidence.
LEMMA EvidenceKeeps ==
  ASSUME IndInv, NEW r \in Requests,
         SelectRules(r) \/ Fetch(r) \/ Fetched(r) \/ ParseBackup(r)
  PROVE  IndInv'
<1>1. CASE SelectRules(r)
  <2>1. CASE Error(r)
    BY <2>1, ErrorKeeps
  <2>2. ASSUME NEW rules \in Selections, rules # {}, pc[r] = "resolved", UNCHANGED <<vdoms, reports>>,
               NEW step \in {"parsing", "fetching"}, GoTo(r, step),
               job' = [job EXCEPT ![r].rules = rules]
        PROVE  IndInv'
    <3>1. rules \subseteq Rules
      BY AuditAssumption DEF Selections
    <3>2. job' = [job EXCEPT ![r] = job'[r]] /\ Fits(step, job'[r])
      BY <2>2, <3>1 DEF IndInv, RequestsOK, Fits
    <3>3. QED
      BY <2>2, <3>2, Moves, SameVdoms DEF GoTo, Steps, IndInv, ReportsOK
  <2>3. QED
    BY <1>1, <2>1, <2>2 DEF SelectRules
<1>2. CASE Fetch(r)
  <2>1. /\ pc[r] = "fetching" /\ UNCHANGED <<vdoms, reports, pc>>
    BY <1>2 DEF Fetch
  <2>2. PICK endpoint \in Unasked(r) : \E f \in Evidence[{}] \cup Evidence[Of(job[r].rules, {endpoint})] :
          job' = [job EXCEPT ![r].asked = @ \cup {endpoint},
            ![r].seen = [rule \in DOMAIN @ \cup DOMAIN f |-> IF rule \in DOMAIN f THEN f[rule] ELSE @[rule]]]
    BY <1>2 DEF Fetch
  <2> PICK f \in Evidence[{}] \cup Evidence[Of(job[r].rules, {endpoint})] :
          job' = [job EXCEPT ![r].asked = @ \cup {endpoint},
            ![r].seen = [rule \in DOMAIN @ \cup DOMAIN f |-> IF rule \in DOMAIN f THEN f[rule] ELSE @[rule]]]
    BY <2>2
  <2>3. PICK rules, was : rules = job[r].rules /\ was = job[r].seen
    OBVIOUS
  <2>4. /\ rules \in SUBSET Rules /\ job[r].asked \subseteq Endpoints
        /\ DOMAIN was \subseteq rules /\ \A rule \in DOMAIN was : IsEvidence(was[rule], Units[rule])
    BY <2>3 DEF IndInv, RequestsOK, Fits
  <2>5. PICK asked : asked = job[r].asked \cup {endpoint} /\ asked \subseteq Endpoints
    <3>1. endpoint \in Endpoints
      BY <2>3, <2>4 DEF Unasked, Asked, Endpoints
    <3>2. QED
      BY <2>4, <3>1
  <2>6. DOMAIN f \subseteq rules /\ \A rule \in DOMAIN f : IsEvidence(f[rule], Units[rule])
    <3>1. PICK asking : asking = Of(rules, {endpoint})
      OBVIOUS
    <3>2. asking \in SUBSET Rules /\ asking \subseteq rules /\ {} \in SUBSET Rules
      BY <2>4, <3>1 DEF Of
    <3>3. CASE f \in Evidence[{}]
      BY <3>2, <3>3, EvidenceFor
    <3>4. CASE f \in Evidence[asking]
      BY <3>2, <3>4, EvidenceFor
    <3>5. QED
      BY <2>3, <3>1, <3>3, <3>4
  <2>7. PICK seen : seen = [rule \in DOMAIN was \cup DOMAIN f |-> IF rule \in DOMAIN f THEN f[rule] ELSE was[rule]]
    OBVIOUS
  <2>8. DOMAIN seen \subseteq rules /\ \A rule \in DOMAIN seen : IsEvidence(seen[rule], Units[rule])
    BY <2>4, <2>6, <2>7
  <2>9. /\ job' = [job EXCEPT ![r] = job'[r]]
        /\ job'[r] = [job[r] EXCEPT !.asked = asked, !.seen = seen]
    BY <2>2, <2>3, <2>5, <2>7 DEF IndInv, RequestsOK
  <2>10. Fits("fetching", job'[r])
    BY <2>1, <2>3, <2>5, <2>8, <2>9 DEF IndInv, RequestsOK, Fits
  <2>11. pc' = [pc EXCEPT ![r] = "fetching"]
    BY <2>1 DEF IndInv, RequestsOK
  <2>12. QED
    BY <2>1, <2>9, <2>10, <2>11, Moves, SameVdoms DEF Steps, IndInv, ReportsOK
<1>3. CASE Fetched(r)
  <2>1. CASE Error(r)
    BY <2>1, ErrorKeeps
  <2>2. CASE pc[r] = "fetching" /\ GoTo(r, "evaluating") /\ UNCHANGED <<vdoms, reports, job>>
    <3>1. job' = [job EXCEPT ![r] = job'[r]] /\ Fits("evaluating", job'[r])
      BY <2>2 DEF IndInv, RequestsOK, Fits
    <3>2. QED
      BY <2>2, <3>1, Moves, SameVdoms DEF GoTo, Steps, IndInv, ReportsOK
  <2>3. QED
    BY <1>3, <2>1, <2>2 DEF Fetched
<1>4. CASE ParseBackup(r)
  <2>1. CASE Error(r)
    BY <2>1, ErrorKeeps
  <2>2. ASSUME pc[r] = "parsing", GoTo(r, "evaluating"), UNCHANGED <<vdoms, reports>>,
               NEW present, NEW f \in Evidence[Of(job[r].rules, present)],
               job' = [job EXCEPT ![r].seen = f]
        PROVE  IndInv'
    <3>1. job[r].rules \subseteq Rules
      BY DEF IndInv, RequestsOK, Fits
    <3>2. DOMAIN f \subseteq job[r].rules /\ \A rule \in DOMAIN f : IsEvidence(f[rule], Units[rule])
      BY <2>2, <3>1, EvidenceFor DEF Of
    <3>3. job' = [job EXCEPT ![r] = job'[r]] /\ Fits("evaluating", job'[r])
      BY <2>2, <3>2 DEF IndInv, RequestsOK, Fits
    <3>4. QED
      BY <2>2, <3>3, Moves, SameVdoms DEF GoTo, Steps, IndInv, ReportsOK
  <2>3. QED
    BY <1>4, <2>1, <2>2 DEF ParseBackup
<1>5. QED
  BY <1>1, <1>2, <1>3, <1>4

\* The report is flushed with the row it refers to in place.
LEMMA FlushReportKeeps ==
  ASSUME IndInv, NEW r \in Requests, FlushReport(r)
  PROVE  IndInv'
<1>1. CASE Error(r)
  BY <1>1, ErrorKeeps
<1>2. CASE ~Error(r)
  <2>1. PICK score \in Scores(FindingsOf(r)) :
          /\ pc[r] = "evaluating" /\ GoTo(r, "flushed") /\ UNCHANGED <<vdoms, reports>>
          /\ job[r].vdom \in DOMAIN vdoms \cup {Null}
          /\ job' = [job EXCEPT ![r] = [Idle EXCEPT !.draft = Summary(job[r].vdom, FindingsOf(r), score)]]
    BY <1>2 DEF FlushReport
  <2>2. PICK report : report = Summary(job[r].vdom, FindingsOf(r), score)
    OBVIOUS
  <2>3. Whole(report) /\ report.vdom = job[r].vdom
    BY <2>1, <2>2, SummaryWhole DEF IndInv
  <2>4. job' = [job EXCEPT ![r] = job'[r]] /\ job'[r] = [Idle EXCEPT !.draft = report]
    BY <2>1, <2>2 DEF IndInv, RequestsOK
  <2>5. Fits("flushed", job'[r]) /\ job'[r].draft = report
    <3>1. DOMAIN Idle.seen = {} /\ Root \in Names
      BY DEF Idle, Names
    <3>2. QED
      BY <2>3, <2>4, <3>1 DEF Fits, Idle
  <2>6. QED
    BY <2>1, <2>3, <2>4, <2>5, Moves, SameVdoms DEF GoTo, Steps, IndInv, ReportsOK
<1>3. QED
  BY <1>1, <1>2

\* The report is committed; it still refers to a row.
LEMMA CommitReportKeeps ==
  ASSUME IndInv, NEW r \in Requests, CommitReport(r)
  PROVE  IndInv'
<1>1. /\ pc[r] = "flushed" /\ pc' = [pc EXCEPT ![r] = "committed"]
      /\ job' = [job EXCEPT ![r] = Idle] /\ vdoms' = vdoms
      /\ DOMAIN reports' = DOMAIN reports \cup {r}
      /\ reports'[r] = job[r].draft
      /\ \A a \in DOMAIN reports : a # r => reports'[a] = reports[a]
  BY DEF CommitReport, GoTo
<1>2. Fits("committed", Idle)
  BY IdleFits
<1>3. RequestsOK'
  <2>1. ASSUME NEW q \in Requests PROVE Fits(pc'[q], job'[q])
    BY <1>1, <1>2 DEF IndInv, RequestsOK
  <2>2. pc' \in [Requests -> Steps] /\ job' = [q \in Requests |-> job'[q]]
    BY <1>1 DEF IndInv, RequestsOK, Steps
  <2>3. QED
    BY <2>1, <2>2, NextRequests
<1>4. Whole(job[r].draft) /\ job[r].draft.vdom \in DOMAIN vdoms \cup {Null}
  BY <1>1 DEF IndInv, RequestsOK, Fits, RefersOK
<1>5. ReportsOK'
  <2>1. ASSUME NEW a \in DOMAIN reports' PROVE Whole(reports'[a]) /\ pc'[a] \in {"committed", "ok", "error"}
    BY <1>1, <1>4 DEF IndInv, RequestsOK, ReportsOK
  <2>2. QED
    BY <1>1, <2>1, NextReports DEF IndInv, ReportsOK
<1>6. RefersOK'
  BY <1>1, <1>4 DEF IndInv, RequestsOK, RefersOK
<1>7. QED
  BY <1>1, <1>3, <1>5, <1>6, SameVdoms DEF IndInv

\* A VDOM is looked up to be deleted; an answer is given.
LEMMA RestKeeps ==
  ASSUME IndInv, NEW r \in Requests, Answer(r) \/ DeleteVdom(r) \/ Abort(r)
  PROVE  IndInv'
<1>1. CASE Answer(r)
  <2>1. job' = [job EXCEPT ![r] = job'[r]] /\ Fits("ok", job'[r])
    BY <1>1 DEF Answer, IndInv, RequestsOK, Fits
  <2>2. QED
    BY <1>1, <2>1, Moves, SameVdoms DEF Answer, GoTo, Steps
<1>2. CASE DeleteVdom(r)
  <2>1. CASE Error(r)
    BY <2>1, ErrorKeeps
  <2>2. ASSUME NEW v \in Ids, pc[r] = "new", GoTo(r, "deleting"), UNCHANGED <<vdoms, reports>>,
               job' = [job EXCEPT ![r].vdom = v]
        PROVE  IndInv'
    <3>1. job' = [job EXCEPT ![r] = job'[r]] /\ Fits("deleting", job'[r])
      BY <2>2 DEF IndInv, RequestsOK, Fits
    <3>2. QED
      BY <2>2, <3>1, Moves, SameVdoms DEF GoTo, Steps, IndInv, ReportsOK
  <2>3. QED
    BY <1>2, <2>1, <2>2 DEF DeleteVdom
<1>3. CASE Abort(r)
  BY <1>3, ErrorKeeps DEF Abort
<1>4. QED
  BY <1>1, <1>2, <1>3

\* A VDOM is deleted: reports lose their reference to it, and no flushed one
\* has any.
LEMMA EraseVdomKeeps ==
  ASSUME IndInv, NEW r \in Requests, EraseVdom(r)
  PROVE  IndInv'
<1>1. PICK v : v = job[r].vdom
  OBVIOUS
<1>2. /\ pc[r] = "deleting" /\ ~Referenced(v) /\ pc' = [pc EXCEPT ![r] = "ok"]
      /\ DOMAIN vdoms' = DOMAIN vdoms \ {v} /\ job' = [job EXCEPT ![r] = Idle]
      /\ DOMAIN reports' = DOMAIN reports
      /\ \A a \in DOMAIN reports :
           reports'[a] = IF reports[a].vdom = v THEN [reports[a] EXCEPT !.vdom = Null] ELSE reports[a]
  BY <1>1 DEF EraseVdom, GoTo
<1>3. Fits("ok", Idle)
  BY IdleFits
<1>4. RequestsOK'
  <2>1. ASSUME NEW q \in Requests PROVE Fits(pc'[q], job'[q])
    BY <1>2, <1>3 DEF IndInv, RequestsOK
  <2>2. pc' \in [Requests -> Steps] /\ job' = [q \in Requests |-> job'[q]]
    BY <1>2 DEF IndInv, RequestsOK, Steps
  <2>3. QED
    BY <2>1, <2>2, NextRequests
<1>5. ASSUME NEW a \in DOMAIN reports
      PROVE  Whole(reports'[a]) /\ reports'[a].vdom \in DOMAIN vdoms' \cup {Null}
  <2>1. Whole(reports[a]) /\ reports[a].vdom \in DOMAIN vdoms \cup {Null}
    BY DEF IndInv, ReportsOK, RefersOK
  <2>2. CASE reports[a].vdom = v
    <3>1. reports'[a] = [reports[a] EXCEPT !.vdom = Null]
      BY <1>2, <2>2
    <3>2. Whole(reports'[a]) /\ reports'[a].vdom = Null
      BY <2>1, <3>1 DEF Whole, IsReport, Agrees
    <3>3. QED
      BY <3>2
  <2>3. CASE reports[a].vdom # v
    BY <1>2, <2>1, <2>3
  <2>4. QED
    BY <2>2, <2>3
<1>6. ReportsOK'
  <2>1. \A a \in DOMAIN reports' : pc'[a] \in {"committed", "ok", "error"}
    BY <1>2 DEF IndInv, RequestsOK, ReportsOK
  <2>2. QED
    BY <1>2, <1>5, <2>1, NextReports DEF IndInv, ReportsOK
<1>7. ASSUME NEW q \in Requests, pc'[q] = "flushed"
      PROVE  job'[q].draft.vdom \in DOMAIN vdoms' \cup {Null}
  <2>1. q # r /\ pc[q] = "flushed" /\ job'[q] = job[q]
    BY <1>2, <1>7 DEF IndInv, RequestsOK
  <2>2. job[q].draft.vdom # v
    BY <1>2, <2>1 DEF Referenced
  <2>3. QED
    BY <1>2, <2>1, <2>2 DEF IndInv, RefersOK
<1>8. VdomsOK'
  <2>1. \A w \in DOMAIN vdoms' : vdoms'[w] = vdoms[w]
    BY <1>1 DEF EraseVdom
  <2>2. QED
    BY <1>2, <2>1, NextVdoms DEF IndInv, VdomsOK
<1>9. QED
  BY <1>2, <1>4, <1>5, <1>6, <1>7, <1>8 DEF IndInv, RefersOK

\* Every step keeps the inductive invariant.
LEMMA NextKeeps == IndInv /\ [Next]_vars => IndInv'
<1> SUFFICES ASSUME IndInv, [Next]_vars PROVE IndInv'
  OBVIOUS
<1>1. CASE UNCHANGED vars
  BY <1>1, NextRequests, NextReports, NextVdoms DEF vars, IndInv, RequestsOK, ReportsOK, VdomsOK, RefersOK
<1>2. ASSUME NEW r \in Requests, Arrive(r) \/ Service(r) \/ Abort(r) PROVE IndInv'
  BY <1>2, ResolveKeeps, EvidenceKeeps, FlushReportKeeps, CommitReportKeeps, RestKeeps, EraseVdomKeeps
     DEF Arrive, Service
<1>3. QED
  BY <1>1, <1>2 DEF Next
-----------------------------------------------------------------------------
\* IndInv in every state.
THEOREM Invariance == Spec => []IndInv
  BY InitHolds, NextKeeps, PTL DEF Spec

\* The types of the tables and of what the requests carry: the score of every
\* report is a percentage, however many rules it is the mean of.
THEOREM TypeCorrect == Spec => []TypeOK
<1>1. ASSUME IndInv PROVE TypeOK
  <2>1. DOMAIN vdoms \subseteq Ids /\ \A v \in DOMAIN vdoms : vdoms[v] \in Names
    BY <1>1 DEF IndInv, VdomsOK
  <2>2. DOMAIN reports \subseteq Requests /\ \A a \in DOMAIN reports : IsReport(reports[a])
    BY <1>1 DEF IndInv, ReportsOK, Whole
  <2>3. pc \in [Requests -> Steps]
    BY <1>1 DEF IndInv, RequestsOK
  <2>4. ASSUME NEW r \in Requests
        PROVE  /\ job[r].vdom \in Ids \cup {Null} /\ job[r].name \in Names /\ job[r].offline \in BOOLEAN
               /\ job[r].asked \subseteq Endpoints
               /\ DOMAIN job[r].seen \subseteq job[r].rules /\ job[r].rules \subseteq Rules
               /\ IF pc[r] = "flushed" THEN IsReport(job[r].draft) ELSE job[r].draft = Null
    BY <1>1 DEF IndInv, RequestsOK, Fits, Whole
  <2>5. QED
    BY <2>1, <2>2, <2>3, <2>4 DEF TypeOK, Steps
<1>2. QED
  BY <1>1, Invariance, PTL

\* The score of a stored report agrees with its findings, for any number of
\* rules and units and whatever the device answers; that a rule which is partly
\* met shows in it holds as long as a hundredth can tell.
THEOREM ScoresAgree == Spec => []ScoreAgrees
<1>1. IndInv => ScoreAgrees
  BY DEF IndInv, ReportsOK, Whole, Agrees, ScoreAgrees
<1>2. QED
  BY <1>1, Invariance, PTL

\* No report, stored or about to be, refers to a VDOM that is gone, whatever is
\* deleted while it is audited.
THEOREM ReportsReferAlways == Spec => []ReportsRefer
<1>1. IndInv => ReportsRefer
  BY DEF IndInv, RequestsOK, Fits, RefersOK, ReportsRefer
<1>2. QED
  BY <1>1, Invariance, PTL

\* A stored report has findings, and its counters with the partial results
\* account for all of them.
THEOREM ReportsWhole == Spec => []ReportsAreWhole
<1>1. IndInv => ReportsAreWhole
  BY DEF IndInv, ReportsOK, Whole, ReportsAreWhole
<1>2. QED
  BY <1>1, Invariance, PTL

\* A step changes nothing of a stored report but the reference to a VDOM that
\* it deletes.
LEMMA StepFreezes ==
  ASSUME IndInv, [Next]_vars, NEW a \in DOMAIN reports
  PROVE  /\ a \in DOMAIN reports'
         /\ reports'[a].vdom \in {reports[a].vdom, Null}
         /\ [reports[a] EXCEPT !.vdom = reports'[a].vdom] = reports'[a]
<1>1. Whole(reports[a]) /\ a \in Requests /\ pc[a] \in {"committed", "ok", "error"}
  BY DEF IndInv, ReportsOK
<1>2. CASE reports' = reports
  <2>1. [reports[a] EXCEPT !.vdom = reports[a].vdom] = reports[a]
    BY <1>1 DEF Whole
  <2>2. QED
    BY <1>2, <2>1
<1>3. ASSUME NEW r \in Requests, CommitReport(r)
      PROVE  a \in DOMAIN reports' /\ reports'[a] = reports[a]
  BY <1>1, <1>3 DEF CommitReport
<1>4. ASSUME NEW r \in Requests, EraseVdom(r)
      PROVE  a \in DOMAIN reports' /\ reports'[a] \in {reports[a], [reports[a] EXCEPT !.vdom = Null]}
  BY <1>4 DEF EraseVdom
<1>5. ASSUME reports' # reports
      PROVE  \E r \in Requests : CommitReport(r) \/ EraseVdom(r)
  BY <1>5 DEF Next, vars, Arrive, Service, Abort, Error, AuditVdom, AuditDevice, AuditOffline, DeleteVdom,
       InsertRoot, SelectRules, Fetch, Fetched, ParseBackup, FlushReport, Answer
<1>6. CASE reports' # reports
  <2>1. a \in DOMAIN reports' /\ reports'[a] \in {reports[a], [reports[a] EXCEPT !.vdom = Null]}
    BY <1>3, <1>4, <1>5, <1>6
  <2>2. [reports[a] EXCEPT !.vdom = reports[a].vdom] = reports[a]
    BY <1>1 DEF Whole
  <2>3. [reports[a] EXCEPT !.vdom = Null].vdom = Null
    BY <1>1 DEF Whole
  <2>4. CASE reports'[a] = reports[a]
    BY <2>1, <2>2, <2>4
  <2>5. CASE reports'[a] = [reports[a] EXCEPT !.vdom = Null]
    BY <2>1, <2>3, <2>5
  <2>6. QED
    BY <2>1, <2>4, <2>5
<1>7. QED
  BY <1>2, <1>6

\* A stored report is never changed, but for its VDOM.
THEOREM ReportsStayFrozen == Spec => ReportsFrozen
<1>1. IndInv /\ [Next]_vars =>
        [\A a \in DOMAIN reports :
           /\ a \in DOMAIN reports'
           /\ reports'[a].vdom \in {reports[a].vdom, Null}
           /\ [reports[a] EXCEPT !.vdom = reports'[a].vdom] = reports'[a]]_vars
  BY StepFreezes
<1>2. QED
  BY <1>1, Invariance, PTL DEF Spec, ReportsFrozen
=============================================================================
