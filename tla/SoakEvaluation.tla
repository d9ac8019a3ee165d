--------------------------- MODULE SoakEvaluation ---------------------------
(***************************************************************************)
(* evaluate_paper_soak: the verdict on the evidence one PAPER soak run     *)
(* left behind.  Times are whole seconds.  An evidence record has the      *)
(* manifest's started_at, duration and interval, the cumulative samples    *)
(* and the incidents, in the order of the file.                            *)
(***************************************************************************)
EXTENDS Integers, Sequences, FiniteSets

Cumulative == {"orders", "duplicates", "unknown", "audited", "critical"}

Last(seq) == seq[Len(seq)]
Count(seq, Test(_)) == Cardinality({i \in DOMAIN seq : Test(seq[i])})

(* The ValueErrors of evaluate_paper_soak.                                 *)
Malformed(e) ==
    \/ e.samples = <<>>
    \/ \E i \in 2..Len(e.samples) : e.samples[i].at <= e.samples[i - 1].at
    \/ \E i \in 2..Len(e.incidents) : e.incidents[i].at < e.incidents[i - 1].at
    \/ e.samples[1].at < e.started_at
    \/ \E i \in 2..Len(e.samples), f \in Cumulative :
            e.samples[i][f] < e.samples[i - 1][f]
    \/ \E i \in DOMAIN e.incidents :
            e.incidents[i].at \notin e.started_at .. Last(e.samples).at

(* A tenth of the interval, at least one second.                           *)
Tolerance(interval) == IF interval \div 10 > 1 THEN interval \div 10 ELSE 1

Gaps(e) == {e.samples[i].at - e.samples[i - 1].at : i \in 2..Len(e.samples)}
CadenceIsKept(e) ==
    LET tolerance == Tolerance(e.interval)
        shortest  == IF e.interval - tolerance > 1 THEN e.interval - tolerance ELSE 1
        end       == e.started_at + e.duration
    IN  /\ Last(e.samples).at - e.started_at >= e.duration
        /\ Len(e.samples) >= (e.duration + e.interval - 1) \div e.interval + 1
        /\ e.samples[1].at - e.started_at \in 0..tolerance
        /\ Gaps(e) \subseteq shortest..(e.interval + tolerance)
        /\ Last(e.samples).at - end \in (-tolerance)..tolerance

(* Mutant: only the events of the dashboard count, not the incidents.      *)
CriticalTotal_EventsOnly(e) == Last(e.samples).critical

CriticalTotal(e) ==
    Last(e.samples).critical
    + Count(e.incidents, LAMBDA incident : incident.severity = "critical")

(* The gates as _new_evidence registers them: nothing is tolerated.        *)
ContentIsClean(e) ==
    /\ Count(e.samples, LAMBDA sample : ~sample.ready) = 0
    /\ Last(e.samples).duplicates = 0
    /\ Last(e.samples).unknown = 0
    /\ CriticalTotal(e) = 0
    /\ Last(e.samples).audited = Last(e.samples).orders

Verdict(e) ==
    IF Malformed(e) THEN "error"
    ELSE IF CadenceIsKept(e) /\ ContentIsClean(e) THEN "pass" ELSE "fail"
=============================================================================
