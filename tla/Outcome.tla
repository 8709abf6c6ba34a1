-------------------------------- MODULE Outcome --------------------------------
(***************************************************************************)
(* How the attempts of one test read as a verdict, and how verdicts read   *)
(* as an exit status: outcome_kind in crates/ferridriver-test/src/model.rs *)
(* and the statuses of exit.rs.  "Failed" stands for TestStatus::Failed    *)
(* and TestStatus::TimedOut, which every rule here treats alike.           *)
(***************************************************************************)
EXTENDS Naturals, Sequences

Status == {"Passed", "Failed", "Skipped"}

Expectation == {"Pass", "Fail"}

Matches(status, expected) ==
  IF expected = "Pass" THEN status \in {"Passed", "Skipped"} ELSE status = "Failed"

(* outcome_kind(attempts, expected) *)
OutcomeKind(attempts, expected) ==
  IF \A i \in DOMAIN attempts : attempts[i] = "Skipped"       THEN "Skipped"
  ELSE IF ~Matches(attempts[Len(attempts)], expected)         THEN "Unexpected"
  ELSE IF \E i \in DOMAIN attempts : ~Matches(attempts[i], expected)
                                                              THEN "Flaky"
  ELSE "Expected"

ExitCode == {"Passed", "Failed", "Usage", "Infrastructure", "Interrupted"}

(* exit::worst: the status that says more of two. *)
ExitRank ==
  [Passed |-> 0, Failed |-> 1, Usage |-> 2, Infrastructure |-> 3, Interrupted |-> 4]

Worst(a, b) == IF ExitRank[b] > ExitRank[a] THEN b ELSE a
=============================================================================
