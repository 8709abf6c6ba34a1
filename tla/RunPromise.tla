----------------------------- MODULE RunPromise -----------------------------
(***************************************************************************)
(* What a test run promises whoever started it.  Tests are attempted, one  *)
(* attempt after the other; a test that got its verdict is not attempted   *)
(* again, and only an attempt that may be retried leaves the verdict open. *)
(* The run ends once, with an exit status that is "Passed" only when every *)
(* test got its verdict and none ended unexpectedly ("Every test ended as  *)
(* expected", crates/ferridriver-test/src/exit.rs).                        *)
(***************************************************************************)
EXTENDS Outcome

CONSTANTS Tests, MaxAttempts, Expected

VARIABLES
  attempts,  \* attempts[t]: the statuses t's attempts ended with
  settled,   \* tests with a verdict
  code       \* "Running" until the run reports its exit status

Init ==
  /\ attempts = [t \in Tests |-> <<>>]
  /\ settled = {}
  /\ code = "Running"

Attempt(t, status) ==
  /\ code = "Running"
  /\ t \notin settled
  /\ Len(attempts[t]) < MaxAttempts[t]
  /\ attempts' = [attempts EXCEPT ![t] = Append(@, status)]
  /\ settled' \in {settled, settled \cup {t}}
  /\ t \notin settled' => status = "Failed" \/ ~Matches(status, Expected[t])
  /\ UNCHANGED code

Report(c) ==
  /\ code = "Running"
  /\ c = "Passed" =>
       /\ settled = Tests
       /\ \A t \in Tests : OutcomeKind(attempts[t], Expected[t]) # "Unexpected"
  /\ code' = c
  /\ UNCHANGED <<attempts, settled>>

Next ==
  \/ \E t \in Tests, status \in Status : Attempt(t, status)
  \/ \E c \in ExitCode : Report(c)

Spec == Init /\ [][Next]_<<attempts, settled, code>>
=============================================================================
