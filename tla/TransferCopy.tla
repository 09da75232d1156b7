---------------------------- MODULE TransferCopy ----------------------------
(***************************************************************************)
(* Transfer implements FileCopy.                                           *)
(***************************************************************************)
EXTENDS TransferInvariants

\* What an end reports: the outcome of its Run.
Reported(state) ==
  CASE state = "Finished"           -> "finished"
    [] state \in {"Error", "Exited"} -> "failed"
    [] OTHER                         -> "running"

SenderReports == IF sState = "NoSession" THEN "new" ELSE Reported(sState)

Copy == INSTANCE FileCopy WITH
  source <- srcFile, changed <- touched, nothing <- (sTotal = 0),
  copy <- out, sender <- SenderReports, receiver <- Reported(rState)

\* Run's return values at the two ends mean what they say: every step of the
\* two sessions, the stream and its faults is a step FileCopy allows, or
\* changes nothing that shows.
ImplementsCopy == Copy!Spec
=============================================================================
