----------------------------- MODULE MCDevices -----------------------------
(***************************************************************************)
(* What the devices carry through on their own, for TLC: one run of parts  *)
(* that share no step, the print queue, card payments, and offline sales   *)
(* twice: as they would be recorded, and with the query that PostgreSQL    *)
(* refuses.                                                                *)
(***************************************************************************)
EXTENDS OfflineQueue, PrintJobs, CardPayments

CONSTANT Parts   \* those to check
VARIABLE part

Refused == INSTANCE OfflineQueue WITH QueryAccepted <- FALSE

mcVars == <<part, vars, printVars, cardVars>>

MCInit ==
  /\ part \in Parts
  /\ Init /\ PrintInit /\ CardInit
  /\ printer.agent = CHOOSE d \in Devices : TRUE   \* the devices are alike

MCNext ==
  /\ \/ part = "sales" /\ Next /\ UNCHANGED <<printVars, cardVars>>
     \/ part = "refused" /\ Refused!Next /\ UNCHANGED <<printVars, cardVars>>
     \/ part = "printing" /\ PrintNext /\ UNCHANGED <<vars, cardVars>>
     \/ part = "cards" /\ CardNext /\ UNCHANGED <<vars, printVars>>
  /\ UNCHANGED part

ApiAnswers ==
  WF_vars(IF part = "refused" THEN Refused!ExecuteOne ELSE ExecuteOne)

\* Nothing the fairness of the other parts is about is enabled where they do not run;
\* a till could look at a bill anywhere.
CardsAtWork == part = "cards"
CardsFairly ==
  /\ WF_cardVars(CardsAtWork /\ ReceiveAnswer) /\ WF_cardVars(CardsAtWork /\ HearBridge)
  /\ SF_cardVars(CardsAtWork /\ LookAgain) /\ SF_cardVars(CardsAtWork /\ VerifyPending)

MCSpec ==
  /\ MCInit /\ [][MCNext]_mcVars
  /\ DeviceFairness /\ ApiAnswers /\ PrintFairness /\ CardsFairly
=============================================================================
