------------------------------ MODULE MCServices ------------------------------
(***************************************************************************)
(* Small instances of the services that share no state with the execution  *)
(* path nor with one another: the model gateway, the evidence vault,       *)
(* membership, the gap scan and assessment.  As no step of one depends on  *)
(* the state of another, each is explored with the others at rest:         *)
(* `subject' is the one that moves.                                        *)
(***************************************************************************)
EXTENDS MCModelGateway, EvidenceVault, Membership, GapScan, Assessment

VARIABLE subject

allVars == <<subject, gatewayVars, vaultVars, membershipVars, gapScanVars, assessmentVars>>

Production == [production |-> TRUE, api_key |-> TRUE, redaction |-> TRUE, keys |-> Hosted]

\* A service at rest starts in one state.
ServicesInit ==
  /\ subject \in {"gateway", "vault", "membership", "gap scan", "assessment"}
  /\ GatewayInit /\ (subject # "gateway" => settings = Production)
  /\ VaultInit /\ (subject # "vault" => mock = FALSE)
  /\ MembershipInit /\ (subject # "membership" => seeded = 0)
  /\ GapScanInit
  /\ AssessmentInit

Gateway == GatewayNext /\ UNCHANGED <<vaultVars, membershipVars, gapScanVars, assessmentVars>>
Vault == VaultNext /\ UNCHANGED <<gatewayVars, membershipVars, gapScanVars, assessmentVars>>
Membership_ == MembershipNext /\ UNCHANGED <<gatewayVars, vaultVars, gapScanVars, assessmentVars>>
GapScans == GapScanNext /\ UNCHANGED <<gatewayVars, vaultVars, membershipVars, assessmentVars>>
Assessing == AssessmentNext /\ UNCHANGED <<gatewayVars, vaultVars, membershipVars, gapScanVars>>

ServicesNext ==
  /\ UNCHANGED subject
  /\ \/ subject = "gateway" /\ Gateway
     \/ subject = "vault" /\ Vault
     \/ subject = "membership" /\ Membership_
     \/ subject = "gap scan" /\ GapScans
     \/ subject = "assessment" /\ Assessing

ServicesSpec == ServicesInit /\ [][ServicesNext]_allVars

-----------------------------------------------------------------------------
(* The instances *)

\* A content under two names with two retentions, and an empty one.
SomeArtifacts ==
  [content : {"policy"}, place : {"here", "there"}, days : {1, 2}]
  \union [content : {"empty"}, place : {"here"}, days : {1}]

\* A control of each number of questions; the cap is within the plans' reach.
SomeControls == <<
  [penalty |-> 50, questions |-> 1, severity |-> "critical"],
  [penalty |-> 50, questions |-> 3, severity |-> "high"],
  [penalty |-> 5, questions |-> 2, severity |-> "low"],
  [penalty |-> 20, questions |-> 0, severity |-> "medium"] >>

=============================================================================
