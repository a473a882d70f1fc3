------------------------------- MODULE MCWork -------------------------------
(***************************************************************************)
(* Small instances, for TLC, of components that share no state: the        *)
(* processing of a source, the inputs of a job, the forwarding of          *)
(* feedback, the door of the AI service, the support desk, the             *)
(* administration and the subscription.  A behaviour works one of them     *)
(* ("focus"), so one run explores the sum of their states and not the      *)
(* product.                                                                *)
(***************************************************************************)
EXTENDS SourceProcessing, JobInputs, FeedbackForwarding, ServiceGate, SupportDesk, Administration, Entitlement, TLC

CONSTANTS super, clerkRole

VARIABLE focus

AllPerms == {"admins", "roles", "users"}
SomePerms == {{"users"}, AllPerms}
SeededPerms == (super :> AllPerms) @@ (clerkRole :> AllPerms)

workVars == <<focus, processingVars, inputVars, forwardVars, gateVars, deskVars, adminVars, subscriptionVars>>

WorkTypeOK ==
  /\ ProcessingTypeOK /\ InputsTypeOK /\ ForwardTypeOK
  /\ GateTypeOK /\ DeskTypeOK /\ AdminTypeOK /\ EntitlementTypeOK
  /\ focus \in {"processing", "inputs", "feedback", "gate", "desk", "administration", "subscription"}

(* One initial state for the components a behaviour does not work. *)
WorkInit ==
  /\ focus \in {"processing", "inputs", "feedback", "gate", "desk", "administration", "subscription"}
  /\ ProcessingInit /\ (focus # "processing" => unread = 0)
  /\ InputsInit /\ (focus # "inputs" => \A s \in Material : ~item[s].filed)
  /\ ForwardInit /\ GateInit /\ DeskInit /\ AdminInit /\ EntitlementInit

WorkNext ==
  \/ /\ focus = "processing" /\ ProcessingNext
     /\ UNCHANGED <<focus, inputVars, forwardVars, gateVars, deskVars, adminVars, subscriptionVars>>
  \/ /\ focus = "inputs" /\ InputsNext
     /\ UNCHANGED <<focus, processingVars, forwardVars, gateVars, deskVars, adminVars, subscriptionVars>>
  \/ /\ focus = "feedback" /\ ForwardNext
     /\ UNCHANGED <<focus, processingVars, inputVars, gateVars, deskVars, adminVars, subscriptionVars>>
  \/ /\ focus = "gate" /\ GateNext
     /\ UNCHANGED <<focus, processingVars, inputVars, forwardVars, deskVars, adminVars, subscriptionVars>>
  \/ /\ focus = "desk" /\ DeskNext
     /\ UNCHANGED <<focus, processingVars, inputVars, forwardVars, gateVars, adminVars, subscriptionVars>>
  \/ /\ focus = "administration" /\ AdminNext
     /\ UNCHANGED <<focus, processingVars, inputVars, forwardVars, gateVars, deskVars, subscriptionVars>>
  \/ /\ focus = "subscription" /\ EntitlementNext
     /\ UNCHANGED <<focus, processingVars, inputVars, forwardVars, gateVars, deskVars, adminVars>>

WorkSpec ==
  /\ WorkInit /\ [][WorkNext]_workVars
  /\ \A w \in Worker : WF_processingVars(WorkerStep(w))
=============================================================================
