----------------------------- MODULE MCRequests -----------------------------
(***************************************************************************)
(* What a client is told and what a recipient is sent, each explored on    *)
(* its own in one run: a behaviour is one of HttpRequest or one of         *)
(* MailContent, the other stays in its initial state.                      *)
(***************************************************************************)
EXTENDS HttpRequest, MailContent

VARIABLE part

Init ==
  \/ /\ part = "request"
     /\ RequestInit /\ MailInit
     /\ body = CHOOSE b \in Bodies : TRUE
     /\ setting = [kind |-> "test", enabled |-> FALSE]
  \/ part = "mail" /\ MailInit /\ RequestInit /\ ~ required

Next ==
  \/ part = "request" /\ RequestNext /\ UNCHANGED <<part, mailVars>>
  \/ part = "mail" /\ MailNext /\ UNCHANGED <<part, requestVars>>

Spec == Init /\ [][Next]_<<part, requestVars, mailVars>>
-----------------------------------------------------------------------------
(***************************************************************************)
(* The request, its errors and its status, and both halves of a mail, are  *)
(* of the right shape.                                                     *)
(***************************************************************************)
TypeOK == RequestTypeOK /\ MailTypeOK
=============================================================================
