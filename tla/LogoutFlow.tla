------------------------------- MODULE LogoutFlow ------------------------------
(***************************************************************************)
(* StartLogout and CompleteLogout of internal/core/application/service.go. *)
(* Nobody is asked anything: the transaction only ties the completion to   *)
(* the browser that started the logout.                                    *)
(***************************************************************************)
EXTENDS ProviderCore

StartLogout(r, c) == BeginCreate(r, c)

CompleteLogout(r, h) == Load(r, LogoutChallenges, "consumeLogout", h, None)

(* AcceptLogout *)
AcceptLogout(h) == [flow |-> "logout", verdict |-> "accept", handle |-> h]

(* The handoff is consumed, then the logout is accepted. *)
ConsumeLogout(r) ==
    /\ Goto(r, "consumeLogout", "answer")
    /\ Port!Consume(handle[r])
    /\ answer' = [answer EXCEPT ![r] = AcceptLogout(handle[r])]
    /\ UNCHANGED <<challenge, handle, expiresAt, form, session, worldVars>>

LogoutStep(r) ==
    \/ ConsumeLogout(r)
    \/ ConsumeRefused(r, "consumeLogout")
    \/ ConsumeFails(r, "consumeLogout")

BeginLogout(r) ==
    \/ \E c \in LogoutChallenges : StartLogout(r, c)
    \/ \E h \in Handles : CompleteLogout(r, h)

===============================================================================
