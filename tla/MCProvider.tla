------------------------------- MODULE MCProvider -------------------------------
(* Instances of Provider for TLC. *)
EXTENDS Provider, TLC

CONSTANTS alice, bob, scope1, scope2, api, aal1, aal2, aal3, gold, odd, blank

(* gold is configured, odd is not; aal2 means less than its name says. *)
MCOIDCACRMappings == gold :> 2 @@ aal2 :> 1
MCBuiltinACRs == aal1 :> 1 @@ aal2 :> 2 @@ aal3 :> 3

LoginRequest(subject, skip, acrs, prompts, maxAge) ==
    [subject |-> subject, skip |-> skip, acrs |-> acrs, prompts |-> prompts, maxAge |-> maxAge]

(* One request for each way through StartLogin and validateLoginFreshness. *)
MCLoginRequests ==
    { LoginRequest(NoSubject, FALSE, <<>>, {}, NoMaxAge),
      LoginRequest(NoSubject, FALSE, <<odd>>, {"login"}, NoMaxAge),
      LoginRequest(NoSubject, FALSE, <<gold, blank>>, {}, NoMaxAge),
      LoginRequest(NoSubject, FALSE, <<aal3>>, {}, NoMaxAge),
      LoginRequest(NoSubject, FALSE, <<>>, {"none"}, NoMaxAge),
      LoginRequest(NoSubject, FALSE, <<aal2, gold>>, {"login"}, 1),
      LoginRequest(alice, FALSE, <<odd, gold, aal1>>, {}, 1),
      LoginRequest(alice, TRUE, <<>>, {}, NoMaxAge),
      LoginRequest(alice, TRUE, <<>>, {}, 1),
      LoginRequest(alice, TRUE, <<>>, {"none"}, NoMaxAge),
      LoginRequest(alice, TRUE, <<>>, {"none", "login"}, NoMaxAge),
      LoginRequest(alice, TRUE, <<>>, {"select_account"}, 0),
      LoginRequest(alice, TRUE, <<gold>>, {"none"}, NoMaxAge) }

(* For the runs that are about the other flows. *)
MCOneLoginRequest == {LoginRequest(alice, TRUE, <<>>, {"login"}, NoMaxAge)}

ConsentRequest(skip, clientSkip, prompts, scopes) ==
    [subject |-> alice, skip |-> skip, clientSkip |-> clientSkip, prompts |-> prompts,
     scopes |-> scopes, audiences |-> {api}]

MCConsentRequests ==
    { ConsentRequest(FALSE, FALSE, {"consent"}, {scope1}),
      ConsentRequest(FALSE, FALSE, {"none"}, {scope1}),
      ConsentRequest(TRUE, FALSE, {"none"}, {scope1, scope2}),
      ConsentRequest(FALSE, TRUE, {"none"}, {scope1}) }

MCOneConsentRequest == {ConsentRequest(FALSE, FALSE, {}, {scope1})}

NoChallenges == {}

(* Safety does not tell requests or handles apart. *)
Symmetry == Permutations(Requests) \cup Permutations(Handles)

===============================================================================
