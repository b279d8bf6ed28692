---------------------------- MODULE MCConsentClaims ----------------------------
EXTENDS ConsentClaims, TLC

SomeScopes == {"openid", "email"}

CONSTANTS a1, alice, bob

(* A remote policy, with a client that has two scopes, or lost one of them,
   or its audience, or was removed. *)
Remote(client, scopes, audiences) ==
    [client |-> client, scopes |-> scopes, audiences |-> audiences, backend |-> "http",
     subjects |-> {}, secure |-> TRUE, rules |-> <<>>]

(* A static policy for a client with everything. *)
Static(subjects, secure, rules) ==
    [client |-> TRUE, scopes |-> SomeScopes, audiences |-> {a1}, backend |-> "static",
     subjects |-> subjects, secure |-> secure, rules |-> rules]

SomeConfigs ==
    {Remote(TRUE, SomeScopes, {a1}), Remote(TRUE, {"openid"}, {a1}), Remote(TRUE, SomeScopes, {}),
     Remote(FALSE, {}, {}),
     Static({alice}, FALSE, <<>>),
     Static({Wildcard}, TRUE, alice :> {"openid"} @@ Wildcard :> SomeScopes),
     Static({alice, bob}, TRUE, alice :> SomeScopes @@ bob :> {})}

(* Two spellings of one address, another address, and values of other types. *)
SomeValues == {"a@x", " A@X", "A@X", "b@x", "7", True, False}
SomeNames == {"email", "email_verified", "name", "tier", "sub", "SUB"}

SomeLower == [n \in SomeNames |-> IF n = "SUB" THEN "sub" ELSE n]
SomeText == {"a@x", " A@X", "A@X", "b@x"}
SomeTrim == [v \in SomeValues |-> IF v = " A@X" THEN "A@X" ELSE v]
SomeFold == [v \in SomeValues |-> IF v = "A@X" THEN "a@x" ELSE v]

SomeValid ==
    [n \in SomeNames |->
        CASE n = "email" -> {"a@x", "A@X", "b@x"}
          [] n = "email_verified" -> {True, False}
          [] n = "name" -> SomeText
          [] OTHER -> SomeValues]

Emails == "email" :> {"email"} @@ "email_verified" :> {"email"}
Everything == "email" :> {} @@ "email_verified" :> {} @@ "name" :> {} @@ "tier" :> {"openid"}

Only(allowed) == [d \in Destinations |-> IF d = "id_token" THEN allowed ELSE <<>>]

Everywhere(allowed) == [d \in Destinations |-> allowed]

SomeClaimConfigs ==
    {[allow |-> Only(Emails), mapped |-> {"email"}],
     [allow |-> Only(Everything), mapped |-> {}],
     [allow |-> Only(Everything), mapped |-> {"email", "email_verified", "name"}],
     [allow |-> Everywhere(Everything), mapped |-> {"email", "tier"}],
     [allow |-> Only("SUB" :> {}), mapped |-> {}],
     [allow |-> Only("sub" :> {}), mapped |-> {"sub"}],
     [allow |-> Only("name" :> {"profile"}), mapped |-> {}]}

Address(v, verified, completed) ==
    [value |-> v, email |-> TRUE, verified |-> verified, completed |-> completed]

SomeSources ==
    {<<>>, "email" :> " A@X" @@ "email_verified" :> True @@ "name" :> "7",
     "email" :> "b@x" @@ "tier" :> "7", "email" :> "7" @@ "name" :> "a@x"}

SomeSessions ==
    [source : SomeSources,
     addresses : {{}, {Address("a@x", TRUE, TRUE)}, {Address(" A@X", TRUE, FALSE)},
                  {Address("b@x", TRUE, TRUE), Address("a@x", FALSE, TRUE)},
                  {[Address("a@x", TRUE, TRUE) EXCEPT !.email = FALSE]}}]

SomeObjects ==
    {<<>>, "email" :> " A@X" @@ "email_verified" :> True, "tier" :> "7" @@ "sub" :> "b@x",
     "SUB" :> "b@x" @@ "email" :> "7" @@ "name" :> "b@x"}

SomeClaimReplies == [Destinations -> SomeObjects]
===============================================================================
