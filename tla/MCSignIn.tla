----------------------------- MODULE MCSignIn -----------------------------
(* SignIn on small instances.                                              *)
EXTENDS SignIn, TLC

CONSTANTS first, second

\* An account with a password, with or without second factor and authenticator.
MCUser(mfa, enrolled) ==
    [password |-> first, mfa |-> mfa, secret |-> IF enrolled THEN 1 ELSE 0,
     codes |-> IF enrolled THEN Codes(1) ELSE NoRow, provider |-> NoRow]

MCScene(kinds, user, guesses) == [kinds |-> kinds, user |-> user, guesses |-> guesses]

MCScenes == {
    MCScene({"login", "resend", "verify", "time"}, MCUser(TRUE, TRUE),
            {<<"login", 1>>, <<"login", 2>>, <<"totp", 1>>}),
    MCScene({"login", "verify", "regenerate"}, MCUser(TRUE, TRUE),
            {<<"recovery", <<1, 1>>>>, <<"recovery", <<1, 2>>>>}),
    MCScene({"enroll", "activate", "regenerate", "disable", "enable"}, MCUser(TRUE, FALSE), {}),
    MCScene({"login", "forgot", "reset", "time"}, MCUser(FALSE, FALSE), {}),
    MCScene({"register", "oauth", "login"}, NoRow, {}),
    MCScene({"askdelete", "delete", "time"}, MCUser(TRUE, TRUE),
            {<<"deletion", 1>>, <<"totp", 1>>, <<"wrong">>}) }

\* The request slots are interchangeable.
Slots == Permutations(Req)
=============================================================================
