----------------------------- MODULE MCCallback -----------------------------
(* CallbackServer for TLC: a good token and tokens with one thing wrong.     *)
EXTENDS CallbackServer, TLC

CONSTANTS s1, r1, r2

MCNames == {"", "vpn", "ops"}

Alice(form) == [person |-> "alice", form |-> form]
MCCommonNames == {Alice("mixed"), [person |-> "", form |-> "empty"]}

MCAccounts == "alice" :> [enabled |-> TRUE, groups |-> {"vpn", "ops"}]

Named(name, kind, padded) == [name |-> name, kind |-> kind, padded |-> padded]
Text(bracketed, elements) ==
    [type |-> "string", bracketed |-> bracketed, elements |-> elements]

Good == [form |-> "whole", kid |-> "k1", signedBy |-> "k1", ecdsa |-> TRUE,
         ours |-> TRUE, issuedHere |-> TRUE, exp |-> 9, email |-> Alice("lower"),
         user |-> "alice",
         groups |-> Text(TRUE, <<Named("ops", "bare", FALSE),
                                 Named("vpn", "bare", TRUE)>>)]

MCTokens ==
    {Good,
     [Good EXCEPT !.form = "missing"], [Good EXCEPT !.form = "noClaims"],
     [Good EXCEPT !.kid = "k9"], [Good EXCEPT !.signedBy = "k2"],
     [Good EXCEPT !.ours = FALSE], [Good EXCEPT !.issuedHere = FALSE],
     [Good EXCEPT !.exp = 1],
     [Good EXCEPT !.email.person = "bob"],
     [Good EXCEPT !.groups = Text(FALSE, <<Named("ops", "bare", FALSE)>>)],
     [Good EXCEPT !.user = "nobody", !.groups = [type |-> "absent"]]}

Base == [socket |-> TRUE, password |-> TRUE, callbackURL |-> "https",
         albARN |-> TRUE, issuerURL |-> TRUE, poolID |-> TRUE,
         requiredGroup |-> "vpn", groupsSource |-> "cognito-api",
         groupsClaim |-> FALSE, cnCrossCheck |-> TRUE,
         checkGroupOnReauth |-> FALSE, handWindow |-> 2, authTimeout |-> 1,
         reconnectMaxInterval |-> 5, maxSessionDuration |-> 0,
         logFormat |-> "text", callbackPort |-> 8080, hmacSecretLen |-> 16,
         hmacSecretID |-> ""]

\* Three that are valid, and some that are not.
MCConfigs ==
    {Base,
     [Base EXCEPT !.groupsSource = "jwt-claim", !.groupsClaim = TRUE],
     [Base EXCEPT !.albARN = FALSE, !.poolID = FALSE, !.issuerURL = FALSE,
                  !.requiredGroup = ""],
     [Base EXCEPT !.issuerURL = FALSE],
     [Base EXCEPT !.albARN = FALSE, !.poolID = FALSE, !.groupsSource = "",
                  !.checkGroupOnReauth = TRUE],
     [Base EXCEPT !.authTimeout = 5]}
=============================================================================
