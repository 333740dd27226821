---------------------------- MODULE DaemonConfig ----------------------------
(***************************************************************************)
(* The configuration of the daemon and what Validate                       *)
(* (internal/config/config.go) accepts.  A string that the daemon only     *)
(* compares with "" is a BOOLEAN: whether it is set.                       *)
(***************************************************************************)
EXTENDS Integers

Unset == ""         \* an option that is not given

Config ==
    [socket : BOOLEAN, password : BOOLEAN,
     callbackURL : {Unset, "http", "https"},
     albARN : BOOLEAN, issuerURL : BOOLEAN, poolID : BOOLEAN,
     requiredGroup : STRING,    \* Unset when no group is required
     groupsSource : STRING, groupsClaim : BOOLEAN,
     cnCrossCheck : BOOLEAN, checkGroupOnReauth : BOOLEAN,
     handWindow : Int, authTimeout : Int, reconnectMaxInterval : Int,
     maxSessionDuration : Int,  \* seconds
     logFormat : STRING, callbackPort : Int,
     hmacSecretLen : Nat,       \* 0 when there is none
     hmacSecretID : {Unset, "trimmed", "padded"}]

Minute == 60
MinSecretLen == 16
MaxPort == 65535
GroupsSources == {"cognito-api", "jwt-claim"}

\* Validate and the callback server treat an empty source as the Cognito API.
GroupsSource(c) ==
    IF c.groupsSource = Unset THEN "cognito-api" ELSE c.groupsSource

SocketValid(c) ==
    /\ c.socket /\ c.password
    /\ c.callbackURL # Unset
    /\ c.albARN => c.callbackURL = "https"

\* Mutant: an ALB without an issuer.
IdentityWithoutIssuer(c) ==
    /\ c.albARN => c.poolID
    /\ ~c.poolID /\ c.requiredGroup # Unset =>
          GroupsSource(c) # "cognito-api" /\ ~c.checkGroupOnReauth

IdentityValid(c) ==
    /\ c.albARN => c.poolID /\ c.issuerURL
    /\ ~c.poolID /\ c.requiredGroup # Unset =>
          GroupsSource(c) # "cognito-api" /\ ~c.checkGroupOnReauth

GroupsValid(c) ==
    /\ GroupsSource(c) \in GroupsSources
    /\ GroupsSource(c) = "jwt-claim" => ~c.checkGroupOnReauth /\ c.groupsClaim

\* Mutant: nothing relates the two timeouts.
TimesPositive(c) ==
    /\ c.handWindow > 0 /\ c.authTimeout > 0 /\ c.reconnectMaxInterval > 0
    /\ c.maxSessionDuration = 0 \/ c.maxSessionDuration >= Minute

TimesValid(c) ==
    /\ c.handWindow > 0 /\ c.authTimeout > 0 /\ c.reconnectMaxInterval > 0
    /\ c.authTimeout < c.handWindow
    /\ c.maxSessionDuration = 0 \/ c.maxSessionDuration >= Minute

SecretsValid(c) ==
    /\ c.hmacSecretLen = 0 \/ c.hmacSecretLen >= MinSecretLen
    /\ c.hmacSecretLen = 0 \/ c.hmacSecretID = Unset
    /\ c.hmacSecretID # "padded"

Validate(c) ==
    /\ SocketValid(c) /\ IdentityValid(c) /\ GroupsValid(c) /\ TimesValid(c)
    /\ SecretsValid(c)
    /\ c.logFormat \in {"text", "json"}
    /\ 1 <= c.callbackPort /\ c.callbackPort <= MaxPort
=============================================================================
