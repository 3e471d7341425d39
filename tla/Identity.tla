------------------------------ MODULE Identity ------------------------------
(***************************************************************************)
(* Who an HTTP request is made for: from its Authorization header to the   *)
(* user and groups to impersonate, or nobody.                              *)
(*                                                                         *)
(* A JWT is a record of what is asked about it.  Its claims are names, the *)
(* empty string, or something that is no string (or no array); signatures, *)
(* base64 and JSON are those of the libraries.  A header is NoHeader, a    *)
(* NotBearer, or a token.                                                  *)
(***************************************************************************)
EXTENDS Naturals, Sequences, FiniteSets

CONSTANTS
  Names,          \* non-empty strings
  Overlong,       \* those of more than 256 bytes
  Control,        \* those with a control character
  System,         \* those that begin with "system:"
  maxGroupCount,
  NoHeader, NotBearer,
  NotString,      \* a claim or an element of another type
  Nil             \* no value: a claim that is missing, no keys, nobody

ASSUME NamesAssumption ==
  /\ Overlong \cup Control \cup System \subseteq Names
  /\ "" \notin Names /\ NotString \notin Names /\ Nil \notin Names
  /\ Nil # ""

ASSUME CountAssumption == maxGroupCount \in Nat

ASSUME NobodyAssumption == Nil \notin [user : Names, groups : Seq(Names)]

(* What the claims of a token can be.                                      *)
IsToken(token) ==
  /\ token.user \in Names \cup {"", NotString, Nil}
  /\ \/ token.groups \in {Nil, NotString}
     \/ token.groups \in Seq(Names \cup {"", NotString})

-----------------------------------------------------------------------------
(* The elements of s that are in S, in their order: a loop that appends    *)
(* them one by one.                                                        *)
Keep(s, S) ==
  LET kept[n \in 0..Len(s)] ==
        IF n = 0 THEN <<>>
        ELSE IF s[n] \in S THEN Append(kept[n - 1], s[n]) ELSE kept[n - 1]
  IN kept[Len(s)]

validateIdentity(name) ==
  name \notin Overlong /\ name \notin Control /\ name \notin System

(* The same three tests, on groups.                                        *)
validateGroup(name) == validateIdentity(name)

extractStringClaim(claim) == IF claim = NotString THEN Nil ELSE claim

(* What is not a string, or empty, is dropped.                             *)
extractGroupsClaim(claim) ==
  IF claim \in {Nil, NotString} THEN <<>>
  ELSE Keep(claim, Names)

parseJWTPayload(token) == token.wellFormed

(* Mutant of Keyfunc: a token without a key ID is checked against whatever *)
(* key signed it.                                                          *)
KeyfuncAny(token, keys) == IF keys = Nil THEN Nil ELSE token.signer

(* The key of that ID, if the cache answers and has it.                    *)
Keyfunc(token, keys) ==
  IF keys = Nil THEN Nil
  ELSE IF token.kid # "" /\ token.kid \in keys THEN token.kid ELSE Nil

(* A key has its ID for a name: the signature is good under the key that   *)
(* made it.  "hmac" signers and unsigned tokens are no keys.               *)
parseAndValidateJWT(token, cfg, keys) ==
  /\ token.wellFormed
  /\ Keyfunc(token, keys) # Nil /\ token.signer = Keyfunc(token, keys)
  /\ token.expires = "later"
  /\ cfg.Issuer # "" => token.iss = cfg.Issuer
  /\ cfg.Audience # "" => token.aud = cfg.Audience

(* Mutant of ExtractFromJWT: groups that may not be impersonated are left  *)
(* out without a word.                                                     *)
ExtractLegalGroups(token, cfg, keys) ==
  LET user == extractStringClaim(token.user)
      groups == extractGroupsClaim(token.groups)
  IN IF \/ IF cfg.jwks THEN ~parseAndValidateJWT(token, cfg, keys)
                       ELSE ~parseJWTPayload(token)
        \/ user \in {Nil, ""} \/ ~validateIdentity(user)
        \/ Len(groups) > maxGroupCount
     THEN Nil
     ELSE [user |-> user, groups |-> Keep(groups, {g \in Names : validateGroup(g)})]

ExtractFromJWT(token, cfg, keys) ==
  LET user == extractStringClaim(token.user)
      groups == extractGroupsClaim(token.groups)
  IN IF \/ IF cfg.jwks THEN ~parseAndValidateJWT(token, cfg, keys)
                       ELSE ~parseJWTPayload(token)
        \/ user \in {Nil, ""} \/ ~validateIdentity(user)
        \/ Len(groups) > maxGroupCount
        \/ \E i \in DOMAIN groups : ~validateGroup(groups[i])
     THEN Nil
     ELSE [user |-> user, groups |-> groups]

(* HTTPContextFunc treats a header that is refused like one that is        *)
(* missing: the request has no identity.                                   *)
ExtractFromRequest(header, cfg, keys) ==
  IF header \in {NoHeader, NotBearer} THEN Nil ELSE ExtractFromJWT(header, cfg, keys)

-----------------------------------------------------------------------------
(* The reference: a token that may be acted on, and whom it names.  It is  *)
(* written from the promises of the package (identity.go:1-14, 60-81,      *)
(* 135-137), not from its steps.                                           *)

MayBeNamed(name) == name \in Names \ (Overlong \cup Control \cup System)

(* The positions of the groups claim that name a group.                    *)
Naming(token) ==
  IF token.groups \in {Nil, NotString} THEN {}
  ELSE {i \in DOMAIN token.groups : token.groups[i] \in Names}

GroupsNamed(token) == {token.groups[i] : i \in Naming(token)}

Acceptable(token, cfg, keys) ==
  /\ token.wellFormed /\ MayBeNamed(token.user)
  /\ \A g \in GroupsNamed(token) : MayBeNamed(g)
  /\ Cardinality(Naming(token)) <= maxGroupCount
  /\ cfg.jwks =>
       /\ keys # Nil /\ token.signer \in keys /\ token.kid = token.signer
       /\ token.expires = "later"
       /\ cfg.Issuer \in {"", token.iss} /\ cfg.Audience \in {"", token.aud}
=============================================================================
