--------------------------- MODULE IdentityProofs ---------------------------
(***************************************************************************)
(* Identity, for every token, configuration and key cache: the steps of    *)
(* the package end with an identity exactly if the token may be acted on,  *)
(* and it is that of the user and the groups the token names.              *)
(*                                                                         *)
(* Keep goes through a claim by recursion, so its facts are proved by      *)
(* induction.  SetInduction is induction in first-order form, derived from *)
(* the least element of a set of naturals: what holds for a number is      *)
(* written as membership in a set.                                         *)
(***************************************************************************)
EXTENDS Identity, Integers, SequenceTheorems, FiniteSetTheorems,
        WellFoundedInduction, TLAPS

(* A set with 0 that has n + 1 with every n has all natural numbers.       *)
LEMMA SetInduction ==
  ASSUME NEW S, 0 \in S, \A n \in Nat : n \in S => n + 1 \in S
  PROVE  Nat \subseteq S
<1> DEFINE R == OpToRel(<, Nat)
           T == Nat \ S
<1>1. IsWellFoundedOn(R, Nat)
  BY NatLessThanWellFounded
<1>2. \A x, y \in Nat : <<x, y>> \in R <=> x < y
  BY DEF OpToRel
<1> HIDE DEF R
<1> SUFFICES ASSUME T # {} PROVE FALSE
  OBVIOUS
<1>3. PICK m \in T : \A y \in T : ~ (<<y, m>> \in R)
  BY <1>1, WFMin
<1>4. m \in Nat /\ m # 0 /\ m \notin S
  BY <1>3
<1>5. m - 1 \in Nat /\ m - 1 < m /\ (m - 1) + 1 = m
  BY <1>4
<1>6. m - 1 \in S
  BY <1>2, <1>3, <1>4, <1>5
<1> QED
  BY <1>4, <1>5, <1>6

-----------------------------------------------------------------------------
(* Keep.                                                                   *)

(* f[n] is what is kept of the first n elements of s, for n up to m.       *)
IsKept(f, s, S, m) ==
  f = [n \in 0..m |-> IF n = 0 THEN <<>>
                      ELSE IF s[n] \in S THEN Append(f[n - 1], s[n]) ELSE f[n - 1]]

(* The recursion defines a function.                                       *)
LEMMA KeepIsDefined ==
  ASSUME NEW s, NEW S, NEW m \in Nat
  PROVE  \E f : IsKept(f, s, S, m)
<1> DEFINE U == {n \in Nat : \E f : IsKept(f, s, S, n)}
<1>1. 0 \in U
  <2> DEFINE f == [n \in 0..0 |-> <<>>]
  <2>1. f = [n \in 0..0 |-> IF n = 0 THEN <<>>
                            ELSE IF s[n] \in S THEN Append(f[n - 1], s[n]) ELSE f[n - 1]]
    OBVIOUS
  <2> QED
    BY <2>1 DEF IsKept
<1>2. ASSUME NEW n \in Nat, n \in U PROVE n + 1 \in U
  <2>1. PICK f : IsKept(f, s, S, n)
    BY <1>2
  <2> DEFINE next == IF s[n + 1] \in S THEN Append(f[n], s[n + 1]) ELSE f[n]
             g == [i \in 0..n + 1 |-> IF i = n + 1 THEN next ELSE f[i]]
             h == [i \in 0..n + 1 |->
                     IF i = 0 THEN <<>>
                     ELSE IF s[i] \in S THEN Append(g[i - 1], s[i]) ELSE g[i - 1]]
  <2>2. ASSUME NEW i \in 0..n + 1 PROVE g[i] = h[i]
    <3>1. CASE i = 0
      <4>1. g[i] = f[0] /\ 0 \in 0..n
        BY <3>1
      <4>2. f[0] = <<>>
        BY <2>1, <4>1 DEF IsKept
      <4> QED
        BY <3>1, <4>1, <4>2
    <3>2. CASE i \in 1..n
      <4>1. g[i] = f[i] /\ g[i - 1] = f[i - 1] /\ i \in 0..n /\ i # 0
        BY <3>2
      <4>2. f[i] = IF s[i] \in S THEN Append(f[i - 1], s[i]) ELSE f[i - 1]
        BY <2>1, <4>1 DEF IsKept
      <4> QED
        BY <4>1, <4>2
    <3>3. CASE i = n + 1
      <4>1. g[i] = next /\ g[i - 1] = f[n] /\ i # 0 /\ s[i] = s[n + 1]
        BY <3>3
      <4> QED
        BY <3>3, <4>1
    <3> QED
      BY <3>1, <3>2, <3>3
  <2> HIDE DEF next
  <2>3. g = h
    <3>1. g = [i \in 0..n + 1 |-> g[i]] /\ h = [i \in 0..n + 1 |-> h[i]]
      OBVIOUS
    <3> HIDE DEF g, h
    <3> QED
      BY <2>2, <3>1
  <2> HIDE DEF g
  <2>4. IsKept(g, s, S, n + 1)
    BY <2>3 DEF IsKept
  <2> QED
    BY <2>4
<1> HIDE DEF U
<1>3. m \in U
  BY <1>1, <1>2, SetInduction
<1> QED
  BY <1>3 DEF U

(* What the recursion says.                                                *)
LEMMA KeepUnfolds ==
  ASSUME NEW T, NEW s \in Seq(T), NEW S
  PROVE  \E f : /\ IsKept(f, s, S, Len(s))
                /\ Keep(s, S) = f[Len(s)]
<1> DEFINE f == CHOOSE k : IsKept(k, s, S, Len(s))
<1>1. Len(s) \in Nat
  BY LenProperties
<1>2. IsKept(f, s, S, Len(s))
  BY <1>1, KeepIsDefined
<1>3. Keep(s, S) = f[Len(s)]
  BY DEF Keep, IsKept
<1> QED
  BY <1>2, <1>3

(* The positions of s, up to n, of what is kept.                           *)
Kept(s, S, n) == {i \in 1..n : s[i] \in S}

Elements(s) == {s[i] : i \in DOMAIN s}

(* What is kept is what is in S, as often as it is in s.                   *)
LEMMA KeepProperties ==
  ASSUME NEW T, NEW s \in Seq(T), NEW S
  PROVE  /\ Keep(s, S) \in Seq(T \cap S)
         /\ Elements(Keep(s, S)) = {s[i] : i \in Kept(s, S, Len(s))}
         /\ Cardinality(Kept(s, S, Len(s))) = Len(Keep(s, S))
<1>1. Len(s) \in Nat /\ \A i \in 1..Len(s) : s[i] \in T
  BY LenProperties, ElementOfSeq
<1>2. PICK f : IsKept(f, s, S, Len(s)) /\ Keep(s, S) = f[Len(s)]
  BY KeepUnfolds
<1> DEFINE P(n) == /\ f[n] \in Seq(T \cap S)
                   /\ Elements(f[n]) = {s[i] : i \in Kept(s, S, n)}
                   /\ IsFiniteSet(Kept(s, S, n))
                   /\ Cardinality(Kept(s, S, n)) = Len(f[n])
           U == {n \in Nat : n <= Len(s) => P(n)}
<1>3. f[0] = <<>>
  BY <1>1, <1>2 DEF IsKept
<1>4. ASSUME NEW n \in Nat, n + 1 <= Len(s)
      PROVE  f[n + 1] = IF s[n + 1] \in S THEN Append(f[n], s[n + 1]) ELSE f[n]
  <2>1. n + 1 \in 0..Len(s) /\ n + 1 # 0 /\ (n + 1) - 1 = n
    BY <1>1, <1>4
  <2> QED
    BY <1>2, <2>1 DEF IsKept
<1>5. 0 \in U
  <2>1. Kept(s, S, 0) = {}
    BY DEF Kept
  <2>2. <<>> \in Seq(T \cap S) /\ Elements(<<>>) = {} /\ Len(<<>>) = 0
    BY DEF Elements
  <2>3. {s[i] : i \in Kept(s, S, 0)} = {}
    BY <2>1
  <2> QED
    BY <1>3, <2>1, <2>2, <2>3, FS_EmptySet
<1>6. ASSUME NEW n \in Nat, n \in U PROVE n + 1 \in U
  <2> SUFFICES ASSUME n + 1 <= Len(s) PROVE P(n + 1)
    OBVIOUS
  <2>1. P(n)
    BY <1>1, <1>6
  <2>2. n + 1 \in 1..Len(s) /\ s[n + 1] \in T
    BY <1>1
  <2>3. CASE s[n + 1] \in S
    <3>1. /\ Kept(s, S, n + 1) = Kept(s, S, n) \cup {n + 1}
          /\ n + 1 \notin Kept(s, S, n)
      BY <2>3 DEF Kept
    <3>2. f[n + 1] = Append(f[n], s[n + 1])
      BY <1>4, <2>3
    <3> HIDE DEF U
    <3>3. /\ Append(f[n], s[n + 1]) \in Seq(T \cap S)
          /\ Len(Append(f[n], s[n + 1])) = Len(f[n]) + 1
          /\ \A i \in 1..Len(f[n]) : Append(f[n], s[n + 1])[i] = f[n][i]
          /\ Append(f[n], s[n + 1])[Len(f[n]) + 1] = s[n + 1]
      BY <2>1, <2>2, <2>3, AppendProperties
    <3>4. Elements(Append(f[n], s[n + 1])) = Elements(f[n]) \cup {s[n + 1]}
      <4>1. /\ DOMAIN f[n] = 1..Len(f[n])
            /\ DOMAIN Append(f[n], s[n + 1]) = 1..Len(f[n]) + 1
            /\ Len(f[n]) \in Nat
        BY <2>1, <3>3, LenProperties
      <4> HIDE DEF P
      <4>2. 1..Len(f[n]) + 1 = (1..Len(f[n])) \cup {Len(f[n]) + 1}
        BY <4>1
      <4> QED
        BY <3>3, <4>1, <4>2 DEF Elements
    <3>5. {s[i] : i \in Kept(s, S, n + 1)} = {s[i] : i \in Kept(s, S, n)} \cup {s[n + 1]}
      BY <3>1
    <3>6. /\ IsFiniteSet(Kept(s, S, n + 1))
          /\ Cardinality(Kept(s, S, n + 1)) = Cardinality(Kept(s, S, n)) + 1
      <4>1. IsFiniteSet(Kept(s, S, n))
        BY <2>1
      <4> HIDE DEF P
      <4> QED
        BY <3>1, <4>1, FS_AddElement
    <3> QED
      BY <2>1, <3>2, <3>3, <3>4, <3>5, <3>6
  <2>4. CASE s[n + 1] \notin S
    <3>1. Kept(s, S, n + 1) = Kept(s, S, n)
      BY <2>4 DEF Kept
    <3>2. f[n + 1] = f[n]
      BY <1>4, <2>4
    <3> QED
      BY <2>1, <3>1, <3>2
  <2> QED
    BY <2>3, <2>4
<1> HIDE DEF U
<1>7. Len(s) \in U
  BY <1>1, <1>5, <1>6, SetInduction
<1> QED
  BY <1>1, <1>2, <1>7 DEF U

(* If all but one element are in S, or all of them (then k is beyond the   *)
(* end), the rest is what is kept, in its order.                           *)
AllBut(k, s, S) == \A i \in 1..Len(s) : s[i] \in S <=> i # k

LEMMA KeepAllBut ==
  ASSUME NEW T, NEW s \in Seq(T), NEW S, NEW k \in 1..Len(s) + 1, AllBut(k, s, S)
  PROVE  LET p == Keep(s, S)
         IN /\ p \in Seq(T)
            /\ Len(p) = IF k <= Len(s) THEN Len(s) - 1 ELSE Len(s)
            /\ \A i \in 1..Len(p) : p[i] = IF i < k THEN s[i] ELSE s[i + 1]
<1> USE DEF AllBut
<1>1. Len(s) \in Nat /\ \A i \in 1..Len(s) : s[i] \in T
  BY LenProperties, ElementOfSeq
<1>2. PICK f : IsKept(f, s, S, Len(s)) /\ Keep(s, S) = f[Len(s)]
  BY KeepUnfolds
<1> DEFINE P(n) == /\ f[n] \in Seq(T)
                   /\ Len(f[n]) = IF k <= n THEN n - 1 ELSE n
                   /\ \A i \in 1..Len(f[n]) : f[n][i] = IF i < k THEN s[i] ELSE s[i + 1]
           U == {n \in Nat : n <= Len(s) => P(n)}
<1>3. 0 \in U
  <2>1. f[0] = <<>>
    BY <1>1, <1>2 DEF IsKept
  <2>2. f[0] \in Seq(T) /\ Len(f[0]) = 0
    BY <2>1
  <2> QED
    BY <1>1, <2>2
<1>4. ASSUME NEW n \in Nat, n \in U PROVE n + 1 \in U
  <2> SUFFICES ASSUME n + 1 <= Len(s) PROVE P(n + 1)
    OBVIOUS
  <2>1. P(n)
    BY <1>1, <1>4
  <2>2. n + 1 \in 0..Len(s) /\ n + 1 # 0 /\ (n + 1) - 1 = n /\ n + 1 \in 1..Len(s)
    BY <1>1
  <2>3. f[n + 1] = IF s[n + 1] \in S THEN Append(f[n], s[n + 1]) ELSE f[n]
    BY <1>2, <2>2 DEF IsKept
  <2>4. CASE n + 1 = k
    <3>1. f[n + 1] = f[n]
      BY <2>2, <2>3, <2>4
    <3>2. Len(f[n]) = n /\ ~(k <= n) /\ k <= n + 1
      BY <2>1, <2>4
    <3> QED
      BY <2>1, <3>1, <3>2
  <2>5. CASE n + 1 # k
    <3>1. f[n + 1] = Append(f[n], s[n + 1]) /\ s[n + 1] \in T
      BY <1>1, <2>2, <2>3, <2>5
    <3>2. /\ f[n + 1] \in Seq(T)
          /\ Len(f[n + 1]) = Len(f[n]) + 1
          /\ \A i \in 1..Len(f[n]) : f[n + 1][i] = f[n][i]
          /\ f[n + 1][Len(f[n]) + 1] = s[n + 1]
      BY <2>1, <3>1, AppendProperties
    <3>3. Len(f[n + 1]) = IF k <= n + 1 THEN n + 1 - 1 ELSE n + 1
      BY <1>1, <2>1, <2>5, <3>2
    <3>4. ASSUME NEW i \in 1..Len(f[n + 1])
          PROVE  f[n + 1][i] = IF i < k THEN s[i] ELSE s[i + 1]
      <4>1. CASE i \in 1..Len(f[n])
        BY <2>1, <3>2, <4>1
      <4>2. CASE i = Len(f[n]) + 1
        <5>1. f[n + 1][i] = s[n + 1]
          BY <3>2, <4>2
        <5>2. i = IF k <= n THEN n ELSE n + 1
          BY <2>1, <4>2
        <5> HIDE DEF P
        <5> QED
          BY <2>5, <5>1, <5>2
      <4> QED
        <5>1. Len(f[n]) \in Nat
          BY <2>1, LenProperties
        <5> QED
          BY <3>2, <4>1, <4>2, <5>1
    <3> QED
      BY <3>2, <3>3, <3>4
  <2> QED
    BY <2>4, <2>5
<1> HIDE DEF U
<1>5. Len(s) \in U
  BY <1>1, <1>3, <1>4, SetInduction
<1> QED
  BY <1>1, <1>2, <1>5 DEF U

-----------------------------------------------------------------------------
(* The groups are those the token names, and as many.                      *)
LEMMA GroupsAreNamed ==
  ASSUME NEW token, IsToken(token)
  PROVE  LET groups == extractGroupsClaim(token.groups)
         IN /\ groups \in Seq(Names)
            /\ Elements(groups) = GroupsNamed(token)
            /\ Len(groups) = Cardinality(Naming(token))
<1> DEFINE claim == token.groups
           T == Names \cup {"", NotString}
<1>1. CASE claim \in {Nil, NotString}
  <2>1. extractGroupsClaim(claim) = <<>>
    BY <1>1 DEF extractGroupsClaim
  <2>2. Naming(token) = {} /\ GroupsNamed(token) = {}
    BY <1>1 DEF Naming, GroupsNamed
  <2>3. <<>> \in Seq(Names) /\ Elements(<<>>) = {} /\ Len(<<>>) = 0
    BY DEF Elements
  <2> QED
    BY <2>1, <2>2, <2>3, FS_EmptySet
<1>2. CASE claim \notin {Nil, NotString}
  <2>1. claim \in Seq(T)
    BY <1>2 DEF IsToken
  <2>2. extractGroupsClaim(claim) = Keep(claim, Names)
    BY <1>2 DEF extractGroupsClaim
  <2>3. Naming(token) = Kept(claim, Names, Len(claim))
    BY <1>2, <2>1, LenProperties DEF Naming, Kept
  <2>4. GroupsNamed(token) = {claim[i] : i \in Kept(claim, Names, Len(claim))}
    BY <2>3 DEF GroupsNamed
  <2>5. T \cap Names = Names
    OBVIOUS
  <2> HIDE DEF claim, T
  <2>6. /\ Keep(claim, Names) \in Seq(T \cap Names)
        /\ Elements(Keep(claim, Names)) = {claim[i] : i \in Kept(claim, Names, Len(claim))}
        /\ Cardinality(Kept(claim, Names, Len(claim))) = Len(Keep(claim, Names))
    BY <2>1, KeepProperties
  <2> QED
    BY <2>2, <2>3, <2>4, <2>5, <2>6 DEF claim
<1> QED
  BY <1>1, <1>2

LEMMA CountsCompare == \A n \in Nat : n > maxGroupCount <=> ~(n <= maxGroupCount)
BY CountAssumption

(* A key has an ID.                                                        *)
HaveIDs(keys) == keys # Nil => "" \notin keys /\ Nil \notin keys

(* The signature and the claims about time, issuer and audience.           *)
LEMMA SignatureIsChecked ==
  ASSUME NEW token, NEW cfg, NEW keys,
         HaveIDs(keys)
  PROVE  parseAndValidateJWT(token, cfg, keys) <=>
           /\ token.wellFormed
           /\ keys # Nil /\ token.signer \in keys /\ token.kid = token.signer
           /\ token.expires = "later"
           /\ cfg.Issuer \in {"", token.iss} /\ cfg.Audience \in {"", token.aud}
BY DEF parseAndValidateJWT, Keyfunc, HaveIDs

(* A token ends in an identity exactly if it may be acted on: then it is   *)
(* that of its own user and of all the groups it names, and of no others.  *)
(* For every token, whatever claims are missing or of another type, every  *)
(* configuration and every state of the key cache (identity.go:135-184).   *)
THEOREM IdentityIsTheTokens ==
  ASSUME NEW token, IsToken(token),
         NEW cfg, cfg.jwks \in BOOLEAN,
         NEW keys, HaveIDs(keys)
  PROVE  LET id == ExtractFromJWT(token, cfg, keys)
         IN /\ id # Nil <=> Acceptable(token, cfg, keys)
            /\ id # Nil => /\ id.user = token.user
                           /\ Elements(id.groups) = GroupsNamed(token)
<1> DEFINE user == extractStringClaim(token.user)
           groups == extractGroupsClaim(token.groups)
           Refused == \/ IF cfg.jwks THEN ~parseAndValidateJWT(token, cfg, keys)
                                     ELSE ~parseJWTPayload(token)
                      \/ user \in {Nil, ""} \/ ~validateIdentity(user)
                      \/ Len(groups) > maxGroupCount
                      \/ \E i \in DOMAIN groups : ~validateGroup(groups[i])
<1>1. /\ groups \in Seq(Names)
      /\ Elements(groups) = GroupsNamed(token)
      /\ Len(groups) = Cardinality(Naming(token))
      /\ Len(groups) \in Nat
  BY GroupsAreNamed, LenProperties
<1>2. ~(user \in {Nil, ""} \/ ~validateIdentity(user)) <=> MayBeNamed(token.user)
  BY NamesAssumption DEF IsToken, extractStringClaim, validateIdentity, MayBeNamed
<1>3. MayBeNamed(token.user) => user = token.user /\ user \in Names
  BY NamesAssumption DEF extractStringClaim, MayBeNamed
<1>4. (\E i \in DOMAIN groups : ~validateGroup(groups[i]))
        <=> ~ \A g \in GroupsNamed(token) : MayBeNamed(g)
  <2>1. \A i \in DOMAIN groups : groups[i] \in Names
    BY <1>1, LenProperties, ElementOfSeq
  <2>2. \A i \in DOMAIN groups : validateGroup(groups[i]) <=> MayBeNamed(groups[i])
    BY <2>1 DEF validateGroup, validateIdentity, MayBeNamed
  <2> HIDE DEF groups
  <2> QED
    BY <1>1, <2>2 DEF Elements
<1>5. Len(groups) > maxGroupCount <=> ~(Cardinality(Naming(token)) <= maxGroupCount)
  <2> HIDE DEF groups
  <2> QED
    BY <1>1, CountsCompare, Zenon
<1>6. (IF cfg.jwks THEN parseAndValidateJWT(token, cfg, keys) ELSE parseJWTPayload(token))
        <=> /\ token.wellFormed
            /\ cfg.jwks =>
                 /\ keys # Nil /\ token.signer \in keys /\ token.kid = token.signer
                 /\ token.expires = "later"
                 /\ cfg.Issuer \in {"", token.iss} /\ cfg.Audience \in {"", token.aud}
  BY SignatureIsChecked DEF parseJWTPayload
<1>7. ~Refused <=> Acceptable(token, cfg, keys)
  <2> HIDE DEF user, groups
  <2> QED
    BY <1>2, <1>4, <1>5, <1>6, Zenon DEF Acceptable
<1>8. ExtractFromJWT(token, cfg, keys)
        = IF Refused THEN Nil ELSE [user |-> user, groups |-> groups]
  BY DEF ExtractFromJWT
<1>9. ~Refused => [user |-> user, groups |-> groups] # Nil
  <2>1. Acceptable(token, cfg, keys) => user \in Names
    BY <1>3 DEF Acceptable
  <2> HIDE DEF user, groups, Refused
  <2> QED
    <3>1. user \in Names /\ groups \in Seq(Names) =>
            [user |-> user, groups |-> groups] \in [user : Names, groups : Seq(Names)]
      OBVIOUS
    <3> QED
      BY <1>1, <1>7, <2>1, <3>1, NobodyAssumption
<1>10. ~Refused => user = token.user
  BY <1>3, <1>7 DEF Acceptable
<1> HIDE DEF user, groups, Refused
<1>11. CASE Refused
  BY <1>7, <1>8, <1>11
<1>12. CASE ~Refused
  <2> DEFINE id == [user |-> user, groups |-> groups]
  <2>1. ExtractFromJWT(token, cfg, keys) = id
    BY <1>8, <1>12
  <2>2. id # Nil /\ id.user = token.user /\ id.groups = groups
    BY <1>9, <1>10, <1>12
  <2> HIDE DEF id
  <2> QED
    BY <1>1, <1>7, <1>12, <2>1, <2>2
<1> QED
  BY <1>11, <1>12
=============================================================================
