------------------------ MODULE ResourceReadsProofs ------------------------
(***************************************************************************)
(* Lists: pages make up the whole list, for any number of objects, any     *)
(* limits and any filter.  WalkInv says of the items gathered so far that  *)
(* they are the objects before the one the next page starts with.          *)
(*                                                                         *)
(* Reads: what is asked for, and for whom, for any URIs, catalog, tokens   *)
(* and keys.  ReadInv says of a read that it keeps what it met when it came*)
(* and ended as that tells; OfferInv, that what is on offer was discovered.*)
(***************************************************************************)
EXTENDS ResourceReads, IdentityProofs

Keys == Seq(Letters)

(* An object as a list with this filter has to show it.                    *)
Shown(filter, i) ==
  [object |-> i, annotations |-> {k \in Objects[i] : Wanted(k, filter)}]

AllShown(filter) == {Shown(filter, i) : i \in DOMAIN Objects}

(* The object the next page starts with.                                   *)
Following(token) == IF token = Nil THEN 1 ELSE token

Gathered(items, filter, n) ==
  /\ items \in Seq(AllShown(filter))
  /\ Len(items) = n
  /\ \A i \in 1..n : items[i] = Shown(filter, i)

WalkInv ==
  /\ DOMAIN walk = {"filter", "continue", "items", "state"}
  /\ walk.state \in {"none", "open", "complete"}
  /\ walk.state # "none" => walk.filter \in Filters
  /\ walk.state = "open" =>
       /\ walk.continue \in (1..Len(Objects)) \cup {Nil}
       /\ Gathered(walk.items, walk.filter, Following(walk.continue) - 1)
  /\ walk.state = "complete" => Gathered(walk.items, walk.filter, Len(Objects))

-----------------------------------------------------------------------------
(* The first n letters.                                                    *)
LEMMA Beginning ==
  ASSUME NEW s \in Keys, NEW n \in 0..Len(s)
  PROVE  /\ SubSeq(s, 1, n) \in Keys
         /\ Len(SubSeq(s, 1, n)) = n
         /\ \A i \in 1..n : SubSeq(s, 1, n)[i] = s[i]
<1> USE DEF Keys
<1>1. Len(s) \in Nat
  BY LenProperties
<1>2. n \in Int /\ 1 \in Int
  BY <1>1
<1>3. \A i \in 1..n : s[i] \in Letters
  BY <1>1, ElementOfSeq
<1>4. /\ SubSeq(s, 1, n) \in Seq(Letters)
      /\ Len(SubSeq(s, 1, n)) = IF 1 <= n THEN n - 1 + 1 ELSE 0
      /\ \A i \in 1..n - 1 + 1 : SubSeq(s, 1, n)[i] = s[1 + i - 1]
  BY <1>2, <1>3, SubSeqProperties
<1> QED
  BY <1>1, <1>2, <1>4

(* A pattern with a star at its end is what comes before it and the star.  *)
LEMMA StarPattern ==
  ASSUME NEW p \in Keys, p # <<>>, p[Len(p)] = "*"
  PROVE  /\ Len(p) - 1 \in Nat
         /\ p = Append(SubSeq(p, 1, Len(p) - 1), "*")
<1> DEFINE front == SubSeq(p, 1, Len(p) - 1)
<1>1. Len(p) \in Nat \ {0}
  BY EmptySeq DEF Keys
<1>2. /\ front \in Keys
      /\ Len(front) = Len(p) - 1
      /\ \A i \in 1..Len(p) - 1 : front[i] = p[i]
  <2>1. Len(p) - 1 \in 0..Len(p)
    BY <1>1
  <2> QED
    BY <2>1, Beginning
<1> HIDE DEF front
<1>3. /\ Append(front, "*") \in Keys
      /\ Len(Append(front, "*")) = Len(p)
      /\ \A i \in 1..Len(p) - 1 : Append(front, "*")[i] = front[i]
      /\ Append(front, "*")[Len(p)] = "*"
  BY <1>1, <1>2, ListsAssumption, AppendProperties DEF Keys
<1>4. \A i \in 1..Len(p) : p[i] = Append(front, "*")[i]
  BY <1>1, <1>2, <1>3
<1>5. p = Append(front, "*")
  BY <1>1, <1>3, <1>4, SeqEqual DEF Keys
<1> QED
  BY <1>1, <1>5 DEF front

(* A star at the end can be taken off again.                               *)
LEMMA StarAppended ==
  ASSUME NEW b \in Keys
  PROVE  /\ Append(b, "*") \in Keys /\ Append(b, "*") # <<>>
         /\ Append(b, "*")[Len(Append(b, "*"))] = "*"
         /\ SubSeq(Append(b, "*"), 1, Len(Append(b, "*")) - 1) = b
<1> DEFINE p == Append(b, "*")
<1>1. Len(b) \in Nat
  BY LenProperties DEF Keys
<1>2. /\ p \in Keys /\ p # <<>>
      /\ Len(p) = Len(b) + 1
      /\ \A i \in 1..Len(b) : p[i] = b[i]
      /\ p[Len(b) + 1] = "*"
  BY ListsAssumption, AppendProperties DEF Keys
<1> HIDE DEF p
<1>3. /\ SubSeq(p, 1, Len(b)) \in Keys
      /\ Len(SubSeq(p, 1, Len(b))) = Len(b)
      /\ \A i \in 1..Len(b) : SubSeq(p, 1, Len(b))[i] = p[i]
  BY <1>1, <1>2, Beginning
<1>4. SubSeq(p, 1, Len(b)) = b
  BY <1>2, <1>3, SeqEqual DEF Keys
<1>5. Len(p) - 1 = Len(b)
  BY <1>1, <1>2
<1> QED
  BY <1>2, <1>4, <1>5 DEF p

(* The code's test for a pattern and the reference, on all patterns.       *)
LEMMA PatternsMatchPrefixes ==
  ASSUME NEW key \in Keys, NEW patterns \in SUBSET Keys
  PROVE  (\E p \in patterns : matchesPattern(key, p))
           <=> \/ key \in patterns
               \/ \E n \in 0..Len(key) : Append(SubSeq(key, 1, n), "*") \in patterns
<1>1. Len(key) \in Nat
  BY LenProperties DEF Keys
<1>2. ASSUME NEW p \in patterns, matchesPattern(key, p), key \notin patterns
      PROVE  \E n \in 0..Len(key) : Append(SubSeq(key, 1, n), "*") \in patterns
  <2> DEFINE front == SubSeq(p, 1, Len(p) - 1)
  <2>1. p # <<>> /\ p[Len(p)] = "*" /\ HasPrefix(key, front)
    BY <1>2 DEF matchesPattern
  <2>2. Len(p) - 1 \in Nat /\ p = Append(front, "*")
    BY <2>1, StarPattern
  <2>3. Len(front) = Len(p) - 1
    <3>1. Len(p) \in Nat /\ Len(p) - 1 \in 0..Len(p)
      BY <2>2, LenProperties DEF Keys
    <3> QED
      BY <3>1, Beginning
  <2> HIDE DEF front
  <2>4. Len(front) \in 0..Len(key) /\ SubSeq(key, 1, Len(front)) = front
    BY <1>1, <2>1, <2>2, <2>3 DEF HasPrefix
  <2> QED
    BY <2>2, <2>4
<1>3. ASSUME NEW n \in 0..Len(key), Append(SubSeq(key, 1, n), "*") \in patterns
      PROVE  \E p \in patterns : matchesPattern(key, p)
  <2> DEFINE b == SubSeq(key, 1, n)
  <2>1. b \in Keys /\ Len(b) = n
    BY <1>3, Beginning
  <2>2. HasPrefix(key, b)
    BY <1>1, <2>1 DEF HasPrefix
  <2> HIDE DEF b
  <2>3. matchesPattern(key, Append(b, "*"))
    BY <2>1, <2>2, StarAppended DEF matchesPattern
  <2> QED
    BY <1>3, <2>3 DEF b
<1>4. ASSUME key \in patterns PROVE \E p \in patterns : matchesPattern(key, p)
  BY <1>4 DEF matchesPattern
<1> QED
  BY <1>2, <1>3, <1>4

(* An object is shown with the annotations that are wanted.                *)
LEMMA ShowsWhatIsWanted ==
  ASSUME NEW f \in Filters, NEW i \in DOMAIN Objects
  PROVE  [object |-> i,
          annotations |-> IF f.annotations THEN filterAnnotations(Objects[i], f) ELSE {}]
           = Shown(f, i)
<1> DEFINE annotations == IF f.annotations THEN filterAnnotations(Objects[i], f) ELSE {}
<1>1. Objects[i] \subseteq Keys
  BY ListsAssumption, LenProperties, ElementOfSeq DEF Keys
<1>2. f.exclude \in SUBSET Keys
  BY ListsAssumption DEF Keys
<1>3. ASSUME NEW k \in Objects[i] PROVE k \in annotations <=> Wanted(k, f)
  <2>1. CASE f.include # {} \/ ~f.annotations
    BY <2>1 DEF Wanted, filterAnnotations
  <2>2. CASE f.include = {} /\ f.annotations
    <3>1. k \in annotations <=> ~\E p \in f.exclude : matchesPattern(k, p)
      BY <2>2 DEF filterAnnotations
    <3>2. Wanted(k, f) <=>
            ~(\/ k \in f.exclude
              \/ \E n \in 0..Len(k) : Append(SubSeq(k, 1, n), "*") \in f.exclude)
      BY <2>2 DEF Wanted
    <3>3. k \in Keys
      BY <1>1
    <3>4. (\E p \in f.exclude : matchesPattern(k, p))
             <=> \/ k \in f.exclude
                 \/ \E n \in 0..Len(k) : Append(SubSeq(k, 1, n), "*") \in f.exclude
      BY <1>2, <3>3, PatternsMatchPrefixes
    <3> QED
      BY <3>1, <3>2, <3>4
  <2> QED
    BY <2>1, <2>2
<1>4. annotations \subseteq Objects[i]
  BY DEF filterAnnotations
<1> HIDE DEF annotations
<1>5. annotations = {k \in Objects[i] : Wanted(k, f)}
  BY <1>3, <1>4
<1> QED
  BY <1>5 DEF Shown, annotations

-----------------------------------------------------------------------------
(* A page is the objects from the one its token stands for to its last     *)
(* one, and its token the next one after that, if there is one.            *)
LEMMA PagesAreConsecutive ==
  ASSUME NEW f \in Filters, NEW limit \in Limits,
         NEW token \in (1..Len(Objects)) \cup {Nil}
  PROVE  LET page == HandleListResources(limit, token, f)
             last == IF page.continue = Nil THEN Len(Objects) ELSE page.continue - 1
         IN /\ page.continue \in (1..Len(Objects)) \cup {Nil}
            /\ last - Following(token) + 1 \in Nat
            /\ page.items \in Seq(AllShown(f))
            /\ Len(page.items) = last - Following(token) + 1
            /\ \A i \in 1..Len(page.items) :
                 page.items[i] = Shown(f, Following(token) + i - 1)
<1> DEFINE length == IF limit > 0 THEN limit ELSE 0
           first == Following(token)
           end == IF length = 0 \/ first + length > Len(Objects)
                    THEN Len(Objects) ELSE first + length - 1
           page == HandleListResources(limit, token, f)
           next == IF end = Len(Objects) THEN Nil ELSE end + 1
           n == end - first + 1
<1>1. /\ List(ListOptions(limit, token)).items = [i \in 1..n |-> first + i - 1]
      /\ List(ListOptions(limit, token)).continue = next
  BY DEF List, ListOptions, Following
<1>2. Len(Objects) \in Nat /\ DOMAIN Objects = 1..Len(Objects)
  BY ListsAssumption, LenProperties
<1>3. first \in Nat \ {0} /\ first <= Len(Objects) + 1
  BY <1>2, ListsAssumption DEF Following
<1>4. length \in Nat
  BY ListsAssumption
<1> HIDE DEF length, first
<1>5. end \in Nat /\ end <= Len(Objects) /\ first <= end + 1
  BY <1>2, <1>3, <1>4
<1>6. \A i \in 1..n : first + i - 1 \in DOMAIN Objects
  BY <1>2, <1>3, <1>5
<1> HIDE DEF end
<1>7. /\ page.continue = next
      /\ page.items = [i \in 1..n |-> Shown(f, first + i - 1)]
  <2> DEFINE list == List(ListOptions(limit, token))
             show(i) == [object |-> i,
                         annotations |-> IF f.annotations
                                           THEN filterAnnotations(Objects[i], f) ELSE {}]
  <2>1. /\ page.continue = list.continue
        /\ page.items = [i \in DOMAIN list.items |-> show(list.items[i])]
    BY DEF HandleListResources
  <2>2. \A i \in DOMAIN Objects : show(i) = Shown(f, i)
    BY ShowsWhatIsWanted
  <2> HIDE DEF list, page, show, n, next
  <2>3. page.items = [i \in 1..n |-> show(first + i - 1)]
    BY <1>1, <2>1 DEF list
  <2>4. page.items = [i \in 1..n |-> Shown(f, first + i - 1)]
    BY <1>6, <2>2, <2>3
  <2> QED
    BY <1>1, <2>1, <2>4 DEF list
<1>8. n \in Nat
  BY <1>3, <1>5
<1>9. /\ page.items \in [1..n -> AllShown(f)]
      /\ \A i \in 1..n : page.items[i] = Shown(f, first + i - 1)
  BY <1>6, <1>7 DEF AllShown
<1> HIDE DEF n, page
<1>10. page.items \in Seq(AllShown(f)) /\ Len(page.items) = n
  BY <1>8, <1>9
<1>11. /\ next \in (1..Len(Objects)) \cup {Nil}
       /\ end = IF next = Nil THEN Len(Objects) ELSE next - 1
  <2>1. CASE end = Len(Objects)
    BY <2>1
  <2>2. CASE end # Len(Objects)
    <3>1. end + 1 \in 1..Len(Objects) /\ end + 1 \in Nat /\ end = (end + 1) - 1
      <4>1. \A a, b \in Nat : a <= b /\ a # b =>
              a + 1 \in 1..b /\ a + 1 \in Nat /\ a = (a + 1) - 1
        OBVIOUS
      <4> QED
        BY <4>1, <2>2, <1>2, <1>5
    <3>2. next = end + 1 /\ next # Nil
      BY <2>2, <3>1, ListsAssumption
    <3> QED
      BY <3>1, <3>2
  <2> QED
    BY <2>1, <2>2
<1> QED
  BY <1>7, <1>8, <1>9, <1>10, <1>11 DEF n, first, page

LEMMA InitInv == Init => WalkInv
BY DEF Init, NoWalk, WalkInv

LEMMA PageInv ==
  ASSUME WalkInv, NextPage
  PROVE  WalkInv'
<1> DEFINE f == walk.filter
           first == Following(walk.continue)
<1>1. PICK limit \in Limits :
        LET page == HandleListResources(limit, walk.continue, f)
        IN walk' = [walk EXCEPT !.items = @ \o page.items, !.continue = page.continue,
                                !.state = IF page.continue = Nil THEN "complete" ELSE "open"]
  BY DEF NextPage
<1> DEFINE page == HandleListResources(limit, walk.continue, f)
           last == IF page.continue = Nil THEN Len(Objects) ELSE page.continue - 1
<1>2. /\ f \in Filters
      /\ walk.continue \in (1..Len(Objects)) \cup {Nil}
      /\ Gathered(walk.items, f, first - 1)
  BY DEF NextPage, WalkInv
<1>3. /\ page.continue \in (1..Len(Objects)) \cup {Nil}
      /\ last - first + 1 \in Nat
      /\ page.items \in Seq(AllShown(f))
      /\ Len(page.items) = last - first + 1
      /\ \A i \in 1..Len(page.items) : page.items[i] = Shown(f, first + i - 1)
  BY <1>2, PagesAreConsecutive
<1>4. first \in Nat \ {0} /\ last \in Int
  BY <1>2, <1>3, ListsAssumption, LenProperties DEF Following
<1> HIDE DEF page, first, last
<1>5. Gathered(walk.items \o page.items, f, last)
  <2>1. /\ walk.items \o page.items \in Seq(AllShown(f))
        /\ Len(walk.items \o page.items) = Len(walk.items) + Len(page.items)
        /\ \A i \in 1..Len(walk.items) + Len(page.items) :
             (walk.items \o page.items)[i] =
               IF i <= Len(walk.items) THEN walk.items[i] ELSE page.items[i - Len(walk.items)]
    BY <1>2, <1>3, ConcatProperties DEF Gathered
  <2>2. Len(walk.items) = first - 1
    BY <1>2 DEF Gathered
  <2>3. Len(walk.items) + Len(page.items) = last
    BY <1>3, <1>4, <2>2
  <2>4. ASSUME NEW i \in 1..last
        PROVE  (walk.items \o page.items)[i] = Shown(f, i)
    <3>1. CASE i <= first - 1
      <4>1. i \in 1..first - 1
        BY <3>1, <1>4
      <4>2. (walk.items \o page.items)[i] = walk.items[i]
        BY <3>1, <2>1, <2>2, <2>3
      <4> QED
        BY <4>1, <4>2, <1>2 DEF Gathered
    <3>2. CASE ~(i <= first - 1)
      <4>1. PICK j \in 1..Len(page.items) : j = i - (first - 1) /\ first + j - 1 = i
        BY <3>2, <1>3, <1>4
      <4>2. (walk.items \o page.items)[i] = page.items[j]
        BY <3>2, <4>1, <2>1, <2>2, <2>3
      <4> QED
        BY <4>1, <4>2, <1>3
    <3> QED
      BY <3>1, <3>2
  <2> QED
    BY <2>1, <2>3, <2>4 DEF Gathered
<1> QED
  BY <1>1, <1>2, <1>3, <1>5 DEF WalkInv, Following, last, page

LEMMA StepInv == WalkInv /\ [Next]_vars => WalkInv'
<1> SUFFICES ASSUME WalkInv, [Next]_vars PROVE WalkInv'
  OBVIOUS
<1>1. CASE BeginWalk
  <2>1. PICK f \in Filters : walk' = [NoWalk EXCEPT !.filter = f, !.state = "open"]
    BY <1>1 DEF BeginWalk
  <2>2. walk' = [filter |-> f, continue |-> Nil, items |-> <<>>, state |-> "open"]
    BY <2>1 DEF NoWalk
  <2>3. Gathered(<<>>, f, Following(Nil) - 1)
    <3>1. <<>> \in Seq(AllShown(f)) /\ Len(<<>>) = 0
      BY EmptySeq
    <3> QED
      BY <3>1 DEF Gathered, Following
  <2> QED
    BY <2>2, <2>3 DEF WalkInv
<1>2. CASE NextPage
  BY <1>2, PageInv
<1>3. CASE ListFails
  BY <1>3 DEF ListFails, NoWalk, WalkInv
<1>4. CASE UNCHANGED walk
  BY <1>4 DEF WalkInv
<1> QED
  BY <1>1, <1>2, <1>3, <1>4
     DEF Next, vars, Rotate, Refresh, Stop, Discover, AddResource, ReadURI, ReadAdvertised,
         Receive, CallNoHandler, FindNoHandler, HandleResource

(* Whoever follows the tokens to the end has got every object once, in     *)
(* order, with the annotations that were asked for: for any objects,       *)
(* limits and filter, also when the limit changes between the pages.       *)
THEOREM ListsAreComplete == Spec => []ListsShowWhatWasAsked
<1>1. WalkInv => ListsShowWhatWasAsked
  <2> SUFFICES ASSUME WalkInv, walk.state = "complete"
               PROVE  walk.items = [i \in DOMAIN Objects |-> Shown(walk.filter, i)]
    BY DEF ListsShowWhatWasAsked, Shown
  <2>1. Gathered(walk.items, walk.filter, Len(Objects))
    BY DEF WalkInv
  <2>2. DOMAIN Objects = 1..Len(Objects)
    BY ListsAssumption, LenProperties
  <2>3. walk.items \in [1..Len(Objects) -> AllShown(walk.filter)]
    BY <2>1, LenProperties DEF Gathered
  <2> QED
    BY <2>1, <2>2, <2>3 DEF Gathered
<1> QED
  BY <1>1, InitInv, StepInv, PTL DEF Spec

-----------------------------------------------------------------------------
(* Reads.  The resources on offer come from discovery; a read keeps what it*)
(* met when it came, and ends as these tell.                               *)

OfferInv ==
  /\ published \in (SUBSET KeyIDs) \ {{}}
  /\ keys \in (SUBSET KeyIDs) \cup {Nil} /\ (~config.jwks => keys = Nil)
  /\ listing = Nil => advertised = {}
  /\ listing = Nil \/ listing \subseteq HandleListAllResources \ advertised
  /\ advertised \subseteq HandleListAllResources

IsURI(uri) == uri.scope \in Scopes /\ uri.path \in Seq(Segments)

Means(uri, meant) ==
  IF meant = Nil THEN \A t \in Targets : uri # Template(t)
                 ELSE meant \in Targets /\ uri = Template(meant)

(* What a read met.                                                        *)
Received ==
  /\ read.header \in {NoHeader, NotBearer} \/ IsToken(read.header)
  /\ read.keys \in (SUBSET KeyIDs) \cup {Nil}
  /\ read.identity = IF config.EnableImpersonation
                       THEN ExtractFromRequest(read.header, config, read.keys) ELSE Nil
  /\ IsURI(read.uri) /\ Means(read.uri, read.meant)

(* And what came of it.                                                    *)
Answered ==
  /\ read.outcome \in {"none", "received", "panicked", "not found", "invalid",
                       "anonymous", "requested"}
  /\ read.outcome = "panicked" => \E a \in HandleListAllResources : a.uri = read.uri
  /\ read.outcome = "not found" => ~Matches(read.uri)
  /\ read.outcome = "invalid" => parse(read.uri) = Nil
  /\ read.outcome = "anonymous" => config.EnableImpersonation /\ read.identity = Nil
  /\ IF read.outcome = "requested"
       THEN /\ Matches(read.uri) /\ target = parse(read.uri) /\ target # Nil
            /\ as = (IF config.EnableImpersonation THEN read.identity ELSE "base") /\ as # Nil
       ELSE target = Nil /\ as = Nil

ReadShape ==
  read = [header |-> read.header, keys |-> read.keys, identity |-> read.identity,
          uri |-> read.uri, meant |-> read.meant, outcome |-> read.outcome]

ReadInv ==
  /\ config \in Configs
  /\ ReadShape /\ Answered
  /\ read.outcome # "none" => Received

-----------------------------------------------------------------------------
(* URIs.                                                                   *)

(* The parts of a path with nothing empty, and those of one with only the  *)
(* segment k empty.                                                        *)
LEMMA PartsOf ==
  ASSUME NEW uri, NEW path, path = uri.path, path \in Seq(Segments),
         NEW k \in 1..Len(path) + 1,
         \A i \in 1..Len(path) : path[i] # Empty <=> i # k
  PROVE  /\ Len(parseURI(uri)) = IF k <= Len(path) THEN Len(path) - 1 ELSE Len(path)
         /\ \A i \in 1..Len(parseURI(uri)) :
              parseURI(uri)[i] = IF i < k THEN path[i] ELSE path[i + 1]
<1> DEFINE S == {path[i] : i \in DOMAIN path} \ {Empty}
<1>1. DOMAIN path = 1..Len(path) /\ Len(path) \in Nat
  BY LenProperties
<1>2. \A i \in 1..Len(path) : path[i] \in S <=> i # k
  BY <1>1
<1>3. parseURI(uri) = Keep(path, S)
  BY DEF parseURI
<1> HIDE DEF S
<1> DEFINE q == Keep(path, S)
<1>4. k \in 1..Len(path) + 1
  OBVIOUS
<1>5. /\ Len(q) = IF k <= Len(path) THEN Len(path) - 1 ELSE Len(path)
      /\ \A i \in 1..Len(q) : q[i] = IF i < k THEN path[i] ELSE path[i + 1]
  <2>1. AllBut(k, path, S)
    BY <1>2 DEF AllBut
  <2> HIDE DEF q
  <2>2. Len(q) = IF k <= Len(path) THEN Len(path) - 1 ELSE Len(path)
    BY <1>4, <2>1, KeepAllBut DEF q
  <2>3. \A i \in 1..Len(q) : q[i] = IF i < k THEN path[i] ELSE path[i + 1]
    BY <1>4, <2>1, KeepAllBut DEF q
  <2> QED
    BY <2>2, <2>3
<1> QED
  BY <1>3, <1>5

LEMMA AllParts ==
  ASSUME NEW uri, NEW path, path = uri.path, path \in Seq(Segments),
         \A i \in 1..Len(path) : path[i] # Empty
  PROVE  /\ Len(parseURI(uri)) = Len(path)
         /\ \A i \in 1..Len(path) : parseURI(uri)[i] = path[i]
<1> DEFINE k == Len(path) + 1
<1>1. Len(path) \in Nat
  BY LenProperties
<1>2. k \in 1..Len(path) + 1 /\ ~(k <= Len(path)) /\ \A i \in 1..Len(path) : i # k /\ i < k
  BY <1>1
<1>3. \A i \in 1..Len(path) : path[i] # Empty <=> i # k
  BY <1>2
<1> HIDE DEF k
<1>4. /\ Len(parseURI(uri)) = IF k <= Len(path) THEN Len(path) - 1 ELSE Len(path)
      /\ \A i \in 1..Len(parseURI(uri)) :
           parseURI(uri)[i] = IF i < k THEN path[i] ELSE path[i + 1]
  BY <1>2, <1>3, PartsOf
<1> QED
  BY <1>2, <1>4

OnlyEmpty(k, path) == \A i \in 1..Len(path) : path[i] = Empty <=> i = k

LEMMA PartsButOne ==
  ASSUME NEW uri, NEW path, path = uri.path, path \in Seq(Segments),
         NEW k \in 1..Len(path), OnlyEmpty(k, path)
  PROVE  /\ Len(parseURI(uri)) = Len(path) - 1
         /\ \A i \in 1..Len(path) - 1 :
              parseURI(uri)[i] = IF i < k THEN path[i] ELSE path[i + 1]
<1>1. Len(path) \in Nat
  BY LenProperties
<1>2. k \in 1..Len(path) + 1 /\ k <= Len(path)
  BY <1>1
<1>3. \A i \in 1..Len(path) : path[i] # Empty <=> i # k
  BY DEF OnlyEmpty
<1>4. /\ Len(parseURI(uri)) = IF k <= Len(path) THEN Len(path) - 1 ELSE Len(path)
      /\ \A i \in 1..Len(parseURI(uri)) :
           parseURI(uri)[i] = IF i < k THEN path[i] ELSE path[i + 1]
  BY <1>2, <1>3, PartsOf
<1> QED
  BY <1>2, <1>4

(* What the path of a filled-in template is, and what its parts spell.     *)
ClusteredPath(path, t) ==
  /\ Len(path) = 4 /\ path[1] = t.group /\ path[2] = t.version
  /\ path[3] = t.resource /\ path[4] = t.name

NamespacedPath(path, t) ==
  /\ Len(path) = 5 /\ path[1] = t.namespace /\ path[2] = t.group
  /\ path[3] = t.version /\ path[4] = t.resource /\ path[5] = t.name

ClusteredSpelling(p, t) ==
  \/ /\ t.group # Empty /\ Len(p) = 4 /\ p[1] = t.group
     /\ p[2] = t.version /\ p[3] = t.resource /\ p[4] = t.name
  \/ /\ t.group = Empty /\ Len(p) = 3
     /\ p[1] = t.version /\ p[2] = t.resource /\ p[3] = t.name

NamespacedSpelling(p, t) ==
  \/ /\ t.group # Empty /\ Len(p) = 5 /\ p[1] = t.namespace /\ p[2] = t.group
     /\ p[3] = t.version /\ p[4] = t.resource /\ p[5] = t.name
  \/ /\ t.group = Empty /\ Len(p) = 4 /\ p[1] = t.namespace
     /\ p[2] = t.version /\ p[3] = t.resource /\ p[4] = t.name

Spelling(p, t) ==
  IF t.scope = "clustered" THEN ClusteredSpelling(p, t) ELSE NamespacedSpelling(p, t)

LEMMA TargetShape ==
  ASSUME NEW t \in Targets
  PROVE  /\ t = Components(t.scope, t.namespace, t.group, t.version, t.resource, t.name)
         /\ t.scope \in {"clustered", "namespaced"}
         /\ t.namespace = Empty <=> t.scope = "clustered"
         /\ t.version # Empty /\ t.resource # Empty /\ t.name # Empty
<1>1. t \in [scope : Scopes, namespace : Segments, group : Segments,
             version : Segments \ {Empty}, resource : Segments \ {Empty}, name : Segments \ {Empty}]
  BY DEF Targets
<1>2. t.scope \in Scopes /\ (t.namespace = Empty <=> t.scope = "clustered")
  BY DEF Targets
<1>3. t = Components(t.scope, t.namespace, t.group, t.version, t.resource, t.name)
  BY <1>1 DEF Components
<1>4. t.version # Empty /\ t.resource # Empty /\ t.name # Empty
  BY <1>1
<1> QED
  BY <1>2, <1>3, <1>4 DEF Scopes

LEMMA ClusteredParts ==
  ASSUME NEW t \in Targets, NEW uri, NEW path, path = uri.path, path \in Seq(Segments),
         t.scope = "clustered", ClusteredPath(path, t)
  PROVE  ClusteredSpelling(parseURI(uri), t)
<1> DEFINE p == parseURI(uri)
<1>1. /\ t.version # Empty /\ t.resource # Empty /\ t.name # Empty
      /\ Len(path) = 4 /\ path[1] = t.group /\ path[2] = t.version
      /\ path[3] = t.resource /\ path[4] = t.name
  BY TargetShape DEF ClusteredPath
<1>2. CASE t.group # Empty
  <2>1. \A i \in 1..Len(path) : path[i] # Empty
    BY <1>1, <1>2
  <2>2. Len(p) = 4 /\ \A i \in 1..4 : p[i] = path[i]
    BY <1>1, <2>1, AllParts
  <2> HIDE DEF p
  <2>3. ClusteredSpelling(p, t)
    BY <1>1, <1>2, <2>2 DEF ClusteredSpelling
  <2> QED
    BY <2>3 DEF p
<1>3. CASE t.group = Empty
  <2>1. 1 \in 1..Len(path) /\ OnlyEmpty(1, path)
    BY <1>1, <1>3 DEF OnlyEmpty
  <2>2. /\ Len(p) = Len(path) - 1
        /\ \A i \in 1..Len(path) - 1 : p[i] = IF i < 1 THEN path[i] ELSE path[i + 1]
    BY <2>1, PartsButOne
  <2> HIDE DEF p
  <2>3. ClusteredSpelling(p, t)
    BY <1>1, <1>3, <2>2 DEF ClusteredSpelling
  <2> QED
    BY <2>3 DEF p
<1> QED
  BY <1>2, <1>3

LEMMA NamespacedParts ==
  ASSUME NEW t \in Targets, NEW uri, NEW path, path = uri.path, path \in Seq(Segments),
         t.scope = "namespaced", NamespacedPath(path, t)
  PROVE  NamespacedSpelling(parseURI(uri), t)
<1> DEFINE p == parseURI(uri)
<1>1. /\ t.namespace # Empty /\ t.version # Empty /\ t.resource # Empty /\ t.name # Empty
      /\ Len(path) = 5 /\ path[1] = t.namespace /\ path[2] = t.group
      /\ path[3] = t.version /\ path[4] = t.resource /\ path[5] = t.name
  BY TargetShape DEF NamespacedPath
<1>2. CASE t.group # Empty
  <2>1. \A i \in 1..Len(path) : path[i] # Empty
    BY <1>1, <1>2
  <2>2. Len(p) = 5 /\ \A i \in 1..5 : p[i] = path[i]
    BY <1>1, <2>1, AllParts, SMTT(20)
  <2> HIDE DEF p
  <2>3. NamespacedSpelling(p, t)
    BY <1>1, <1>2, <2>2 DEF NamespacedSpelling
  <2> QED
    BY <2>3 DEF p
<1>3. CASE t.group = Empty
  <2>1. 2 \in 1..Len(path) /\ OnlyEmpty(2, path)
    BY <1>1, <1>3 DEF OnlyEmpty
  <2>2. /\ Len(p) = Len(path) - 1
        /\ \A i \in 1..Len(path) - 1 : p[i] = IF i < 2 THEN path[i] ELSE path[i + 1]
    BY <2>1, PartsButOne
  <2> HIDE DEF p
  <2>3. NamespacedSpelling(p, t)
    BY <1>1, <1>3, <2>2 DEF NamespacedSpelling
  <2> QED
    BY <2>3 DEF p
<1> QED
  BY <1>2, <1>3

(* A URI is read as what its parts spell.                                  *)
LEMMA SpellingParses ==
  ASSUME NEW t \in Targets, NEW uri, uri.scope = t.scope, Spelling(parseURI(uri), t)
  PROVE  parse(uri) = t
<1> DEFINE p == parseURI(uri)
<1>1. /\ t = Components(t.scope, t.namespace, t.group, t.version, t.resource, t.name)
      /\ t.scope \in {"clustered", "namespaced"}
      /\ t.scope = "clustered" => t.namespace = Empty
  BY TargetShape
<1>2. CASE t.scope = "clustered"
  <2>1. parse(uri) = IF Len(p) < 3 THEN Nil
                     ELSE IF Len(p) = 3 THEN Components("clustered", Empty, Empty, p[1], p[2], p[3])
                     ELSE Components("clustered", Empty, p[1], p[2], p[3], p[4])
    BY <1>2 DEF parse, parseClusteredResourceURI
  <2>2. ClusteredSpelling(p, t)
    BY <1>2 DEF Spelling
  <2> HIDE DEF p
  <2> QED
    BY <1>1, <1>2, <2>1, <2>2 DEF ClusteredSpelling
<1>3. CASE t.scope = "namespaced"
  <2>1. parse(uri) = IF Len(p) < 4 THEN Nil
                     ELSE IF Len(p) = 4 THEN Components("namespaced", p[1], Empty, p[2], p[3], p[4])
                     ELSE Components("namespaced", p[1], p[2], p[3], p[4], p[5])
    BY <1>3 DEF parse, parseNamespacedResourceURI
  <2>2. NamespacedSpelling(p, t)
    BY <1>3 DEF Spelling
  <2> HIDE DEF p
  <2> QED
    BY <1>1, <1>3, <2>1, <2>2 DEF NamespacedSpelling
<1> QED
  BY <1>1, <1>2, <1>3

(* Only one sequence spells t.                                             *)
LEMMA OneSpelling ==
  ASSUME NEW t, NEW T, NEW p \in Seq(T), NEW q \in Seq(T), Spelling(p, t), Spelling(q, t)
  PROVE  p = q
<1>1. Len(p) = Len(q)
  BY DEF Spelling, ClusteredSpelling, NamespacedSpelling
<1>2. ASSUME NEW i \in 1..Len(p) PROVE p[i] = q[i]
  BY <1>1 DEF Spelling, ClusteredSpelling, NamespacedSpelling
<1> QED
  BY <1>1, <1>2, SeqEqual

(* One element before others.                                              *)
Before(a, s) == <<a>> \o s
Follows(c, s) == \A i \in 1..Len(s) : c[i + 1] = s[i]

LEMMA OneBefore ==
  ASSUME NEW T, NEW a \in T, NEW s \in Seq(T)
  PROVE  /\ Before(a, s) \in Seq(T)
         /\ Len(Before(a, s)) = Len(s) + 1
         /\ Before(a, s)[1] = a
         /\ Follows(Before(a, s), s)
<1> DEFINE h == <<a>>
<1>1. h \in Seq(T) /\ Len(h) = 1 /\ h[1] = a /\ Len(s) \in Nat
  BY LenProperties
<1> HIDE DEF h
<1> DEFINE c == h \o s
<1>2. /\ c \in Seq(T) /\ Len(c) = Len(h) + Len(s)
      /\ \A i \in 1..Len(h) + Len(s) :
           c[i] = IF i <= Len(h) THEN h[i] ELSE s[i - Len(h)]
  BY <1>1, ConcatProperties
<1> HIDE DEF c
<1>3. c[1] = a
  BY <1>1, <1>2
<1>4. ASSUME NEW i \in 1..Len(s) PROVE c[i + 1] = s[i]
  <2>1. i + 1 \in 1..1 + Len(s) /\ ~(i + 1 <= 1) /\ (i + 1) - 1 = i
    BY <1>1
  <2> QED
    BY <1>1, <1>2, <2>1
<1>5. Len(c) = Len(s) + 1
  BY <1>1, <1>2
<1> QED
  BY <1>2, <1>3, <1>4, <1>5 DEF c, h, Before, Follows

(* A template filled in for t: its path, its form, and what it spells.     *)
LEMMA TemplateSpells ==
  ASSUME NEW t \in Targets
  PROVE  /\ IsURI(Template(t)) /\ Template(t).scope = t.scope
         /\ Matches(Template(t)) /\ OnlyGroupEmpty(Template(t))
         /\ Spelling(parseURI(Template(t)), t)
         /\ t.scope = "clustered" => ClusteredPath(Template(t).path, t)
         /\ t.scope = "namespaced" => NamespacedPath(Template(t).path, t)
<1> DEFINE uri == Template(t)
           path == uri.path
           long == <<t.group, t.version, t.resource, t.name>>
<1>1. /\ t.scope \in {"clustered", "namespaced"}
      /\ t.namespace \in Segments /\ t.group \in Segments /\ t.version \in Segments
      /\ t.resource \in Segments /\ t.name \in Segments
  BY DEF Targets, Scopes
<1>2. /\ long \in Seq(Segments) /\ Len(long) = 4 /\ long[1] = t.group
      /\ long[2] = t.version /\ long[3] = t.resource /\ long[4] = t.name
  BY <1>1
<1>3. uri.scope = t.scope
  BY DEF Template
<1>4. path = (IF t.scope = "namespaced" THEN <<t.namespace>> ELSE <<>>) \o long
  BY DEF Template
<1>5. t.version # Empty /\ t.resource # Empty /\ t.name # Empty
      /\ (t.namespace = Empty <=> t.scope = "clustered")
  BY TargetShape
<1> HIDE DEF long, uri
<1>6. CASE t.scope = "clustered"
  <2>1. path = long
    <3>1. <<>> \o long = long
      BY <1>2, ConcatEmptySeq
    <3> QED
      BY <1>4, <1>6, <3>1
  <2>2. path \in Seq(Segments) /\ ClusteredPath(path, t)
    BY <1>2, <2>1 DEF ClusteredPath
  <2>3. Spelling(parseURI(uri), t)
    BY <1>6, <2>2, ClusteredParts DEF Spelling
  <2>4. DOMAIN path = 1..4 /\ Len(path) = 4 /\ path[2] # Empty /\ path[3] # Empty
        /\ path[4] # Empty
    BY <1>5, <2>2, LenProperties DEF ClusteredPath
  <2>5. OnlyGroupEmpty(uri) /\ Matches(uri)
    BY <1>3, <1>6, <2>4 DEF OnlyGroupEmpty, Matches
  <2> QED
    BY <1>3, <1>6, <2>2, <2>3, <2>5 DEF IsURI, Scopes, uri
<1>7. CASE t.scope = "namespaced"
  <2>0. t.namespace \in Segments /\ long \in Seq(Segments) /\ path = Before(t.namespace, long)
    BY <1>1, <1>2, <1>4, <1>7 DEF Before
  <2> HIDE DEF path
  <2>1. path \in Seq(Segments)
    BY <2>0, OneBefore
  <2>2. Len(path) = Len(long) + 1
    BY <2>0, OneBefore
  <2>3. path[1] = t.namespace
    BY <2>0, OneBefore
  <2>4. Follows(path, long)
    BY <2>0, OneBefore
  <2>5. /\ path[1 + 1] = long[1] /\ path[2 + 1] = long[2]
        /\ path[3 + 1] = long[3] /\ path[4 + 1] = long[4]
    BY <1>2, <2>4 DEF Follows
  <2>6. NamespacedPath(path, t)
    BY <1>2, <2>2, <2>3, <2>5 DEF NamespacedPath
  <2>7. Spelling(parseURI(uri), t)
    BY <1>7, <2>1, <2>6, NamespacedParts DEF Spelling, path
  <2>8. DOMAIN path = 1..5 /\ Len(path) = 5 /\ path[1] # Empty /\ path[3] # Empty
        /\ path[4] # Empty /\ path[5] # Empty
    BY <1>5, <1>7, <2>1, <2>6, LenProperties DEF NamespacedPath
  <2>9. OnlyGroupEmpty(uri) /\ Matches(uri)
    BY <1>3, <1>7, <2>8 DEF OnlyGroupEmpty, Matches, path
  <2> QED
    BY <1>3, <1>7, <2>1, <2>6, <2>7, <2>9 DEF IsURI, Scopes, path, uri
<1> QED
  BY <1>1, <1>6, <1>7

(* A template is read as what it is filled in for.                         *)
LEMMA TemplatesAreRead ==
  ASSUME NEW t \in Targets
  PROVE  parse(Template(t)) = t
BY TemplateSpells, SpellingParses

(* The parts of a URI are none of them empty, and no more than its         *)
(* segments.                                                               *)
LEMMA PartsAreSegments ==
  ASSUME NEW uri, IsURI(uri)
  PROVE  /\ parseURI(uri) \in Seq(Segments \ {Empty})
         /\ Len(parseURI(uri)) <= Len(uri.path)
<1> DEFINE path == uri.path
           S == {path[i] : i \in DOMAIN path} \ {Empty}
           K == Kept(path, S, Len(path))
<1>1. path \in Seq(Segments) /\ DOMAIN path = 1..Len(path) /\ Len(path) \in Nat
  BY LenProperties DEF IsURI
<1>2. IsFiniteSet(1..Len(path)) /\ Cardinality(1..Len(path)) = Len(path)
  BY <1>1, FS_Interval
<1>3. Segments \cap S \subseteq Segments \ {Empty}
  OBVIOUS
<1>4. parseURI(uri) = Keep(path, S)
  BY DEF parseURI
<1> HIDE DEF S
<1>5. /\ Keep(path, S) \in Seq(Segments \cap S)
      /\ Cardinality(K) = Len(Keep(path, S))
  BY <1>1, KeepProperties
<1>6. Keep(path, S) \in Seq(Segments \ {Empty})
  BY <1>3, <1>5
<1>7. K \subseteq 1..Len(path)
  BY <1>1 DEF Kept
<1> HIDE DEF K
<1>8. Cardinality(K) <= Cardinality(1..Len(path))
  BY <1>2, <1>7, FS_Subset
<1> QED
  BY <1>2, <1>4, <1>5, <1>6, <1>8

LEMMA UpTo4 == \A n \in Nat : n <= 4 => n < 3 \/ n = 3 \/ n = 4
OBVIOUS
LEMMA UpTo5 == \A n \in Nat : n <= 5 => n < 4 \/ n = 4 \/ n = 5
OBVIOUS

(* Whatever is empty in a URI that has a handler, what is read has a       *)
(* version, a resource and a name, and its parts spell it.                 *)
LEMMA PartsSpell ==
  ASSUME NEW uri, IsURI(uri), Matches(uri), parse(uri) # Nil
  PROVE  parse(uri) \in Targets /\ Spelling(parseURI(uri), parse(uri))
<1> DEFINE p == parseURI(uri)
           Words == Segments \ {Empty}
           t == parse(uri)
<1>1. p \in Seq(Words) /\ Len(p) \in Nat /\ \A i \in 1..Len(p) : p[i] \in Words
  BY PartsAreSegments, LenProperties, ElementOfSeq
<1>2. Empty \in Segments
  BY SegmentsAssumption
<1>3. ASSUME NEW g \in Segments, NEW v \in Words, NEW r \in Words, NEW n \in Words
      PROVE  /\ Components("clustered", Empty, g, v, r, n) \in Targets
             /\ \A ns \in Words : Components("namespaced", ns, g, v, r, n) \in Targets
  BY <1>2, <1>3 DEF Targets, Components, Scopes
<1>4. Words \subseteq Segments /\ Empty \notin Words
  OBVIOUS
<1>5. Len(p) <= Len(uri.path)
  BY PartsAreSegments
<1>6. CASE uri.scope = "clustered"
  <2>1. t = IF Len(p) < 3 THEN Nil
            ELSE IF Len(p) = 3 THEN Components("clustered", Empty, Empty, p[1], p[2], p[3])
            ELSE Components("clustered", Empty, p[1], p[2], p[3], p[4])
    BY <1>6 DEF parse, parseClusteredResourceURI
  <2>2. Len(p) <= 4 /\ t # Nil
    BY <1>5, <1>6 DEF Matches
  <2> HIDE DEF p, Words, t
  <2>3. Len(p) < 3 \/ Len(p) = 3 \/ Len(p) = 4
    BY <1>1, <2>2, UpTo4, Zenon
  <2>4. CASE Len(p) = 3
    <3>1. p[1] \in Words /\ p[2] \in Words /\ p[3] \in Words
      BY <1>1, <2>4
    <3>2. t = Components("clustered", Empty, Empty, p[1], p[2], p[3])
      BY <2>1, <2>4
    <3>3. t \in Targets
      BY <1>2, <1>3, <3>1, <3>2
    <3>4. Spelling(p, t)
      BY <2>4, <3>2 DEF Spelling, ClusteredSpelling, Components
    <3> QED
      BY <3>3, <3>4 DEF p, t
  <2>5. CASE Len(p) = 4
    <3>1. p[1] \in Words /\ p[2] \in Words /\ p[3] \in Words /\ p[4] \in Words
      BY <1>1, <2>5
    <3>2. t = Components("clustered", Empty, p[1], p[2], p[3], p[4])
      BY <2>1, <2>5
    <3>3. t \in Targets
      BY <1>3, <1>4, <3>1, <3>2
    <3>4. Spelling(p, t)
      BY <1>4, <2>5, <3>1, <3>2 DEF Spelling, ClusteredSpelling, Components
    <3> QED
      BY <3>3, <3>4 DEF p, t
  <2> QED
    BY <2>1, <2>2, <2>3, <2>4, <2>5
<1>7. CASE uri.scope = "namespaced"
  <2>1. t = IF Len(p) < 4 THEN Nil
            ELSE IF Len(p) = 4 THEN Components("namespaced", p[1], Empty, p[2], p[3], p[4])
            ELSE Components("namespaced", p[1], p[2], p[3], p[4], p[5])
    BY <1>7 DEF parse, parseNamespacedResourceURI
  <2>2. Len(p) <= 5 /\ t # Nil
    BY <1>5, <1>7 DEF Matches
  <2> HIDE DEF p, Words, t
  <2>3. Len(p) < 4 \/ Len(p) = 4 \/ Len(p) = 5
    BY <1>1, <2>2, UpTo5, Zenon
  <2>4. CASE Len(p) = 4
    <3>1. p[1] \in Words /\ p[2] \in Words /\ p[3] \in Words /\ p[4] \in Words
      BY <1>1, <2>4
    <3>2. t = Components("namespaced", p[1], Empty, p[2], p[3], p[4])
      BY <2>1, <2>4
    <3>3. t \in Targets
      BY <1>2, <1>3, <3>1, <3>2
    <3>4. Spelling(p, t)
      BY <2>4, <3>2 DEF Spelling, NamespacedSpelling, Components
    <3> QED
      BY <3>3, <3>4 DEF p, t
  <2>5. CASE Len(p) = 5
    <3>1. /\ p[1] \in Words /\ p[2] \in Words /\ p[3] \in Words /\ p[4] \in Words
          /\ p[5] \in Words
      BY <1>1, <2>5
    <3>2. t = Components("namespaced", p[1], p[2], p[3], p[4], p[5])
      BY <2>1, <2>5
    <3>3. t \in Targets
      BY <1>3, <1>4, <3>1, <3>2
    <3>4. Spelling(p, t)
      BY <1>4, <2>5, <3>1, <3>2 DEF Spelling, NamespacedSpelling, Components
    <3> QED
      BY <3>3, <3>4 DEF p, t
  <2> QED
    BY <2>1, <2>2, <2>3, <2>4, <2>5
<1> QED
  BY <1>6, <1>7 DEF IsURI, Scopes

(* What a URI is read as has the parts of the URI in its own template.     *)
LEMMA NothingIsLost ==
  ASSUME NEW uri, IsURI(uri), Matches(uri), parse(uri) # Nil
  PROVE  parseURI(Template(parse(uri))) = parseURI(uri)
<1> DEFINE t == parse(uri)
<1>1. t \in Targets /\ Spelling(parseURI(uri), t)
  BY PartsSpell
<1> HIDE DEF t
<1>2. IsURI(Template(t)) /\ Spelling(parseURI(Template(t)), t)
  BY <1>1, TemplateSpells
<1>3. /\ parseURI(uri) \in Seq(Segments \ {Empty})
      /\ parseURI(Template(t)) \in Seq(Segments \ {Empty})
  BY <1>2, PartsAreSegments
<1>4. parseURI(Template(t)) = parseURI(uri)
  BY <1>1, <1>2, <1>3, OneSpelling
<1> QED
  BY <1>4 DEF t

LEMMA InputsMean ==
  ASSUME NEW i \in Inputs
  PROVE  IsURI(i.uri) /\ Means(i.uri, i.meant)
BY InputsAssumption, TemplateSpells DEF IsURI, Means

(* One element and another one after others.                               *)
Ending(q, name, x) == q \o name \o <<x>>
BeginsWith(c, q) == \A i \in 1..Len(q) : c[i] = q[i]

LEMMA TwoAfter ==
  ASSUME NEW T, NEW q \in Seq(T), NEW name \in Seq(T), Len(name) = 1, NEW x \in T
  PROVE  /\ Ending(q, name, x) \in Seq(T)
         /\ Len(Ending(q, name, x)) = Len(q) + 2
         /\ BeginsWith(Ending(q, name, x), q)
         /\ Ending(q, name, x)[Len(q) + 1] = name[1]
         /\ Ending(q, name, x)[Len(q) + 2] = x
<1> DEFINE h == <<x>>
<1>1. h \in Seq(T) /\ Len(h) = 1 /\ h[1] = x /\ Len(q) \in Nat
  BY LenProperties
<1> HIDE DEF h
<1> DEFINE c == q \o name
<1>2. /\ c \in Seq(T) /\ Len(c) = Len(q) + Len(name)
      /\ \A i \in 1..Len(q) + Len(name) :
           c[i] = IF i <= Len(q) THEN q[i] ELSE name[i - Len(q)]
  BY ConcatProperties
<1> HIDE DEF c
<1> DEFINE d == c \o h
<1>3. /\ d \in Seq(T) /\ Len(d) = Len(c) + Len(h)
      /\ \A i \in 1..Len(c) + Len(h) :
           d[i] = IF i <= Len(c) THEN c[i] ELSE h[i - Len(c)]
  <2>1. c \in Seq(T) /\ h \in Seq(T)
    BY <1>1, <1>2
  <2> QED
    BY <2>1, ConcatProperties
<1> HIDE DEF d
<1>4. ASSUME NEW i \in 1..Len(q) PROVE d[i] = q[i]
  <2>1. /\ i <= Len(q) /\ i \in 1..Len(q) + Len(name)
        /\ i <= Len(c) /\ i \in 1..Len(c) + Len(h)
    BY <1>1, <1>2
  <2> QED
    BY <1>2, <1>3, <2>1
<1>5. d[Len(q) + 1] = name[1]
  <2> DEFINE i == Len(q) + 1
  <2>1. /\ ~(i <= Len(q)) /\ i \in 1..Len(q) + Len(name) /\ i - Len(q) = 1
        /\ i <= Len(c) /\ i \in 1..Len(c) + Len(h)
    BY <1>1, <1>2
  <2> HIDE DEF i
  <2>2. d[i] = name[1]
    BY <1>2, <1>3, <2>1
  <2> QED
    BY <2>2 DEF i
<1>6. Len(d) = Len(q) + 2
  BY <1>1, <1>2, <1>3
<1>8. d[Len(q) + 2] = x
  <2> DEFINE i == Len(q) + 2
  <2>1. ~(i <= Len(c)) /\ i \in 1..Len(c) + Len(h) /\ i - Len(c) = 1
    BY <1>1, <1>2
  <2> HIDE DEF i
  <2>2. d[i] = h[1]
    BY <1>3, <2>1
  <2> QED
    BY <1>1, <2>2 DEF i
<1>7. d = Ending(q, name, x)
  BY DEF d, c, h, Ending
<1> QED
  BY <1>3, <1>4, <1>5, <1>6, <1>7, <1>8 DEF BeginsWith

(* A URI on offer, with a name and a namespace in the places of those it   *)
(* is offered with, is the template filled in for what the offer says of   *)
(* it.                                                                     *)
LEMMA OffersAreTemplates ==
  ASSUME NEW a \in HandleListAllResources,
         NEW ns \in Segments \ {Empty}, NEW n \in Segments \ {Empty}
  PROVE  /\ Meaning(a, ns, n) \in Targets
         /\ Fill(a, ns, n) = Template(Meaning(a, ns, n))
<1> DEFINE Words == Segments \ {Empty}
           t == Meaning(a, ns, n)
<1>1. PICK e \in Catalog : a = Advertise(e) /\ Len(e.name) = 1
  BY DEF HandleListAllResources
<1> DEFINE two == <<Group(e), Version(e)>>
           first == IF e.namespaced THEN <<ns>> ELSE <<>>
           q == first \o two
           c == Ending(q, e.name, n)
<1>2. /\ e.namespaced \in BOOLEAN
      /\ e.groupVersion \in Seq(Words) /\ Len(e.groupVersion) \in {1, 2}
      /\ e.name \in Seq(Words)
  BY CatalogAssumption
<1>3. Empty \in Segments
  BY SegmentsAssumption
<1>4. ns \in Words /\ n \in Words
  OBVIOUS
<1>5. Group(e) \in Segments /\ Version(e) \in Words
  <2>1. /\ e.groupVersion[1] \in Words
        /\ Len(e.groupVersion) = 2 => e.groupVersion[2] \in Words
    BY <1>2, ElementOfSeq
  <2> QED
    BY <1>2, <1>3, <2>1 DEF Group, Version
<1>6. e.name[1] \in Words
  BY <1>1, <1>2, ElementOfSeq
<1>7. a.of = e
  BY <1>1 DEF Advertise
<1>8. t = Components(Scope(e), IF e.namespaced THEN ns ELSE Empty,
                     Group(e), Version(e), e.name[1], n)
  BY <1>7 DEF Meaning
<1>9. /\ t.scope = Scope(e) /\ t.group = Group(e) /\ t.version = Version(e)
      /\ t.namespace = (IF e.namespaced THEN ns ELSE Empty)
      /\ t.resource = e.name[1] /\ t.name = n
  BY <1>8 DEF Components
<1>10. t \in Targets
  BY <1>2, <1>3, <1>4, <1>5, <1>6, <1>8 DEF Targets, Components, Scope, Scopes
<1>11. Fill(a, ns, n) = [scope |-> Scope(e), path |-> c]
  BY <1>7 DEF Fill, URI, Ending
<1>12. two \in Seq(Segments) /\ Len(two) = 2 /\ two[1] = Group(e) /\ two[2] = Version(e)
  BY <1>5
<1>13. /\ q \in Seq(Segments)
       /\ e.namespaced => /\ Len(q) = 3 /\ q[1] = ns
                          /\ q[1 + 1] = Group(e) /\ q[2 + 1] = Version(e)
       /\ ~e.namespaced => Len(q) = 2 /\ q[1] = Group(e) /\ q[2] = Version(e)
  <2> HIDE DEF two
  <2>1. CASE ~e.namespaced
    <3>1. q = two
      BY <1>12, <2>1, ConcatEmptySeq
    <3> HIDE DEF q
    <3> QED
      BY <1>12, <2>1, <3>1
  <2>2. CASE e.namespaced
    <3>0. ns \in Segments /\ two \in Seq(Segments) /\ q = Before(ns, two)
      BY <1>12, <2>2 DEF Before
    <3> HIDE DEF q
    <3>1. q \in Seq(Segments)
      BY <3>0, OneBefore
    <3>2. Len(q) = Len(two) + 1
      BY <3>0, OneBefore
    <3>3. q[1] = ns
      BY <3>0, OneBefore
    <3>4. Follows(q, two)
      BY <3>0, OneBefore
    <3> QED
      BY <1>12, <2>2, <3>1, <3>2, <3>3, <3>4 DEF Follows
  <2> QED
    BY <2>1, <2>2
<1> HIDE DEF q, first, two
<1>14. q \in Seq(Segments) /\ e.name \in Seq(Segments) /\ n \in Segments
  BY <1>2, <1>13
<1>15. c \in Seq(Segments)
  BY <1>1, <1>14, TwoAfter
<1>16. Len(c) = Len(q) + 2
  BY <1>1, <1>14, TwoAfter
<1>17. BeginsWith(c, q)
  BY <1>1, <1>14, TwoAfter
<1>18. c[Len(q) + 1] = e.name[1]
  BY <1>1, <1>14, TwoAfter
<1>19. c[Len(q) + 2] = n
  BY <1>1, <1>14, TwoAfter
<1> HIDE DEF c
<1> DEFINE path == Template(t).path
<1>20. path \in Seq(Segments) /\ Template(t).scope = t.scope
  BY <1>10, TemplateSpells DEF IsURI
<1>21. c = path
  <2>1. CASE ~e.namespaced
    <3>1. t.scope = "clustered"
      BY <1>9, <2>1 DEF Scope
    <3> HIDE DEF t
    <3>2. ClusteredPath(path, t)
      BY <1>10, <3>1, TemplateSpells
    <3> HIDE DEF path
    <3>3. /\ Len(c) = 4 /\ c[1] = Group(e) /\ c[2] = Version(e)
          /\ c[3] = e.name[1] /\ c[4] = n
      BY <1>13, <1>16, <1>17, <1>18, <1>19, <2>1 DEF BeginsWith
    <3>4. Len(path) = 4 /\ \A i \in 1..4 : c[i] = path[i]
      BY <1>9, <3>2, <3>3 DEF ClusteredPath
    <3> QED
      BY <1>15, <1>20, <3>3, <3>4, SeqEqual
  <2>2. CASE e.namespaced
    <3>1. t.scope = "namespaced"
      BY <1>9, <2>2 DEF Scope
    <3>0. t.namespace = ns
      BY <1>9, <2>2
    <3> HIDE DEF t
    <3>2. NamespacedPath(path, t)
      BY <1>10, <3>1, TemplateSpells
    <3> HIDE DEF path
    <3>3. /\ Len(c) = 5 /\ c[1] = ns /\ c[2] = Group(e) /\ c[3] = Version(e)
          /\ c[4] = e.name[1] /\ c[5] = n
      <4>1. Len(q) = 3 /\ q[1] = ns /\ q[2] = Group(e) /\ q[3] = Version(e)
        BY <1>13, <2>2
      <4>2. c[1] = q[1] /\ c[2] = q[2] /\ c[3] = q[3]
        BY <1>17, <4>1 DEF BeginsWith
      <4>3. Len(c) = 5
        BY <1>16, <4>1
      <4>4. c[4] = e.name[1]
        BY <1>18, <4>1
      <4>5. c[5] = n
        BY <1>19, <4>1
      <4> QED
        BY <4>1, <4>2, <4>3, <4>4, <4>5
    <3>4. Len(path) = 5 /\ \A i \in 1..5 : c[i] = path[i]
      BY <1>9, <3>0, <3>2, <3>3 DEF NamespacedPath
    <3> QED
      BY <1>15, <1>20, <3>3, <3>4, SeqEqual
  <2> QED
    BY <2>1, <2>2
<1>22. Template(t) = [scope |-> Template(t).scope, path |-> Template(t).path]
  BY DEF Template
<1> QED
  BY <1>9, <1>10, <1>11, <1>20, <1>21, <1>22

-----------------------------------------------------------------------------
(* The invariants.                                                         *)

LEMMA InitReads == Init => OfferInv /\ ReadInv
<1> SUFFICES ASSUME Init PROVE OfferInv /\ ReadInv
  OBVIOUS
<1>1. OfferInv
  <2>1. published \in (SUBSET KeyIDs) \ {{}} /\ advertised = {}
    BY DEF Init
  <2>2. keys \in (SUBSET KeyIDs) \cup {Nil} /\ (~config.jwks => keys = Nil)
    BY <2>1, Zenon DEF Init
  <2>3. listing = Nil \/ listing = {}
    BY DEF Init
  <2> QED
    BY <2>1, <2>2, <2>3 DEF OfferInv
<1>2. read = [header |-> NoHeader, keys |-> Nil, identity |-> Nil,
              uri |-> Nil, meant |-> Nil, outcome |-> "none"]
  BY DEF Init, NoRead
<1>3. ReadShape /\ read.outcome = "none"
  BY <1>2 DEF ReadShape
<1> QED
  BY <1>1, <1>3 DEF Init, ReadInv, Answered

LEMMA StepOffer == OfferInv /\ [Next]_vars => OfferInv'
<1> SUFFICES ASSUME OfferInv, [Next]_vars PROVE OfferInv'
  OBVIOUS
<1>1. CASE Rotate
  BY <1>1 DEF Rotate, OfferInv, offer
<1>2. CASE Refresh
  BY <1>2 DEF Refresh, OfferInv, offer
<1>3. CASE Stop
  <2>1. keys' = Nil /\ UNCHANGED <<config, published, listing, advertised>>
    BY <1>3 DEF Stop, offer
  <2>2. keys' \in (SUBSET KeyIDs) \cup {Nil} /\ (~config'.jwks => keys' = Nil)
    BY <2>1, Zenon
  <2> QED
    BY <2>1, <2>2 DEF OfferInv
<1>4. CASE Discover
  <2>1. /\ advertised = {} /\ advertised' = advertised
        /\ listing' \in {HandleListAllResources, {}}
        /\ UNCHANGED <<config, published, keys>>
    BY <1>4 DEF Discover, OfferInv, provider
  <2>2. listing' # Nil
    BY <2>1, OfferAssumption
  <2> QED
    BY <2>1, <2>2 DEF OfferInv
<1>5. CASE AddResource
  <2>1. PICK a \in listing : listing' = listing \ {a} /\ advertised' = advertised \cup {a}
    BY <1>5 DEF AddResource
  <2>2. listing \subseteq HandleListAllResources \ advertised
    BY <1>5 DEF AddResource, OfferInv
  <2>3. listing' # Nil
    BY <2>1, <2>2, OfferAssumption
  <2>4. UNCHANGED <<config, published, keys>>
    BY <1>5 DEF AddResource, provider
  <2> QED
    BY <2>1, <2>2, <2>3, <2>4 DEF OfferInv
<1>6. CASE UNCHANGED <<config, provider, offer>>
  BY <1>6 DEF OfferInv, provider, offer
<1>7. ReadURI \/ ReadAdvertised \/ CallNoHandler \/ FindNoHandler \/ HandleResource
        \/ BeginWalk \/ NextPage \/ ListFails
        => UNCHANGED <<config, provider, offer>>
  BY DEF ReadURI, ReadAdvertised, Receive, CallNoHandler, FindNoHandler, HandleResource,
         BeginWalk, NextPage, ListFails
<1> QED
  BY <1>1, <1>2, <1>3, <1>4, <1>5, <1>6, <1>7 DEF Next, vars

(* A read that comes in keeps what it met.                                 *)
LEMMA ReceiveInv ==
  ASSUME OfferInv, ReadInv, NEW header, NEW uri, NEW meant,
         header \in {NoHeader, NotBearer} \/ IsToken(header),
         IsURI(uri), Means(uri, meant), Receive(header, uri, meant)
  PROVE  ReadInv'
<1> DEFINE id == IF config.EnableImpersonation
                   THEN ExtractFromRequest(header, config, keys) ELSE Nil
<1>1. read' = [header |-> header, keys |-> keys, identity |-> id,
               uri |-> uri, meant |-> meant, outcome |-> "received"]
  BY DEF Receive
<1>2. target' = Nil /\ as' = Nil /\ config' = config
  BY DEF Receive
<1>3. keys \in (SUBSET KeyIDs) \cup {Nil}
  BY DEF OfferInv
<1>4. read'.header = header /\ read'.keys = keys /\ read'.uri = uri /\ read'.meant = meant
  BY <1>1
<1>5. read'.outcome = "received"
  BY <1>1
<1>6. read'.identity = id
  BY <1>1
<1>7. ReadShape'
  <2> HIDE DEF id
  <2> QED
    BY <1>1 DEF ReadShape
<1>8. Received'
  BY <1>2, <1>3, <1>4, <1>6 DEF Received, IsURI, Means
<1>9. Answered'
  BY <1>2, <1>5 DEF Answered
<1> QED
  BY <1>2, <1>7, <1>8, <1>9 DEF ReadInv

(* However it ends, a read keeps what it met.                              *)
LEMMA EndKeeps ==
  ASSUME ReadInv, read.outcome = "received", UNCHANGED config,
         NEW o, read' = [read EXCEPT !.outcome = o]
  PROVE  /\ ReadShape' /\ Received' /\ config' \in Configs
         /\ target = Nil /\ as = Nil
         /\ read'.outcome = o /\ read'.uri = read.uri /\ read'.identity = read.identity
<1>1. /\ Received /\ ReadShape /\ config \in Configs
      /\ config' = config /\ target = Nil /\ as = Nil
  BY DEF ReadInv, Answered
<1>2. read' = [header |-> read.header, keys |-> read.keys, identity |-> read.identity,
               uri |-> read.uri, meant |-> read.meant, outcome |-> o]
  BY <1>1 DEF ReadShape
<1>3. /\ read'.header = read.header /\ read'.keys = read.keys /\ read'.meant = read.meant
      /\ read'.outcome = o /\ read'.uri = read.uri /\ read'.identity = read.identity
  BY <1>2
<1>4. ReadShape'
  BY <1>2 DEF ReadShape
<1>5. Received'
  BY <1>1, <1>3 DEF Received, IsURI, Means
<1> QED
  BY <1>1, <1>3, <1>4, <1>5

(* A read of what is on offer, or of what no template matches.             *)
LEMMA NoHandlerInv ==
  ASSUME OfferInv, ReadInv, CallNoHandler \/ FindNoHandler
  PROVE  ReadInv'
<1>1. CASE CallNoHandler
  <2>1. /\ read.outcome = "received" /\ UNCHANGED <<config, target, as>>
        /\ read' = [read EXCEPT !.outcome = "panicked"]
    BY <1>1 DEF CallNoHandler
  <2>2. /\ ReadShape' /\ Received' /\ config' \in Configs
        /\ target = Nil /\ as = Nil
        /\ read'.outcome = "panicked" /\ read'.uri = read.uri
    BY <2>1, EndKeeps
  <2>3. \E a \in HandleListAllResources : a.uri = read.uri
    BY <1>1 DEF CallNoHandler, OnOffer, OfferInv
  <2> QED
    BY <2>1, <2>2, <2>3 DEF ReadInv, Answered
<1>2. CASE FindNoHandler
  <2>1. /\ read.outcome = "received" /\ UNCHANGED <<config, target, as>>
        /\ read' = [read EXCEPT !.outcome = "not found"] /\ ~Matches(read.uri)
    BY <1>2 DEF FindNoHandler
  <2>2. /\ ReadShape' /\ Received' /\ config' \in Configs
        /\ target = Nil /\ as = Nil
        /\ read'.outcome = "not found" /\ read'.uri = read.uri
    BY <2>1, EndKeeps
  <2> QED
    BY <2>1, <2>2 DEF ReadInv, Answered
<1> QED
  BY <1>1, <1>2

LEMMA HandleInv ==
  ASSUME ReadInv, HandleResource
  PROVE  ReadInv'
<1> DEFINE Ends(o) == read' = [read EXCEPT !.outcome = o]
<1>1. /\ read.outcome = "received" /\ ReadShape /\ config \in Configs
      /\ config' = config /\ target = Nil /\ as = Nil /\ Matches(read.uri)
  BY DEF HandleResource, ReadInv, Answered
<1>2. ASSUME NEW o, Ends(o)
      PROVE  /\ ReadShape' /\ Received'
             /\ read'.outcome = o /\ read'.uri = read.uri /\ read'.identity = read.identity
  BY <1>1, <1>2, EndKeeps
<1>3. CASE parse(read.uri) = Nil
  <2>1. Ends("invalid") /\ target' = Nil /\ as' = Nil
    BY <1>1, <1>3 DEF HandleResource
  <2>2. /\ ReadShape' /\ Received'
        /\ read'.outcome = "invalid" /\ read'.uri = read.uri
    BY <1>2, <2>1
  <2> QED
    BY <1>1, <1>3, <2>1, <2>2 DEF ReadInv, Answered
<1>4. CASE parse(read.uri) # Nil /\ config.EnableImpersonation /\ read.identity = Nil
  <2>1. Ends("anonymous") /\ target' = Nil /\ as' = Nil
    BY <1>1, <1>4 DEF HandleResource
  <2>2. /\ ReadShape' /\ Received'
        /\ read'.outcome = "anonymous" /\ read'.identity = read.identity
    BY <1>2, <2>1
  <2> QED
    BY <1>1, <1>4, <2>1, <2>2 DEF ReadInv, Answered
<1>5. CASE parse(read.uri) # Nil /\ ~(config.EnableImpersonation /\ read.identity = Nil)
  <2>1. /\ Ends("requested") /\ target' = parse(read.uri)
        /\ as' = IF config.EnableImpersonation THEN read.identity ELSE "base"
    BY <1>5 DEF HandleResource
  <2>2. /\ ReadShape' /\ Received'
        /\ read'.outcome = "requested" /\ read'.uri = read.uri
        /\ read'.identity = read.identity
    BY <1>2, <2>1
  <2>3. "base" # Nil
    BY NilAssumption
  <2>4. target' # Nil /\ as' # Nil
    BY <1>5, <2>1, <2>3
  <2> QED
    BY <1>1, <1>5, <2>1, <2>2, <2>4 DEF ReadInv, Answered
<1> QED
  BY <1>3, <1>4, <1>5

LEMMA StepReads == OfferInv /\ ReadInv /\ [Next]_vars => ReadInv'
<1> SUFFICES ASSUME OfferInv, ReadInv, [Next]_vars PROVE ReadInv'
  OBVIOUS
<1>1. CASE ReadURI
  <2>1. PICK i \in Inputs : Receive(i.header, i.uri, i.meant)
    BY <1>1 DEF ReadURI
  <2>2. i.header \in {NoHeader, NotBearer} \/ IsToken(i.header)
    BY InputsAssumption
  <2>3. IsURI(i.uri) /\ Means(i.uri, i.meant)
    BY InputsMean
  <2> QED
    BY <2>1, <2>2, <2>3, ReceiveInv
<1>2. CASE ReadAdvertised
  <2>1. PICK a \in advertised, ns \in Chosen \cup {"default"}, n \in Chosen \cup {"example"} :
          Receive(NoHeader, Fill(a, ns, n), Meaning(a, ns, n))
    BY <1>2 DEF ReadAdvertised
  <2>2. a \in HandleListAllResources /\ ns \in Segments \ {Empty} /\ n \in Segments \ {Empty}
    BY SegmentsAssumption DEF OfferInv
  <2>3. /\ Meaning(a, ns, n) \in Targets
        /\ Fill(a, ns, n) = Template(Meaning(a, ns, n))
    BY <2>2, OffersAreTemplates
  <2>4. IsURI(Fill(a, ns, n)) /\ Means(Fill(a, ns, n), Meaning(a, ns, n))
    BY <2>3, TemplateSpells, NilAssumption DEF Means
  <2> QED
    BY <2>1, <2>4, ReceiveInv
<1>3. CASE CallNoHandler \/ FindNoHandler \/ HandleResource
  BY <1>3, NoHandlerInv, HandleInv
<1>4. CASE UNCHANGED <<config, reading>>
  BY <1>4 DEF ReadInv, ReadShape, Answered, Received, IsURI, Means, reading
<1>5. Rotate \/ Refresh \/ Stop \/ Discover \/ AddResource \/ BeginWalk \/ NextPage \/ ListFails
        => UNCHANGED <<config, reading>>
  BY DEF Rotate, Refresh, Stop, Discover, AddResource, BeginWalk, NextPage, ListFails
<1> QED
  BY <1>1, <1>2, <1>3, <1>4, <1>5 DEF Next, vars

LEMMA ReadsInvariance == Spec => [](OfferInv /\ ReadInv)
BY InitReads, StepOffer, StepReads, PTL DEF Spec

(* A read asks for exactly the resource its URI stands for, also filled    *)
(* into a URI on offer, and is refused only if it stands for none; one with*)
(* other empty segments asks for what the rest spells; and only the example*)
(* itself has no handler: for any segments, whatever discovery returns.    *)
THEOREM ReadsAskForWhatIsMeant == Spec => []ReadsWhatItNames
<1>1. ReadInv => ReadsWhatItNames
  <2> SUFFICES ASSUME ReadInv PROVE ReadsWhatItNames
    OBVIOUS
  <2>1. read.outcome # "none" => IsURI(read.uri) /\ Means(read.uri, read.meant)
    BY DEF ReadInv, Received
  <2>2. read.outcome # "none" /\ read.meant # Nil =>
          /\ read.meant \in Targets /\ Matches(read.uri)
          /\ parse(read.uri) = read.meant
    BY <2>1, TemplateSpells, TemplatesAreRead DEF Means
  <2>3. ASSUME read.outcome = "requested"
        PROVE  /\ read.meant \in {target, Nil}
               /\ parseURI(Template(target)) = parseURI(read.uri)
    <3>1. Matches(read.uri) /\ target = parse(read.uri) /\ parse(read.uri) # Nil
      BY <2>3 DEF ReadInv, Answered
    <3>2. parseURI(Template(parse(read.uri))) = parseURI(read.uri)
      BY <2>1, <2>3, <3>1, NothingIsLost
    <3> QED
      BY <2>2, <2>3, <3>1, <3>2
  <2>4. read.outcome \in {"invalid", "not found"} => read.meant = Nil
    <3>1. /\ read.outcome = "invalid" => parse(read.uri) = Nil
          /\ read.outcome = "not found" => ~Matches(read.uri)
      BY DEF ReadInv, Answered
    <3> QED
      BY <2>2, <3>1, NilAssumption
  <2>5. ASSUME read.outcome = "panicked"
        PROVE  /\ read.meant # Nil /\ read.meant.name = "example"
               /\ read.meant.namespace \in {"default", Empty}
    <3>1. PICK a \in HandleListAllResources : a.uri = read.uri
      BY <2>5 DEF ReadInv, Answered
    <3> DEFINE t == Meaning(a, "default", "example")
    <3>2. a.uri = Fill(a, "default", "example")
      BY DEF HandleListAllResources, Advertise, Fill
    <3>3. "default" \in Segments \ {Empty} /\ "example" \in Segments \ {Empty}
      BY SegmentsAssumption
    <3>4. t \in Targets /\ read.uri = Template(t)
      BY <3>1, <3>2, <3>3, OffersAreTemplates
    <3>5. t.name = "example" /\ t.namespace \in {"default", Empty}
      BY DEF Meaning, Components
    <3> HIDE DEF t
    <3>6. read.meant # Nil
      BY <2>1, <2>5, <3>4 DEF Means
    <3>7. read.meant = t
      BY <2>2, <2>5, <3>4, <3>6, TemplatesAreRead
    <3> QED
      BY <3>5, <3>6, <3>7
  <2> QED
    BY <2>3, <2>4, <2>5 DEF ReadsWhatItNames
<1> QED
  BY <1>1, ReadsInvariance, PTL

(* With impersonation on, a read is made for the user and the groups of    *)
(* its own token, and exactly if that token could be acted on when it came,*)
(* whatever keys are rotated; with it off, as the server.  For any tokens, *)
(* configurations and keys.                                                *)
THEOREM ReadsActForTheirTokens == Spec => []ActsForTheTokensUser
<1>1. ReadInv => ActsForTheTokensUser
  <2> SUFFICES ASSUME ReadInv PROVE ActsForTheTokensUser
    OBVIOUS
  <2> DEFINE names == read.header \notin {NoHeader, NotBearer}
                      /\ Acceptable(read.header, config, read.keys)
  <2>1. config.EnableImpersonation \in BOOLEAN /\ config.jwks \in BOOLEAN
    BY ConfigsAssumption DEF ReadInv, ConfigType
  <2>2. CASE ~config.EnableImpersonation
    <3>1. as \in {"base", Nil} /\ read.outcome # "anonymous"
      BY <2>2 DEF ReadInv, Answered
    <3> QED
      BY <2>2, <3>1 DEF ActsForTheTokensUser
  <2>3. CASE config.EnableImpersonation /\ read.outcome = "none"
    BY <2>3 DEF ReadInv, Answered, ActsForTheTokensUser
  <2>4. CASE config.EnableImpersonation /\ read.outcome # "none"
    <3>1. Received /\ Answered
      BY <2>4 DEF ReadInv
    <3>2. read.identity = ExtractFromRequest(read.header, config, read.keys)
      BY <2>4, <3>1 DEF Received
    <3>3. as # Nil => as = read.identity
      BY <2>4, <3>1 DEF Answered
    <3>4. HaveIDs(read.keys)
      <4>1. read.keys \in (SUBSET KeyIDs) \cup {Nil}
        BY <3>1 DEF Received
      <4>2. read.keys # Nil => \A k \in read.keys : k \in KeyIDs
        BY <4>1, Zenon
      <4> QED
        BY <4>2, KeysAssumption, Zenon DEF HaveIDs
    <3>5. CASE read.header \in {NoHeader, NotBearer}
      <4>1. read.identity = Nil
        BY <3>2, <3>5 DEF ExtractFromRequest
      <4> QED
        BY <2>4, <3>3, <3>5, <4>1 DEF ActsForTheTokensUser
    <3>6. CASE read.header \notin {NoHeader, NotBearer}
      <4>1. IsToken(read.header)
        BY <3>1, <3>6 DEF Received
      <4>2. read.identity = ExtractFromJWT(read.header, config, read.keys)
        BY <3>2, <3>6 DEF ExtractFromRequest
      <4>3. /\ read.identity # Nil <=> Acceptable(read.header, config, read.keys)
            /\ read.identity # Nil =>
                 /\ read.identity.user = read.header.user
                 /\ Elements(read.identity.groups) = GroupsNamed(read.header)
        <5> DEFINE id == ExtractFromJWT(read.header, config, read.keys)
        <5>1. /\ id # Nil <=> Acceptable(read.header, config, read.keys)
              /\ id # Nil => /\ id.user = read.header.user
                             /\ Elements(id.groups) = GroupsNamed(read.header)
          BY <2>1, <3>4, <4>1, IdentityIsTheTokens
        <5> QED
          BY <4>2, <5>1
      <4>4. read.outcome = "anonymous" => read.identity = Nil
        BY <3>1 DEF Answered
      <4> QED
        BY <2>4, <3>3, <3>6, <4>3, <4>4 DEF ActsForTheTokensUser, Elements
    <3> QED
      BY <3>5, <3>6
  <2> QED
    BY <2>2, <2>3, <2>4
<1> QED
  BY <1>1, ReadsInvariance, PTL

(* The types, with what is offered once and with a version, a resource and *)
(* a name in whatever is asked for.                                        *)
THEOREM ReadsTypeCorrect == Spec => []TypeOK
<1>1. OfferInv /\ ReadInv => target \in Targets \cup {Nil}
  <2> SUFFICES ASSUME ReadInv PROVE target \in Targets \cup {Nil}
    OBVIOUS
  <2>1. CASE read.outcome = "requested"
    <3>1. /\ IsURI(read.uri) /\ Matches(read.uri)
          /\ target = parse(read.uri) /\ parse(read.uri) # Nil
      BY <2>1 DEF ReadInv, Received, Answered
    <3> QED
      BY <3>1, PartsSpell
  <2>2. CASE read.outcome # "requested"
    BY <2>2 DEF ReadInv, Answered
  <2> QED
    BY <2>1, <2>2
<1>2. ReadInv => /\ config \in Configs
                 /\ read.outcome \in {"none", "received", "panicked", "not found", "invalid",
                                      "anonymous", "requested"}
                 /\ target # Nil <=> read.outcome = "requested"
                 /\ as # Nil <=> read.outcome = "requested"
  BY DEF ReadInv, Answered
<1>3. WalkInv => walk.state \in {"none", "open", "complete"}
  BY DEF WalkInv
<1>4. OfferInv /\ ReadInv /\ WalkInv => TypeOK
  BY <1>1, <1>2, <1>3 DEF OfferInv, TypeOK
<1> QED
  BY <1>4, ReadsInvariance, InitInv, StepInv, PTL DEF Spec

=============================================================================
