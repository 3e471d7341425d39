--------------------------- MODULE ResourceReads ---------------------------
(***************************************************************************)
(* What clients read outside the tools that change things: resources by    *)
(* their URI, which pass neither the timeout nor the limiter, the list of  *)
(* resources on offer, made while the server already answers, and lists in *)
(* pages with filtered annotations.                                        *)
(*                                                                         *)
(* A URI is its scope and the segments after it; an annotation's key is    *)
(* the sequence of its letters, and so is a pattern, with "*" as a letter. *)
(***************************************************************************)
EXTENDS Identity, Integers

CONSTANTS
  KeyIDs,       \* keys the identity provider signs with
  Configs,      \* how the server is started
  Segments,     \* what stands between the slashes of a URI, or does not, in
                \* characters that a template's variable matches
  Chosen,       \* names and namespaces put into a URI on offer
  Inputs,       \* a header, a URI, and what the client means by it, or Nil
  Catalog,      \* what discovery returns: group and version, name, scope
  Letters,      \* of annotation keys and patterns
  Objects,      \* the annotations of the objects in a list
  Filters,      \* annotation parameters of a list
  Limits        \* limit parameters of a list

ConfigType ==
  [EnableImpersonation: BOOLEAN, jwks: BOOLEAN, ServeResources: BOOLEAN,
   Issuer: STRING, Audience: STRING]

ASSUME ConfigsAssumption == Configs \subseteq ConfigType
ASSUME KeysAssumption == "" \notin KeyIDs /\ Nil \notin KeyIDs
(* A segment with nothing in it, and the core group.                       *)
Empty == ""

ASSUME SegmentsAssumption ==
  Empty \in Segments /\ Chosen \cup {"default", "example"} \subseteq Segments \ {Empty}
ASSUME ListsAssumption ==
  /\ Limits \subseteq Int /\ Nil \notin Nat
  /\ "*" \in Letters
  /\ Objects \in Seq(SUBSET Seq(Letters))
  /\ \A f \in Filters : f.include \cup f.exclude \subseteq Seq(Letters)

Scopes == {"clustered", "namespaced"}

-----------------------------------------------------------------------------
(* URIs.                                                                   *)

parseURI(uri) == Keep(uri.path, {uri.path[i] : i \in DOMAIN uri.path} \ {Empty})

Components(scope, ns, g, v, r, n) ==
  [scope |-> scope, namespace |-> ns, group |-> g, version |-> v, resource |-> r, name |-> n]

(* What can be asked for: only the group may be empty.                     *)
Targets ==
  LET Words == Segments \ {Empty}
  IN {t \in [scope : Scopes, namespace : Segments, group : Segments,
             version : Words, resource : Words, name : Words] :
        t.namespace = Empty <=> t.scope = "clustered"}

ASSUME NilAssumption == Nil \notin Targets /\ Nil # "base"

(* Parts beyond the name are ignored.                                      *)
parseClusteredResourceURI(uri) ==
  LET p == parseURI(uri)
  IN IF Len(p) < 3 THEN Nil
     ELSE IF Len(p) = 3 THEN Components("clustered", Empty, Empty, p[1], p[2], p[3])
     ELSE Components("clustered", Empty, p[1], p[2], p[3], p[4])

parseNamespacedResourceURI(uri) ==
  LET p == parseURI(uri)
  IN IF Len(p) < 4 THEN Nil
     ELSE IF Len(p) = 4 THEN Components("namespaced", p[1], Empty, p[2], p[3], p[4])
     ELSE Components("namespaced", p[1], p[2], p[3], p[4], p[5])

parse(uri) ==
  IF uri.scope = "clustered" THEN parseClusteredResourceURI(uri)
                             ELSE parseNamespacedResourceURI(uri)

(* The two templates, filled in.                                           *)
Template(t) ==
  [scope |-> t.scope,
   path |-> (IF t.scope = "namespaced" THEN <<t.namespace>> ELSE <<>>)
              \o <<t.group, t.version, t.resource, t.name>>]

(* The form of the templates: a segment, if an empty one, for each variable*)
(* between the slashes.                                                    *)
Matches(uri) == Len(uri.path) = IF uri.scope = "namespaced" THEN 5 ELSE 4

OnlyGroupEmpty(uri) ==
  \A i \in DOMAIN uri.path :
    uri.path[i] = Empty => i = IF uri.scope = "namespaced" THEN 2 ELSE 1

(* A client that means something by a URI fills in its template; one that  *)
(* means nothing leaves out what may not be left out.                      *)
ASSUME InputsAssumption ==
  \A i \in Inputs :
    /\ i.header \in {NoHeader, NotBearer} \/ IsToken(i.header)
    /\ i.uri.scope \in Scopes /\ i.uri.path \in Seq(Segments)
    /\ IF i.meant = Nil THEN ~(Matches(i.uri) /\ OnlyGroupEmpty(i.uri))
                        ELSE i.meant \in Targets /\ i.uri = Template(i.meant)

(* An entry of discovery: its group and version as written, apart at "/",  *)
(* and its name, which has two parts if it is a subresource.               *)
ASSUME CatalogAssumption ==
  \A e \in Catalog :
    /\ e.namespaced \in BOOLEAN
    /\ e.groupVersion \in Seq(Segments \ {Empty}) /\ Len(e.groupVersion) \in {1, 2}
    /\ e.name \in Seq(Segments \ {Empty})

Group(e) == IF Len(e.groupVersion) = 1 THEN Empty ELSE e.groupVersion[1]
Version(e) == IF Len(e.groupVersion) = 1 THEN e.groupVersion[1] ELSE e.groupVersion[2]
Scope(e) == IF e.namespaced THEN "namespaced" ELSE "clustered"

URI(e, ns, n) ==
  [scope |-> Scope(e),
   path |-> (IF e.namespaced THEN <<ns>> ELSE <<>>)
              \o <<Group(e), Version(e)>> \o e.name \o <<n>>]

Advertise(e) == [of |-> e, uri |-> URI(e, "default", "example")]

(* Mutant of HandleListAllResources: subresources are offered, too.        *)
ListSubresources == {Advertise(e) : e \in Catalog}

HandleListAllResources == {Advertise(e) : e \in {x \in Catalog : Len(x.name) = 1}}

ASSUME OfferAssumption == \A S \in SUBSET HandleListAllResources : S # Nil

(* A client puts a name and a namespace into the places of the example's.  *)
Fill(a, ns, n) == URI(a.of, ns, n)

Meaning(a, ns, n) ==
  Components(Scope(a.of), IF a.of.namespaced THEN ns ELSE Empty,
             Group(a.of), Version(a.of), a.of.name[1], n)

-----------------------------------------------------------------------------
(* Annotations and pages.                                                  *)

HasPrefix(s, t) == Len(t) <= Len(s) /\ SubSeq(s, 1, Len(t)) = t

matchesPattern(key, pattern) ==
  \/ pattern = key
  \/ /\ pattern # <<>> /\ pattern[Len(pattern)] = "*"
     /\ HasPrefix(key, SubSeq(pattern, 1, Len(pattern) - 1))

(* Mutant of filterAnnotations: excluded keys are left out also of those   *)
(* that were asked for by name.                                            *)
filterBoth(annotations, filter) ==
  {k \in annotations : /\ filter.include # {} => k \in filter.include
                       /\ ~\E p \in filter.exclude : matchesPattern(k, p)}

filterAnnotations(annotations, filter) ==
  IF filter.include # {} THEN annotations \cap filter.include
  ELSE {k \in annotations : ~\E p \in filter.exclude : matchesPattern(k, p)}

(* The options sent to the API server: without a limit it returns the      *)
(* rest, without a token it starts from the beginning.                     *)
ListOptions(limit, token) == [limit |-> IF limit > 0 THEN limit ELSE 0, continue |-> token]

(* The API server: objects in order, from the one that the token stands    *)
(* for, and a new token if there are more.                                 *)
List(options) ==
  LET first == IF options.continue = Nil THEN 1 ELSE options.continue
      last == IF options.limit = 0 \/ first + options.limit > Len(Objects)
                THEN Len(Objects) ELSE first + options.limit - 1
  IN [items |-> [i \in 1..last - first + 1 |-> first + i - 1],
      continue |-> IF last = Len(Objects) THEN Nil ELSE last + 1]

HandleListResources(limit, token, filter) ==
  LET list == List(ListOptions(limit, token))
  IN [items |-> [i \in DOMAIN list.items |->
        [object |-> list.items[i],
         annotations |-> IF filter.annotations
                           THEN filterAnnotations(Objects[list.items[i]], filter) ELSE {}]],
      continue |-> list.continue]

-----------------------------------------------------------------------------
VARIABLES
  config,     \* how the server was started
  published,  \* the provider's keys
  keys,       \* those in the key cache, or Nil if it does not answer
  listing,    \* entries still to be offered, or Nil before discovery answers
  advertised, \* the resources on offer
  read,       \* a read: its header, the keys and the context it met, its
              \* URI, what the client means by it, and its outcome
  target,     \* what it asks the API server for, and
  as,         \* on whose behalf, or Nil
  walk        \* a list: its parameters, the token, the items so far

provider == <<published, keys>>
offer == <<listing, advertised>>
reading == <<read, target, as>>
vars == <<config, provider, offer, reading, walk>>

NoRead == [header |-> NoHeader, keys |-> Nil, identity |-> Nil,
           uri |-> Nil, meant |-> Nil, outcome |-> "none"]
NoWalk == [filter |-> Nil, continue |-> Nil, items |-> <<>>, state |-> "none"]

(* NewJWKSClient has fetched the keys before the server answers.           *)
Init ==
  /\ config \in Configs
  /\ published \in (SUBSET KeyIDs) \ {{}}
  /\ keys = IF config.jwks THEN published ELSE Nil
  /\ listing = IF config.ServeResources THEN Nil ELSE {}
  /\ advertised = {}
  /\ read = NoRead /\ target = Nil /\ as = Nil
  /\ walk = NoWalk

(* The provider rotates its keys, the cache follows some time later, and   *)
(* answers no more once it is stopped or main's context is done.           *)
Rotate ==
  /\ published' \in (SUBSET KeyIDs) \ {{}, published}
  /\ UNCHANGED <<config, keys, offer, reading, walk>>

Refresh ==
  /\ keys # Nil /\ keys' = published
  /\ UNCHANGED <<config, published, offer, reading, walk>>

Stop ==
  /\ keys # Nil /\ keys' = Nil
  /\ UNCHANGED <<config, published, offer, reading, walk>>

(* The goroutine that lists the resources: all that discovery returns, or  *)
(* none if it returns an error, one by one.                                *)
Discover ==
  /\ listing = Nil
  /\ listing' \in {HandleListAllResources, {}}
  /\ UNCHANGED <<config, provider, advertised, reading, walk>>

(* Mutant of AddResource: it starts over with every entry.                 *)
AddAgain ==
  /\ listing # Nil
  /\ \E a \in listing : advertised' = advertised \cup {a}
  /\ UNCHANGED <<config, provider, listing, reading, walk>>

AddResource ==
  /\ listing # Nil
  /\ \E a \in listing : listing' = listing \ {a} /\ advertised' = advertised \cup {a}
  /\ UNCHANGED <<config, provider, reading, walk>>

(* The context function has seen the request; off, it is not installed.    *)
Receive(header, uri, meant) ==
  /\ read' = [header |-> header, keys |-> keys, uri |-> uri, meant |-> meant,
              identity |-> IF config.EnableImpersonation
                             THEN ExtractFromRequest(header, config, keys) ELSE Nil,
              outcome |-> "received"]
  /\ target' = Nil /\ as' = Nil
  /\ UNCHANGED <<config, provider, offer, walk>>

(* A URI of the client's own making, right (meant # Nil) or not.           *)
ReadURI ==
  \E i \in Inputs : Receive(i.header, i.uri, i.meant)

(* A URI on offer, as it is or with a name and namespace of the client's.  *)
ReadAdvertised ==
  \E a \in advertised, ns \in Chosen \cup {"default"}, n \in Chosen \cup {"example"} :
    Receive(NoHeader, Fill(a, ns, n), Meaning(a, ns, n))

(* mcp-go looks for the URI among the resources on offer first, and then   *)
(* for a template that it matches.                                         *)
OnOffer(uri) == \E a \in advertised : a.uri = uri

(* A resource was added with no handler: mcp-go calls nil, and the recovery*)
(* is for tools only.                                                      *)
CallNoHandler ==
  /\ read.outcome = "received" /\ OnOffer(read.uri)
  /\ read' = [read EXCEPT !.outcome = "panicked"]
  /\ UNCHANGED <<config, provider, offer, target, as, walk>>

FindNoHandler ==
  /\ read.outcome = "received" /\ ~OnOffer(read.uri) /\ ~Matches(read.uri)
  /\ read' = [read EXCEPT !.outcome = "not found"]
  /\ UNCHANGED <<config, provider, offer, target, as, walk>>

HandleResource ==
  /\ read.outcome = "received" /\ ~OnOffer(read.uri) /\ Matches(read.uri)
  /\ IF parse(read.uri) = Nil
       THEN read' = [read EXCEPT !.outcome = "invalid"] /\ UNCHANGED <<target, as>>
     ELSE IF config.EnableImpersonation /\ read.identity = Nil
       THEN read' = [read EXCEPT !.outcome = "anonymous"] /\ UNCHANGED <<target, as>>
     ELSE /\ target' = parse(read.uri)
          /\ as' = IF config.EnableImpersonation THEN read.identity ELSE "base"
          /\ read' = [read EXCEPT !.outcome = "requested"]
  /\ UNCHANGED <<config, provider, offer, walk>>

BeginWalk ==
  /\ walk.state # "open"
  /\ \E f \in Filters : walk' = [NoWalk EXCEPT !.filter = f, !.state = "open"]
  /\ UNCHANGED <<config, provider, offer, reading>>

(* A call of list_resources with the token of the page before; the client  *)
(* may change the limit in between.                                        *)
NextPage ==
  /\ walk.state = "open"
  /\ \E limit \in Limits :
       LET page == HandleListResources(limit, walk.continue, walk.filter)
       IN walk' = [walk EXCEPT !.items = @ \o page.items, !.continue = page.continue,
                               !.state = IF page.continue = Nil THEN "complete" ELSE "open"]
  /\ UNCHANGED <<config, provider, offer, reading>>

(* The API server fails, or the token is too old.                          *)
ListFails ==
  /\ walk.state = "open"
  /\ walk' = NoWalk
  /\ UNCHANGED <<config, provider, offer, reading>>

Next ==
  \/ Rotate \/ Refresh \/ Stop \/ Discover \/ AddResource
  \/ ReadURI \/ ReadAdvertised \/ CallNoHandler \/ FindNoHandler \/ HandleResource
  \/ BeginWalk \/ NextPage \/ ListFails

Spec == Init /\ [][Next]_vars

-----------------------------------------------------------------------------
(* Properties.                                                             *)

(* Types; an entry is offered only after discovery, and a read that got    *)
(* through acts as somebody and has a target with a version, a resource    *)
(* and a name, whatever was empty in its URI: a request without a name     *)
(* would be for all objects.                                               *)
TypeOK ==
  /\ config \in Configs
  /\ published \in (SUBSET KeyIDs) \ {{}}
  /\ keys \in (SUBSET KeyIDs) \cup {Nil} /\ (~config.jwks => keys = Nil)
  /\ listing = Nil \/ listing \subseteq HandleListAllResources \ advertised
  /\ advertised \subseteq HandleListAllResources
  /\ read.outcome \in {"none", "received", "panicked", "not found", "invalid",
                       "anonymous", "requested"}
  /\ target \in Targets \cup {Nil}
  /\ target # Nil <=> read.outcome = "requested"
  /\ as # Nil <=> read.outcome = "requested"
  /\ walk.state \in {"none", "open", "complete"}

(* With impersonation on, a read is made exactly for the user and groups   *)
(* of its own token, and exactly if that token may be acted on at the time *)
(* it came, whatever keys were rotated before or after; with it off, always*)
(* as the server (identity.go:1-14, implementation.go:37-41).              *)
ActsForTheTokensUser ==
  LET names == read.header \notin {NoHeader, NotBearer}
               /\ Acceptable(read.header, config, read.keys)
  IN IF ~config.EnableImpersonation THEN as \in {"base", Nil} /\ read.outcome # "anonymous"
     ELSE /\ read.outcome = "anonymous" => ~names
          /\ as # Nil => /\ names
                         /\ as.user = read.header.user
                         /\ {as.groups[i] : i \in DOMAIN as.groups} = GroupsNamed(read.header)

(* A read asks for exactly the resource its URI stands for, in a group or  *)
(* in the core group, filled into a template or into a URI on offer, also  *)
(* while more are added, and is refused only if it stands for none         *)
(* (read_resource.go:47-49, 82-84).  A URI with another empty segment asks *)
(* for what the others spell, all of them and in order: the later ones move*)
(* up (read_resource.go:22-23, 37-43).  Only the URIs on offer, as they    *)
(* are, cannot be read: every other name or namespace has a handler        *)
(* (server.go:164).                                                        *)
ReadsWhatItNames ==
  /\ read.outcome = "requested" =>
       /\ read.meant \in {target, Nil}
       /\ parseURI(Template(target)) = parseURI(read.uri)
  /\ read.outcome \in {"invalid", "not found"} => read.meant = Nil
  /\ read.outcome = "panicked" =>
       /\ read.meant # Nil /\ read.meant.name = "example"
       /\ read.meant.namespace \in {"default", Empty}

(* The reference for annotations: the keys asked for by name, or all but   *)
(* those that are excluded by name or by what they begin with.             *)
Wanted(key, filter) ==
  /\ filter.annotations
  /\ \/ key \in filter.include
     \/ /\ filter.include = {} /\ key \notin filter.exclude
        /\ \A n \in 0..Len(key) : Append(SubSeq(key, 1, n), "*") \notin filter.exclude

(* Whoever follows the tokens to the end has got every object once, in     *)
(* order, whatever limits were asked for on the way, and with it exactly   *)
(* the annotations that were (tools.go:28-45).                             *)
ListsShowWhatWasAsked ==
  walk.state = "complete" =>
    walk.items = [i \in DOMAIN Objects |->
      [object |-> i, annotations |-> {k \in Objects[i] : Wanted(k, walk.filter)}]]
=============================================================================
