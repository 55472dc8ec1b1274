----------------------------- MODULE CloudAccess ----------------------------
(***************************************************************************)
(* A call over s3:// and http(s):// paths, up to the stores its sources    *)
(* are read through: the secrets it asks for when it is bound, the listing *)
(* of its globs, and the options of every store.                           *)
(*                                                                         *)
(* The bind has two phases.  The call names the URLs it will touch, globs  *)
(* as they stand; DuckDB answers with the secret of each; and from then on *)
(* only those are known, when a store is built for a URL a glob stood for. *)
(***************************************************************************)
EXTENDS CloudOptions, Globs, Resolution

CONSTANTS
  Objects,  \* [bucket, key] of every object there can be, in the order of their URLs
  Cases     \* the calls, secrets and bucket contents to look at

\* A path is a URL whose key is a pattern.  Its host is an address or a name of
\* some, of which is_internal_ip tells two kinds; a name may not resolve at all.
Url == [scheme : {"s3", "http"}, bucket : STRING, key : Seq(Segments),
        addresses : SUBSET {"internal", "public"}]

Texts(key) == [i \in DOMAIN key |-> key[i].text]

\* A URL as text: its bucket and the segments of its key, wildcards and all.
UrlText(url) == <<url.bucket>> \o Texts(url.key)
ObjectText(n) == <<Objects[n].bucket>> \o Objects[n].key

HasWildcard(url) == WildAt(url.key) # {}

\* Only s3 can be listed.
IsGlob(url) == url.scheme = "s3" /\ HasWildcard(url)

\* No store is built for an http URL one of whose addresses is internal, unless
\* the worker's environment allows it; a host that does not resolve gets one.
RefusedIf(url, allowed) == url.scheme = "http" /\ ~allowed /\ "internal" \in url.addresses

ASSUME ObjectsAssumption ==
  /\ Objects \in Seq([bucket : STRING, key : Seq(STRING)])
  /\ \A m, n \in DOMAIN Objects : Objects[m] = Objects[n] => m = n

\* A URL that is neither a glob nor refused names an object there can be; no two
\* secrets have the same scope.
ASSUME CasesAssumption ==
  \A c \in Cases :
    /\ c.paths \in Seq(Url)
    /\ \A i \in DOMAIN c.paths :
         /\ IsPattern(c.paths[i].key)
         /\ \/ IsGlob(c.paths[i]) \/ RefusedIf(c.paths[i], c.allowInternal)
            \/ \E n \in DOMAIN Objects : ObjectText(n) = UrlText(c.paths[i])
    /\ c.arguments \in Arguments /\ c.allowInternal \in BOOLEAN
    /\ \A secret, other \in c.secrets :
         /\ secret.fields \in Fields /\ secret.scope \in Seq(STRING)
         /\ secret.scope = other.scope => secret = other
    /\ c.world \subseteq DOMAIN Objects

VARIABLES
  paths,         \* the URLs of the call
  arguments,     \* its named arguments
  allowInternal, \* whether the worker runs with BGP_ALLOW_INTERNAL_HOSTS
  secrets,       \* the s3 secrets DuckDB holds, [scope, fields]
  world,         \* the objects that exist
  phase,         \* "bind", "resolve", "resolved" or "refused"
  known,         \* the secrets the call was given
  at,            \* the path to be resolved next
  listers,       \* the stores its globs were listed through
  sources        \* the stores its sources are read through, in order

vars == <<paths, arguments, allowInternal, secrets, world, phase, known, at, listers, sources>>

Init ==
  /\ \E c \in Cases :
       /\ paths = c.paths
       /\ arguments = c.arguments
       /\ allowInternal = c.allowInternal
       /\ secrets = c.secrets
       /\ world = c.world
  /\ phase = "bind"
  /\ known = {}
  /\ at = 1
  /\ listers = <<>>
  /\ sources = <<>>

Refused(url) == RefusedIf(url, allowInternal)

\* Of the secrets whose scope begins the URL, the one with the longest scope.
Matching(among, text) == {secret \in among : IsPrefix(secret.scope, text)}
NoSecret == [scope |-> <<>>, fields |-> NoFields]
SecretFor(among, text) ==
  IF Matching(among, text) = {} THEN NoSecret
  ELSE CHOOSE secret \in Matching(among, text) :
         \A other \in Matching(among, text) : Len(other.scope) <= Len(secret.scope)

\* Mutant of SecretLookups: one lookup for each secret type.
SecretLookupsOfType ==
  LET remote == {i \in DOMAIN paths : paths[i].scheme = "s3"}
  IN IF remote = {} THEN {} ELSE {UrlText(paths[Min(remote)])}

\* One lookup for every distinct s3 URL of the call.
SecretLookups == {UrlText(paths[i]) : i \in {j \in DOMAIN paths : paths[j].scheme = "s3"}}

Bind ==
  /\ phase = "bind"
  /\ known' = UNION {IF Matching(secrets, text) = {} THEN {} ELSE {SecretFor(secrets, text)}
                     : text \in SecretLookups}
  /\ phase' = "resolve"
  /\ UNCHANGED <<paths, arguments, allowInternal, secrets, world, at, listers, sources>>

\* The store for a URL, the glob's or an object's; an http URL asks for no secret.
BuildStore(path, text) ==
  LET scheme == paths[path].scheme
      secret == IF scheme = "s3" THEN SecretFor(known, text) ELSE NoSecret
  IN [path |-> path, text |-> text, secret |-> secret,
      opts |-> StoreOptions(scheme, secret.fields, arguments)]

\* What a listing under the prefix returns, and of that what the glob matches.
Listed(url) ==
  {n \in world : Objects[n].bucket = url.bucket /\ Below(GlobPrefix(url.key), Objects[n].key)}

ListGlob(url) == Ascending({n \in Listed(url) : GlobMatches(url.key, Objects[n].key)})

\* A glob stands for the objects listed, any other URL for itself.
SourceTexts(url) ==
  IF IsGlob(url) THEN [i \in DOMAIN ListGlob(url) |-> ObjectText(ListGlob(url)[i])]
  ELSE <<UrlText(url)>>

\* The next path: a glob is listed through a store of its own.
ResolvePath ==
  /\ phase = "resolve" /\ at <= Len(paths) /\ ~Refused(paths[at])
  /\ LET url == paths[at]
         texts == SourceTexts(url)
     IN /\ listers' = IF IsGlob(url) THEN Append(listers, BuildStore(at, UrlText(url))) ELSE listers
        /\ sources' = sources \o [i \in DOMAIN texts |-> BuildStore(at, texts[i])]
  /\ at' = at + 1
  /\ UNCHANGED <<paths, arguments, allowInternal, secrets, world, phase, known>>

Refuse ==
  /\ phase = "resolve" /\ at <= Len(paths) /\ Refused(paths[at])
  /\ phase' = "refused"
  /\ UNCHANGED <<paths, arguments, allowInternal, secrets, world, known, at, listers, sources>>

Finish ==
  /\ phase = "resolve" /\ at > Len(paths)
  /\ phase' = "resolved"
  /\ UNCHANGED <<paths, arguments, allowInternal, secrets, world, known, at, listers, sources>>

Ended == phase \in {"resolved", "refused"} /\ UNCHANGED vars

Next == Bind \/ ResolvePath \/ Refuse \/ Finish \/ Ended

Spec == Init /\ [][Next]_vars

---------------------------------------------------------------------------
(* Properties *)

Stores == ToSet(listers) \cup ToSet(sources)

\* No secret is scoped below the place a glob of the call starts to vary.
ScopesAboveGlobs ==
  \A secret \in secrets, i \in DOMAIN paths :
    IsGlob(paths[i]) => ~IsStrictPrefix(<<paths[i].bucket>> \o GlobPrefix(paths[i].key), secret.scope)

\* The right secret per URL (cloud.rs:288-289), though secrets were asked for
\* by glob: an object is read with the secret DuckDB has for its own URL.
SecretOfItsUrl ==
  ScopesAboveGlobs =>
    \A store \in Stores :
      paths[store.path].scheme = "s3" => store.secret = SecretFor(secrets, store.text)

\* A URL as Resolution has it, with the objects it stands for.
AsPath(url) ==
  [scheme |-> url.scheme, wild |-> HasWildcard(url),
   names |-> {n \in DOMAIN Objects :
                IF url.scheme = "s3"
                THEN Objects[n].bucket = url.bucket /\ GlobMatches(url.key, Objects[n].key)
                ELSE ObjectText(n) = UrlText(url)}]

\* Listing under the prefix misses no object and adds none: the sources of the
\* call are those Resolution gives it, in that order.
ListingIsResolution ==
  phase = "resolved" =>
    LET files == ResolvePaths([i \in DOMAIN paths |-> AsPath(paths[i])], world).files
    IN [i \in DOMAIN sources |-> sources[i].text] = [i \in DOMAIN files |-> ObjectText(files[i])]

\* use_ssl is what allows plain http, in the secret or the call (options.rs:167-168).
\* So a store ends up with an http endpoint the builder refuses exactly when the
\* endpoint that holds was itself written with http:// (cloud.rs:253, kept as it
\* is) and neither says use_ssl => false: never by the completion of a bare host,
\* whichever of the two gives the host and whichever the switch.
PlainHttpIsAllowed ==
  \A store \in Stores :
    LET secret == store.secret.fields
        written == IF arguments.endpoint # Absent THEN arguments.endpoint ELSE secret.endpoint
    IN (/\ Effective(store.opts, "aws_endpoint") = "http"
        /\ Effective(store.opts, "aws_allow_http") # "true")
         <=> written = "http" /\ "false" \notin {arguments.use_ssl, secret.use_ssl}

\* A region or an endpoint argument beats the secret's (options.rs:147-148, 154),
\* even an empty one, and without one the secret's own holds.
LocationOverrides ==
  \A store \in Stores :
    LET secret == store.secret.fields
    IN /\ Effective(store.opts, "aws_region") =
            IF arguments.region # Absent THEN arguments.region
            ELSE IF NonEmpty(secret.region) THEN "secret" ELSE "default"
       /\ Effective(store.opts, "aws_endpoint") =
            IF arguments.endpoint # Absent THEN NormalizeEndpoint(arguments.endpoint, arguments.use_ssl)
            ELSE IF NonEmpty(secret.endpoint) THEN NormalizeEndpoint(secret.endpoint, secret.use_ssl)
            ELSE "default"

---------------------------------------------------------------------------
(* What the documentation says of every call, and the code does not keep *)

\* The named arguments win over the secret (cloud.rs:265-266): with url_style
\* "vhost" (options.rs:160-161) the store is addressed virtual-hosted style.
UrlStyleWins ==
  arguments.url_style = "vhost" =>
    \A store \in Stores :
      Effective(store.opts, "aws_virtual_hosted_style_request") # "false"
=============================================================================
