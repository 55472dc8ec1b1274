---------------------------- MODULE CloudOptions ----------------------------
(***************************************************************************)
(* The configuration of the object store behind a URL: options from the    *)
(* DuckDB secret that matches it, then those of the call's named           *)
(* arguments.  The store's builder takes them in order, so of two options  *)
(* with one key the later holds.                                           *)
(***************************************************************************)
EXTENDS Naturals, Sequences, SequencesExt, FiniteSetsExt

\* A setting that was not given, and one that was given as an empty string.
Absent == "absent"
Empty == "empty"

\* Credentials stand for key_id, secret and session_token, which are treated
\* alike; an endpoint is a bare host or has a scheme; a use_ssl that parses
\* neither as true nor as false counts as not given.
Fields == [credentials : {Absent, Empty, "given"},
           region : {Absent, Empty, "secret"},
           endpoint : {Absent, Empty, "bare", "http", "https"},
           url_style : {Absent, "path", "vhost"},
           use_ssl : {Absent, "true", "false", "garbage"}]

Arguments == [region : {Absent, Empty, "argument"},
              endpoint : {Absent, Empty, "bare", "http", "https"},
              url_style : {Absent, "path", "vhost"},
              use_ssl : {Absent, "true", "false", "garbage"}]

\* The fields of no secret.
NoFields == [credentials |-> Absent, region |-> Absent, endpoint |-> Absent,
             url_style |-> Absent, use_ssl |-> Absent]

\* What has no scheme gets one, an empty string too.
NormalizeEndpoint(ep, use_ssl) ==
  IF ep \in {"http", "https"} THEN ep
  ELSE IF use_ssl = "false" THEN "http" ELSE "https"

Pushed(given, key, value) == IF given THEN <<[key |-> key, value |-> value]>> ELSE <<>>

NonEmpty(setting) == setting \notin {Absent, Empty}

\* The endpoint, the addressing style and the TLS switch, from one of the two.
Endpoint(given, from) ==
  Pushed(given, "aws_endpoint", NormalizeEndpoint(from.endpoint, from.use_ssl))

PathStyle(from) ==
  Pushed(from.url_style = "path", "aws_virtual_hosted_style_request", "false")

AllowHttp(from) == Pushed(from.use_ssl = "false", "aws_allow_http", "true")

S3Options(secret) ==
  Pushed(NonEmpty(secret.credentials), "aws_access_key_id", secret.credentials)
    \o Pushed(NonEmpty(secret.region), "aws_region", secret.region)
    \o Endpoint(NonEmpty(secret.endpoint), secret) \o PathStyle(secret) \o AllowHttp(secret)

\* Mutant of CloudOverrides: use_ssl only picks the endpoint's scheme.
CloudOverridesHttps(arguments) ==
  Endpoint(arguments.endpoint # Absent, arguments)
    \o Pushed(arguments.region # Absent, "aws_region", arguments.region)
    \o PathStyle(arguments)

\* Of the arguments, unlike the secret, an empty string counts as given.
CloudOverrides(arguments) ==
  Endpoint(arguments.endpoint # Absent, arguments)
    \o Pushed(arguments.region # Absent, "aws_region", arguments.region)
    \o PathStyle(arguments) \o AllowHttp(arguments)

\* Mutant of StoreOptions: the arguments go before the secret's options.
StoreOptionsReversed(scheme, secret, arguments) ==
  CloudOverrides(arguments) \o (IF scheme = "s3" THEN S3Options(secret) ELSE <<>>)

\* The options a store is built with; an http URL has no secret.
StoreOptions(scheme, secret, arguments) ==
  (IF scheme = "s3" THEN S3Options(secret) ELSE <<>>) \o CloudOverrides(arguments)

\* What the builder ends up with for a key.
Effective(opts, key) ==
  LET places == {i \in DOMAIN opts : opts[i].key = key}
  IN IF places = {} THEN "default" ELSE opts[Max(places)].value
=============================================================================
