-------------------------- MODULE CloudAccessProofs --------------------------
(***************************************************************************)
(* For all buckets, patterns, secrets and calls: a secret that was asked   *)
(* for by the URL of a glob is the right one for every object the glob     *)
(* stands for, the arguments of the call override the secret's options in  *)
(* the store that is built, and listing under a prefix finds the sources   *)
(* that Resolution gives the call.                                         *)
(***************************************************************************)
EXTENDS CloudAccess, EnumerationsProofs

---------------------------------------------------------------------------
(* Prefixes of patterns, keys and URLs *)

\* One text begins another when it is no longer and agrees with it.
LEMMA PrefixAgrees ==
  ASSUME NEW s \in Seq(STRING), NEW t \in Seq(STRING)
  PROVE  IsPrefix(s, t) <=> Len(s) <= Len(t) /\ \A i \in 1 .. Len(s) : s[i] = t[i]
BY PrefixIs

\* The segments before the first wildcard are literal ones.
LEMMA HeadIsLiteral ==
  ASSUME NEW pattern, IsPattern(pattern)
  PROVE  /\ HeadLength(pattern) \in 0 .. Len(pattern)
         /\ \A i \in 1 .. HeadLength(pattern) :
              pattern[i].kind = "literal" /\ pattern[i].names = {pattern[i].text}
         /\ WildAt(pattern) # {} => HeadLength(pattern) < Len(pattern)
<1>1. Len(pattern) \in Nat
  BY DEF IsPattern
<1>2. CASE WildAt(pattern) = {}
  BY <1>1, <1>2 DEF HeadLength, WildAt, IsPattern
<1>3. CASE WildAt(pattern) # {}
  <2>1. WildAt(pattern) \subseteq 1 .. Len(pattern) /\ WildAt(pattern) \subseteq Nat
    BY <1>1 DEF WildAt
  <2>2. \E x \in WildAt(pattern) : \A y \in WildAt(pattern) : x <= y
    BY <1>3, <2>1, LeastNumber
  <2>3. Min(WildAt(pattern)) \in WildAt(pattern) /\ \A y \in WildAt(pattern) : Min(WildAt(pattern)) <= y
    BY <2>2 DEF Min
  <2>4. HeadLength(pattern) = Min(WildAt(pattern)) - 1 /\ Min(WildAt(pattern)) \in 1 .. Len(pattern)
    BY <1>3, <2>1, <2>3 DEF HeadLength
  <2>5. \A i \in 1 .. HeadLength(pattern) : i \in 1 .. Len(pattern) /\ i \notin WildAt(pattern)
    BY <1>1, <2>3, <2>4
  <2>6. \A i \in 1 .. HeadLength(pattern) : pattern[i].kind = "literal"
    BY <2>5 DEF WildAt
  <2>7. \A i \in 1 .. HeadLength(pattern) : pattern[i].names = {pattern[i].text}
    BY <2>5, <2>6 DEF IsPattern
  <2> QED  BY <1>1, <2>4, <2>6, <2>7
<1> QED  BY <1>2, <1>3

\* A key that matches a pattern begins with the pattern's prefix; it ends there
\* if the pattern does, and else goes on.
LEMMA MatchesBeginAlike ==
  ASSUME NEW pattern, IsPattern(pattern), NEW key \in Seq(STRING), GlobMatches(pattern, key)
  PROVE  /\ HeadLength(pattern) <= Len(key)
         /\ \A i \in 1 .. HeadLength(pattern) : key[i] = pattern[i].text
         /\ HeadLength(pattern) = Len(pattern) => Len(key) = Len(pattern)
         /\ HeadLength(pattern) < Len(pattern) => HeadLength(pattern) < Len(key)
<1> DEFINE head == HeadLength(pattern)
<1>1. PICK cut \in [0 .. Len(pattern) -> 0 .. Len(key)] :
        /\ cut[0] = 0 /\ cut[Len(pattern)] = Len(key)
        /\ \A i \in 1 .. Len(pattern) : Fits(pattern[i], key, cut[i - 1], cut[i])
  BY DEF GlobMatches
<1>2. /\ head \in 0 .. Len(pattern) /\ Len(pattern) \in Nat /\ Len(key) \in Nat
      /\ \A i \in 1 .. head : pattern[i].kind = "literal" /\ pattern[i].names = {pattern[i].text}
  BY HeadIsLiteral DEF IsPattern
<1> HIDE DEF head
<1>3. \A i \in 1 .. head : cut[i] = cut[i - 1] + 1 /\ key[cut[i]] = pattern[i].text
  <2> SUFFICES ASSUME NEW i \in 1 .. head
               PROVE  cut[i] = cut[i - 1] + 1 /\ key[cut[i]] = pattern[i].text
    OBVIOUS
  <2>1. Fits(pattern[i], key, cut[i - 1], cut[i])
    BY <1>1, <1>2
  <2>2. pattern[i].kind # "deep" /\ pattern[i].names = {pattern[i].text}
    BY <1>2
  <2> QED  BY <2>1, <2>2 DEF Fits
<1> DEFINE Off == {i \in 0 .. head : cut[i] # i}
<1>4. Off = {}
  <2> SUFFICES ASSUME Off # {} PROVE FALSE
    OBVIOUS
  <2>1. Off \subseteq Nat
    BY <1>2
  <2>2. PICK i \in Off : \A m \in Off : i <= m
    <3> HIDE DEF Off
    <3> QED  BY <2>1, LeastNumber
  <2>3. i \in 1 .. head
    BY <1>1, <1>2, <2>2
  <2>4. i - 1 \in 0 .. head /\ i - 1 \notin Off
    BY <1>2, <2>2, <2>3
  <2>5. cut[i - 1] = i - 1
    BY <2>4
  <2>6. cut[i] = i
    BY <1>3, <2>3, <2>5
  <2> QED  BY <2>2, <2>6
<1>5. \A i \in 0 .. head : cut[i] = i
  BY <1>4
<1>6. cut[head] \in 0 .. Len(key)
  BY <1>1, <1>2
<1>7. head <= Len(key)
  BY <1>2, <1>5, <1>6
<1>8. \A i \in 1 .. head : key[i] = pattern[i].text
  BY <1>2, <1>3, <1>5
<1>9. head = Len(pattern) => Len(key) = Len(pattern)
  BY <1>1, <1>2, <1>5
<1>10. \A i \in 0 .. Len(pattern) : cut[i] \in Nat
  <2> SUFFICES ASSUME NEW i \in 0 .. Len(pattern) PROVE cut[i] \in Nat
    OBVIOUS
  <2>1. cut[i] \in 0 .. Len(key)
    BY <1>1
  <2> QED  BY <1>2, <2>1
<1>11. ASSUME head < Len(pattern) PROVE head < Len(key)
  <2> DEFINE last == Len(pattern)
             Back == {i \in head .. last : cut[i] < head}
  <2>1. \A i \in 1 .. last : cut[i - 1] <= cut[i]
    <3> SUFFICES ASSUME NEW i \in 1 .. last PROVE cut[i - 1] <= cut[i]
      OBVIOUS
    <3>1. i - 1 \in 0 .. last /\ i \in 0 .. last
      BY <1>2
    <3>2. cut[i - 1] \in Nat /\ cut[i] \in Nat
      BY <1>10, <3>1
    <3>3. Fits(pattern[i], key, cut[i - 1], cut[i])
      BY <1>1
    <3> QED  BY <3>2, <3>3 DEF Fits
  <2>2. Back = {}
    <3> SUFFICES ASSUME Back # {} PROVE FALSE
      OBVIOUS
    <3>1. Back \subseteq Nat
      BY <1>2
    <3>2. PICK i \in Back : \A m \in Back : i <= m
      <4> HIDE DEF Back
      <4> QED  BY <3>1, LeastNumber
    <3>3. i # head
      BY <1>2, <1>5, <3>2
    <3>4. i - 1 \in head .. last /\ i - 1 \notin Back /\ i \in 1 .. last
      BY <1>2, <3>2, <3>3
    <3>5. i \in 0 .. last /\ i - 1 \in 0 .. last
      BY <1>2, <3>4
    <3>6. cut[i - 1] \in Nat /\ cut[i] \in Nat /\ cut[i - 1] <= cut[i] /\ cut[i] < head
      BY <1>10, <2>1, <3>2, <3>4, <3>5
    <3> QED  BY <1>2, <3>4, <3>6
  <2>3. last \in 1 .. last /\ last - 1 \in head .. last /\ last - 1 \in 0 .. last
    BY <1>2, <1>11
  <2>4. pattern[last].kind # "deep"
    BY <2>3 DEF IsPattern
  <2>5. cut[last] = cut[last - 1] + 1
    <3>1. Fits(pattern[last], key, cut[last - 1], cut[last])
      BY <1>1, <2>3
    <3> QED  BY <2>4, <3>1 DEF Fits
  <2>6. cut[last - 1] \in Nat /\ head <= cut[last - 1]
    <3>1. cut[last - 1] \in Nat /\ last - 1 \notin Back
      BY <1>10, <2>2, <2>3
    <3> QED  BY <1>2, <2>3, <3>1
  <2> QED  BY <1>1, <1>2, <2>5, <2>6
<1> QED  BY <1>7, <1>8, <1>9, <1>11 DEF head

\* A pattern without wildcards matches its own text and nothing else.
LEMMA LiteralMatches ==
  ASSUME NEW pattern, IsPattern(pattern), WildAt(pattern) = {}, NEW key \in Seq(STRING)
  PROVE  GlobMatches(pattern, key) <=>
           Len(key) = Len(pattern) /\ \A i \in 1 .. Len(pattern) : key[i] = pattern[i].text
<1>1. HeadLength(pattern) = Len(pattern) /\ Len(pattern) \in Nat /\ Len(key) \in Nat
  BY DEF HeadLength, IsPattern
<1>2. ASSUME GlobMatches(pattern, key)
      PROVE  Len(key) = Len(pattern) /\ \A i \in 1 .. Len(pattern) : key[i] = pattern[i].text
  BY <1>1, <1>2, MatchesBeginAlike
<1>3. ASSUME Len(key) = Len(pattern), \A i \in 1 .. Len(pattern) : key[i] = pattern[i].text
      PROVE  GlobMatches(pattern, key)
  <2> DEFINE cut == [i \in 0 .. Len(pattern) |-> i]
  <2>1. /\ cut \in [0 .. Len(pattern) -> 0 .. Len(key)]
        /\ cut[0] = 0 /\ cut[Len(pattern)] = Len(key)
    BY <1>1, <1>3
  <2>2. ASSUME NEW i \in 1 .. Len(pattern) PROVE Fits(pattern[i], key, cut[i - 1], cut[i])
    <3>1. i - 1 \in 0 .. Len(pattern) /\ i \in 0 .. Len(pattern) /\ (i - 1) + 1 = i
      BY <1>1
    <3>2. cut[i - 1] = i - 1 /\ cut[i] = i
      BY <3>1
    <3>3. pattern[i].kind = "literal" /\ pattern[i].names = {pattern[i].text}
      BY <1>1, HeadIsLiteral
    <3> HIDE DEF cut
    <3> QED  BY <1>3, <3>1, <3>2, <3>3 DEF Fits
  <2> HIDE DEF cut
  <2> QED  BY <2>1, <2>2 DEF GlobMatches
<1> QED  BY <1>2, <1>3

\* The texts of URLs and objects.
LEMMA TextTypes ==
  /\ \A url \in Url : /\ UrlText(url) \in Seq(STRING)
                      /\ Len(UrlText(url)) = 1 + Len(url.key)
                      /\ UrlText(url)[1] = url.bucket
                      /\ \A i \in 1 .. Len(url.key) : UrlText(url)[1 + i] = url.key[i].text
  /\ \A n \in DOMAIN Objects :
       /\ ObjectText(n) \in Seq(STRING)
       /\ Objects[n].key \in Seq(STRING)
       /\ Len(ObjectText(n)) = 1 + Len(Objects[n].key)
       /\ ObjectText(n)[1] = Objects[n].bucket
       /\ \A i \in 1 .. Len(Objects[n].key) : ObjectText(n)[1 + i] = Objects[n].key[i]
<1>1. ASSUME NEW url \in Url
      PROVE  /\ UrlText(url) \in Seq(STRING)
             /\ Len(UrlText(url)) = 1 + Len(url.key)
             /\ UrlText(url)[1] = url.bucket
             /\ \A i \in 1 .. Len(url.key) : UrlText(url)[1 + i] = url.key[i].text
  <2>1. url.bucket \in STRING /\ url.key \in Seq(Segments)
    BY <1>1 DEF Url
  <2>2. Texts(url.key) \in Seq(STRING) /\ Len(Texts(url.key)) = Len(url.key)
    <3>1. Len(url.key) \in Nat /\ DOMAIN url.key = 1 .. Len(url.key)
      BY <2>1
    <3>2. \A i \in 1 .. Len(url.key) : url.key[i].text \in STRING
      <4>1. \A i \in 1 .. Len(url.key) : url.key[i] \in Segments
        BY <2>1
      <4> QED  BY <4>1 DEF Segments
    <3>3. Texts(url.key) \in [1 .. Len(url.key) -> STRING]
      BY <3>1, <3>2 DEF Texts
    <3> QED  BY <3>1, <3>3
  <2>3. \A i \in 1 .. Len(url.key) : Texts(url.key)[i] = url.key[i].text
    BY <2>1 DEF Texts
  <2>4. <<url.bucket>> \in Seq(STRING) /\ Len(<<url.bucket>>) = 1
    BY <2>1
  <2> QED  BY <2>1, <2>2, <2>3, <2>4 DEF UrlText
<1>2. ASSUME NEW n \in DOMAIN Objects
      PROVE  /\ ObjectText(n) \in Seq(STRING)
             /\ Objects[n].key \in Seq(STRING)
             /\ Len(ObjectText(n)) = 1 + Len(Objects[n].key)
             /\ ObjectText(n)[1] = Objects[n].bucket
             /\ \A i \in 1 .. Len(Objects[n].key) : ObjectText(n)[1 + i] = Objects[n].key[i]
  <2>1. Objects[n].bucket \in STRING /\ Objects[n].key \in Seq(STRING)
    <3> DEFINE Object == [bucket : STRING, key : Seq(STRING)]
    <3>1. Objects \in Seq(Object)
      BY ObjectsAssumption
    <3>2. Objects[n] \in Object
      <4> HIDE DEF Object
      <4> QED  BY <1>2, <3>1
    <3> QED  BY <3>2
  <2>2. <<Objects[n].bucket>> \in Seq(STRING) /\ Len(<<Objects[n].bucket>>) = 1
    BY <2>1
  <2> QED  BY <2>1, <2>2 DEF ObjectText
<1> QED  BY <1>1, <1>2

\* A secret scoped above the wildcards of a glob begins the URL of the glob if
\* and only if it begins that of an object the glob matches.
LEMMA ScopeOfGlobAndObject ==
  ASSUME NEW url \in Url, IsPattern(url.key), HasWildcard(url),
         NEW n \in DOMAIN Objects, Objects[n].bucket = url.bucket,
         GlobMatches(url.key, Objects[n].key),
         NEW scope \in Seq(STRING),
         ~ IsStrictPrefix(<<url.bucket>> \o GlobPrefix(url.key), scope)
  PROVE  IsPrefix(scope, ObjectText(n)) <=> IsPrefix(scope, UrlText(url))
<1> DEFINE head == HeadLength(url.key)
           u == UrlText(url)
           t == ObjectText(n)
           q == <<url.bucket>> \o GlobPrefix(url.key)
<1>1. /\ head \in Nat /\ Len(url.key) \in Nat /\ head <= Len(url.key)
      /\ Len(Objects[n].key) \in Nat /\ head <= Len(Objects[n].key)
      /\ \A i \in 1 .. head : Objects[n].key[i] = url.key[i].text
  <2>1. Objects[n].key \in Seq(STRING) /\ Len(Objects[n].key) \in Nat
    BY TextTypes
  <2>2. Len(url.key) \in Nat
    BY DEF IsPattern
  <2>3. head \in 0 .. Len(url.key)
    BY HeadIsLiteral
  <2>4. /\ head <= Len(Objects[n].key)
        /\ \A i \in 1 .. head : Objects[n].key[i] = url.key[i].text
    BY <2>1, MatchesBeginAlike
  <2> HIDE DEF head
  <2> QED  BY <2>1, <2>2, <2>3, <2>4
<1>2. /\ q \in Seq(STRING) /\ Len(q) = 1 + head /\ q[1] = url.bucket
      /\ \A i \in 1 .. head : q[1 + i] = url.key[i].text
  <2>1. url.bucket \in STRING /\ url.key \in Seq(Segments)
    BY DEF Url
  <2>2. \A i \in 1 .. head : url.key[i].text \in STRING
    <3> HIDE DEF head
    <3>1. \A i \in 1 .. head : i \in 1 .. Len(url.key)
      BY <1>1
    <3>2. \A i \in 1 .. Len(url.key) : url.key[i] \in Segments
      BY <2>1
    <3> QED  BY <3>1, <3>2 DEF Segments
  <2>3. /\ GlobPrefix(url.key) \in Seq(STRING) /\ Len(GlobPrefix(url.key)) = head
        /\ \A i \in 1 .. head : GlobPrefix(url.key)[i] = url.key[i].text
    <3> HIDE DEF head
    <3>1. GlobPrefix(url.key) = [i \in 1 .. head |-> url.key[i].text]
      BY DEF GlobPrefix, head
    <3> QED  BY <1>1, <2>2, <3>1
  <2>4. <<url.bucket>> \in Seq(STRING) /\ Len(<<url.bucket>>) = 1
    BY <2>1
  <2> HIDE DEF head
  <2> QED  BY <1>1, <2>3, <2>4
<1>3. /\ u \in Seq(STRING) /\ t \in Seq(STRING)
      /\ Len(u) = 1 + Len(url.key) /\ Len(t) = 1 + Len(Objects[n].key)
      /\ u[1] = url.bucket /\ t[1] = url.bucket
  BY TextTypes
<1>4. \A i \in 1 .. head : u[1 + i] = q[1 + i] /\ t[1 + i] = q[1 + i]
  <2> SUFFICES ASSUME NEW i \in 1 .. head PROVE u[1 + i] = q[1 + i] /\ t[1 + i] = q[1 + i]
    OBVIOUS
  <2>1. i \in 1 .. Len(url.key) /\ i \in 1 .. Len(Objects[n].key)
    BY <1>1
  <2> HIDE DEF head, q
  <2> QED  BY <1>1, <1>2, <2>1, TextTypes
<1> HIDE DEF head, q, u, t
<1>5. \A i \in 1 .. 1 + head : u[i] = q[i] /\ t[i] = q[i]
  <2> SUFFICES ASSUME NEW i \in 1 .. 1 + head PROVE u[i] = q[i] /\ t[i] = q[i]
    OBVIOUS
  <2>1. CASE i = 1
    BY <1>2, <1>3, <2>1
  <2>2. CASE i # 1
    <3>1. i - 1 \in 1 .. head /\ 1 + (i - 1) = i
      BY <1>1, <2>2
    <3> QED  BY <1>4, <3>1
  <2> QED  BY <2>1, <2>2
<1>6. Len(scope) \in Nat /\ Len(u) \in Nat /\ Len(t) \in Nat
      /\ 1 + head <= Len(u) /\ 1 + head <= Len(t)
  BY <1>1, <1>3
<1>7. CASE Len(scope) <= 1 + head
  <2>1. \A i \in 1 .. Len(scope) : u[i] = t[i]
    BY <1>1, <1>5, <1>6, <1>7
  <2>2. IsPrefix(scope, t) <=> \A i \in 1 .. Len(scope) : scope[i] = t[i]
    <3>1. Len(scope) <= Len(t)
      BY <1>1, <1>6, <1>7
    <3> QED  BY <1>3, <3>1, PrefixAgrees
  <2>3. IsPrefix(scope, u) <=> \A i \in 1 .. Len(scope) : scope[i] = u[i]
    <3>1. Len(scope) <= Len(u)
      BY <1>1, <1>6, <1>7
    <3> QED  BY <1>3, <3>1, PrefixAgrees
  <2> QED  BY <2>1, <2>2, <2>3 DEF u, t
<1>8. CASE ~ (Len(scope) <= 1 + head)
  <2>1. q # scope
    BY <1>1, <1>2, <1>6, <1>8
  <2>2. ~ IsPrefix(q, scope)
    BY <2>1 DEF IsStrictPrefix, q
  <2>3. \E i \in 1 .. 1 + head : q[i] # scope[i]
    BY <1>1, <1>2, <1>6, <1>8, <2>2, PrefixAgrees
  <2>4. PICK i \in 1 .. Len(scope) : scope[i] # u[i] /\ scope[i] # t[i]
    BY <1>1, <1>5, <1>6, <1>8, <2>3
  <2> QED  BY <1>3, <2>4, PrefixAgrees DEF u, t
<1> QED  BY <1>7, <1>8

---------------------------------------------------------------------------
(* The secret of a URL *)

\* Secrets with scopes that can be compared with URLs, one for each scope.
ScopesTellApart(among) ==
  \A secret, other \in among :
    secret.scope \in Seq(STRING) /\ (secret.scope = other.scope => secret = other)

\* Of the secrets that match, one has the longest scope, and only one.
LEMMA LongestScope ==
  ASSUME NEW among, ScopesTellApart(among), NEW text \in Seq(STRING), Matching(among, text) # {}
  PROVE  /\ SecretFor(among, text) \in Matching(among, text)
         /\ \A other \in Matching(among, text) :
              Len(other.scope) <= Len(SecretFor(among, text).scope)
<1> DEFINE Short == {Len(text) - Len(secret.scope) : secret \in Matching(among, text)}
           Longest(secret) == \A other \in Matching(among, text) : Len(other.scope) <= Len(secret.scope)
<1>1. \A secret \in Matching(among, text) :
        /\ Len(secret.scope) \in Nat /\ Len(text) \in Nat /\ Len(secret.scope) <= Len(text)
  BY PrefixAgrees DEF Matching, ScopesTellApart
<1>2. Short \subseteq Nat /\ Short # {}
  BY <1>1
<1>3. PICK d \in Short : \A e \in Short : d <= e
  <2> HIDE DEF Short
  <2> QED  BY <1>2, LeastNumber
<1>4. PICK secret \in Matching(among, text) : d = Len(text) - Len(secret.scope)
  OBVIOUS
<1>5. Longest(secret)
  <2> SUFFICES ASSUME NEW other \in Matching(among, text) PROVE Len(other.scope) <= Len(secret.scope)
    OBVIOUS
  <2>1. d <= Len(text) - Len(other.scope)
    BY <1>3
  <2> QED  BY <1>1, <1>4, <2>1
<1>6. SecretFor(among, text) = CHOOSE other \in Matching(among, text) : Longest(other)
  BY DEF SecretFor
<1> HIDE DEF Longest
<1>7. SecretFor(among, text) \in Matching(among, text) /\ Longest(SecretFor(among, text))
  BY <1>5, <1>6
<1> QED  BY <1>7 DEF Longest

\* Scopes of one length that begin one text are equal.
LEMMA SameLengthSameSecret ==
  ASSUME NEW among, ScopesTellApart(among), NEW text \in Seq(STRING),
         NEW a \in Matching(among, text), NEW b \in Matching(among, text),
         Len(a.scope) = Len(b.scope)
  PROVE  a = b
<1>1. a \in among /\ b \in among /\ a.scope \in Seq(STRING) /\ b.scope \in Seq(STRING)
  BY DEF Matching, ScopesTellApart
<1>2. \A i \in 1 .. Len(a.scope) : a.scope[i] = text[i] /\ b.scope[i] = text[i]
  BY <1>1, PrefixAgrees DEF Matching
<1>3. a.scope = b.scope
  BY <1>1, <1>2
<1> QED  BY <1>1, <1>3 DEF ScopesTellApart

\* Fewer secrets give the same answer while the answer is among them.
LEMMA FewerSecrets ==
  ASSUME NEW among, ScopesTellApart(among), NEW text \in Seq(STRING),
         NEW some \in SUBSET among,
         Matching(among, text) # {} => SecretFor(among, text) \in some
  PROVE  SecretFor(some, text) = SecretFor(among, text)
<1>1. Matching(some, text) \subseteq Matching(among, text)
  BY DEF Matching
<1>2. CASE Matching(among, text) = {}
  BY <1>1, <1>2 DEF SecretFor
<1>3. CASE Matching(among, text) # {}
  <2>1. SecretFor(among, text) \in Matching(some, text)
    BY <1>3, LongestScope DEF Matching
  <2>2. ScopesTellApart(some)
    BY DEF ScopesTellApart
  <2>3. /\ SecretFor(some, text) \in Matching(some, text)
        /\ Len(SecretFor(among, text).scope) <= Len(SecretFor(some, text).scope)
    BY <2>1, <2>2, LongestScope
  <2>4. Len(SecretFor(some, text).scope) <= Len(SecretFor(among, text).scope)
    BY <1>1, <1>3, <2>3, LongestScope
  <2>5. /\ Len(SecretFor(some, text).scope) \in Nat
        /\ Len(SecretFor(among, text).scope) \in Nat
    BY <1>1, <2>1, <2>3 DEF Matching, ScopesTellApart
  <2> QED  BY <1>1, <2>1, <2>3, <2>4, <2>5, SameLengthSameSecret
<1> QED  BY <1>2, <1>3

---------------------------------------------------------------------------
(* The stores of a call *)

\* The secrets the call was given: the one of every s3 URL it names.
KnownSecrets ==
  UNION {IF Matching(secrets, text) = {} THEN {} ELSE {SecretFor(secrets, text)}
         : text \in SecretLookups}

\* A store reads the URL of its path, or an object that the path's glob matches.
ObjectsOf(url) ==
  {n \in DOMAIN Objects : /\ HasWildcard(url) /\ Objects[n].bucket = url.bucket
                          /\ GlobMatches(url.key, Objects[n].key)}
TextsOf(url) == {UrlText(url)} \cup {ObjectText(n) : n \in ObjectsOf(url)}
StoresOf(i) == {BuildStore(i, text) : text \in TextsOf(paths[i])}
BuiltStores == UNION {StoresOf(i) : i \in DOMAIN paths}

AccessInv ==
  /\ paths \in Seq(Url)
  /\ \A i \in DOMAIN paths : IsPattern(paths[i].key)
  /\ arguments \in Arguments
  /\ ScopesTellApart(secrets)
  /\ \A secret \in secrets : secret.fields \in Fields
  /\ world \subseteq DOMAIN Objects
  /\ at \in Nat \ {0}
  /\ phase = "bind" => at = 1 /\ listers = <<>> /\ sources = <<>>
  /\ phase # "bind" => known = KnownSecrets
  /\ listers \in Seq(BuiltStores)
  /\ sources \in Seq(BuiltStores)

\* Nothing is built before the bind.
LEMMA InitAccess == Init => AccessInv
<1> SUFFICES ASSUME Init PROVE AccessInv
  OBVIOUS
<1>1. PICK c \in Cases : /\ paths = c.paths /\ arguments = c.arguments
                         /\ secrets = c.secrets /\ world = c.world
  BY DEF Init
<1>2. /\ paths \in Seq(Url) /\ \A i \in DOMAIN paths : IsPattern(paths[i].key)
      /\ arguments \in Arguments
      /\ world \subseteq DOMAIN Objects
  BY <1>1, CasesAssumption
<1>3. ScopesTellApart(secrets) /\ \A secret \in secrets : secret.fields \in Fields
  BY <1>1, CasesAssumption DEF ScopesTellApart
<1>4. phase = "bind" /\ listers = <<>> /\ sources = <<>> /\ at = 1
  BY DEF Init
<1>5. listers \in Seq(BuiltStores) /\ sources \in Seq(BuiltStores)
  BY <1>4
<1> QED  BY <1>2, <1>3, <1>4, <1>5 DEF AccessInv

\* The places of a bucket are numbers, and the sets of them can be listed.
LEMMA PlacesOfObjects ==
  /\ Objects \in Seq([bucket : STRING, key : Seq(STRING)])
  /\ DOMAIN Objects \subseteq Nat
  /\ \A S \in SUBSET DOMAIN Objects : S \subseteq Nat /\ IsFiniteSet(S)
<1>1. DOMAIN Objects = 1 .. Len(Objects) /\ Len(Objects) \in Nat
  BY ObjectsAssumption
<1> QED  BY <1>1, IndexesFinite, ObjectsAssumption

\* A listing of some of the objects.
LEMMA ListingOfObjects ==
  ASSUME NEW found \in SUBSET DOMAIN Objects
  PROVE  /\ Ascending(found) \in Seq(found)
         /\ DOMAIN Ascending(found) = 1 .. Len(Ascending(found))
         /\ \A i \in DOMAIN Ascending(found) : Ascending(found)[i] \in found
<1>1. found \subseteq Nat /\ IsFiniteSet(found)
  BY PlacesOfObjects
<1>2. Cardinality(found) \in Nat /\ Lists(Ascending(found), found)
  BY <1>1, AscendingIs
<1>3. Ascending(found) \in [1 .. Cardinality(found) -> found]
  BY <1>2 DEF Lists
<1> DEFINE q == Ascending(found)
<1> HIDE DEF q
<1>4. q \in [1 .. Cardinality(found) -> found]
  BY <1>3 DEF q
<1>5. q \in Seq(found)
  BY <1>2, <1>4
<1> QED  BY <1>5 DEF q

\* The sources of a URL are its own or objects its glob matches.
LEMMA SourcesOfPath ==
  ASSUME AccessInv, NEW url \in Url
  PROVE  SourceTexts(url) \in Seq(TextsOf(url))
<1>1. CASE ~ IsGlob(url)
  BY <1>1 DEF SourceTexts, TextsOf
<1>2. CASE IsGlob(url)
  <2> DEFINE found == {n \in Listed(url) : GlobMatches(url.key, Objects[n].key)}
             q == Ascending(found)
  <2>1. found \subseteq DOMAIN Objects /\ found \subseteq ObjectsOf(url)
    BY <1>2 DEF IsGlob, Listed, ObjectsOf, AccessInv
  <2>2. ListGlob(url) = q
    BY DEF ListGlob
  <2>3. /\ DOMAIN q = 1 .. Len(q) /\ Len(q) \in Nat
        /\ \A i \in DOMAIN q : q[i] \in found
    <3>1. /\ q \in Seq(found) /\ DOMAIN q = 1 .. Len(q)
          /\ \A i \in DOMAIN q : q[i] \in found
      <4> HIDE DEF found
      <4> QED  BY <2>1, ListingOfObjects
    <3> HIDE DEF q, found
    <3> QED  BY <3>1
  <2> HIDE DEF q, found
  <2>4. SourceTexts(url) = [i \in 1 .. Len(q) |-> ObjectText(q[i])]
    BY <1>2, <2>2, <2>3 DEF SourceTexts
  <2>5. \A i \in 1 .. Len(q) : ObjectText(q[i]) \in TextsOf(url)
    BY <2>1, <2>3 DEF TextsOf
  <2> QED  BY <2>3, <2>4, <2>5
<1> QED  BY <1>1, <1>2

\* The stores of one path.
LEMMA StoresOfPath ==
  ASSUME AccessInv, ResolvePath
  PROVE  listers' \in Seq(BuiltStores) /\ sources' \in Seq(BuiltStores)
<1> DEFINE url == paths[at]
           texts == SourceTexts(url)
           reads == [i \in DOMAIN texts |-> BuildStore(at, texts[i])]
<1>1. at \in DOMAIN paths /\ url \in Url
  BY DEF AccessInv, ResolvePath
<1>2. texts \in Seq(TextsOf(url))
  BY <1>1, SourcesOfPath
<1>3. \A text \in TextsOf(url) : BuildStore(at, text) \in BuiltStores
  BY <1>1 DEF BuiltStores, StoresOf
<1>4. /\ listers' = IF IsGlob(url) THEN Append(listers, BuildStore(at, UrlText(url))) ELSE listers
      /\ sources' = sources \o reads
  BY DEF ResolvePath
<1>5. reads \in Seq(BuiltStores)
  <2> HIDE DEF texts, url
  <2>1. /\ DOMAIN texts = 1 .. Len(texts) /\ Len(texts) \in Nat
        /\ \A i \in DOMAIN texts : texts[i] \in TextsOf(url)
    BY <1>2
  <2>2. \A i \in 1 .. Len(texts) : reads[i] \in BuiltStores
    BY <1>3, <2>1
  <2>3. DOMAIN reads = 1 .. Len(texts) /\ reads = [i \in 1 .. Len(texts) |-> reads[i]]
    BY <2>1
  <2> HIDE DEF reads
  <2> QED  BY <2>1, <2>2, <2>3
<1>6. UrlText(url) \in TextsOf(url) /\ listers \in Seq(BuiltStores) /\ sources \in Seq(BuiltStores)
  BY DEF TextsOf, AccessInv
<1> HIDE DEF url, reads
<1>7. BuildStore(at, UrlText(url)) \in BuiltStores
  BY <1>3, <1>6
<1> QED  BY <1>4, <1>5, <1>6, <1>7

\* One step of the call, action by action.
LEMMA StepAccess == AccessInv /\ [Next]_vars => AccessInv'
<1> SUFFICES ASSUME AccessInv, [Next]_vars PROVE AccessInv'
  OBVIOUS
<1>1. CASE Bind
  <2>1. /\ UNCHANGED <<paths, arguments, allowInternal, secrets, world, at, listers, sources>>
        /\ listers = <<>> /\ sources = <<>>
        /\ phase' = "resolve" /\ known' = KnownSecrets
    BY <1>1 DEF Bind, AccessInv, KnownSecrets
  <2>2. KnownSecrets' = KnownSecrets
    BY <2>1 DEF KnownSecrets, SecretLookups
  <2>3. listers' \in Seq(BuiltStores') /\ sources' \in Seq(BuiltStores')
    BY <2>1
  <2> QED  BY <2>1, <2>2, <2>3 DEF AccessInv
<1>2. CASE ResolvePath
  <2>1. /\ UNCHANGED <<paths, arguments, allowInternal, secrets, world, phase, known>> /\ phase = "resolve"
        /\ at' = at + 1
    BY <1>2 DEF ResolvePath
  <2>2. KnownSecrets' = KnownSecrets /\ BuiltStores' = BuiltStores
    BY <2>1 DEF KnownSecrets, SecretLookups, BuiltStores, StoresOf, BuildStore
  <2>3. at' \in Nat \ {0}
    BY <2>1 DEF AccessInv
  <2>4. listers' \in Seq(BuiltStores) /\ sources' \in Seq(BuiltStores)
    BY <1>2, StoresOfPath
  <2> QED  BY <2>1, <2>2, <2>3, <2>4 DEF AccessInv
<1>3. CASE Refuse \/ Finish \/ Ended \/ UNCHANGED vars
  <2>1. /\ UNCHANGED <<paths, arguments, allowInternal, secrets, world, known, at, listers, sources>>
        /\ phase = "bind" <=> phase' = "bind"
    BY <1>3 DEF Refuse, Finish, Ended, vars
  <2>2. KnownSecrets' = KnownSecrets /\ BuiltStores' = BuiltStores
    BY <2>1 DEF KnownSecrets, SecretLookups, BuiltStores, StoresOf, BuildStore
  <2> QED  BY <2>1, <2>2 DEF AccessInv
<1> QED  BY <1>1, <1>2, <1>3 DEF Next

LEMMA AccessHolds == Spec => []AccessInv
BY InitAccess, StepAccess, PTL DEF Spec

\* A store was built for one of the URL's texts, and not before the bind.
LEMMA StoreIsBuilt ==
  ASSUME AccessInv, NEW store \in Stores
  PROVE  /\ phase # "bind"
         /\ \E i \in DOMAIN paths : \E text \in TextsOf(paths[i]) : store = BuildStore(i, text)
<1>1. \/ \E i \in DOMAIN listers : store = listers[i]
      \/ \E i \in DOMAIN sources : store = sources[i]
  BY Zenon DEF Stores, ToSet
<1>2. phase # "bind"
  BY <1>1 DEF AccessInv
<1>3. store \in BuiltStores
  BY <1>1 DEF AccessInv
<1> QED  BY <1>2, <1>3 DEF BuiltStores, StoresOf

---------------------------------------------------------------------------
(* Every store has the secret of its URL *)

\* The secrets the call was given are some of DuckDB's, among them the one that
\* matches each s3 URL it names.
LEMMA KnownForItsPaths ==
  ASSUME AccessInv, phase # "bind"
  PROVE  /\ known \in SUBSET secrets
         /\ \A i \in DOMAIN paths : paths[i].scheme = "s3" =>
              SecretFor(known, UrlText(paths[i])) = SecretFor(secrets, UrlText(paths[i]))
<1>1. paths \in Seq(Url) /\ ScopesTellApart(secrets) /\ known = KnownSecrets
  BY DEF AccessInv
<1>2. \A u \in SecretLookups : u \in Seq(STRING)
  BY <1>1, TextTypes DEF SecretLookups
<1>3. known \in SUBSET secrets
  <2>1. \A u \in SecretLookups : Matching(secrets, u) # {} => SecretFor(secrets, u) \in secrets
    BY <1>1, <1>2, LongestScope DEF Matching
  <2> QED  BY <1>1, <2>1 DEF KnownSecrets
<1>4. ASSUME NEW i \in DOMAIN paths, paths[i].scheme = "s3"
      PROVE  SecretFor(known, UrlText(paths[i])) = SecretFor(secrets, UrlText(paths[i]))
  <2> DEFINE text == UrlText(paths[i])
  <2>1. text \in SecretLookups
    BY <1>4 DEF SecretLookups
  <2>2. Matching(secrets, text) # {} => SecretFor(secrets, text) \in known
    BY <1>1, <2>1 DEF KnownSecrets
  <2> HIDE DEF text
  <2> QED  BY <1>1, <1>2, <1>3, <2>1, <2>2, FewerSecrets DEF text
<1> QED  BY <1>3, <1>4

\* The right secret per URL (cloud.rs:288-289), for all calls, buckets and
\* patterns whose wildcards lie below the scopes of the secrets.
THEOREM SecretsFit == Spec => []SecretOfItsUrl
<1>1. ASSUME AccessInv PROVE SecretOfItsUrl
  <2> SUFFICES ASSUME ScopesAboveGlobs, NEW store \in Stores, paths[store.path].scheme = "s3"
               PROVE  store.secret = SecretFor(secrets, store.text)
    BY DEF SecretOfItsUrl
  <2>1. PICK i \in DOMAIN paths : \E text \in TextsOf(paths[i]) : store = BuildStore(i, text)
    BY <1>1, StoreIsBuilt
  <2>2. PICK text \in TextsOf(paths[i]) : store = BuildStore(i, text)
    BY <2>1
  <2> DEFINE url == paths[i]
  <2>3. store.path = i /\ store.text = text /\ url.scheme = "s3" /\ store.secret = SecretFor(known, text)
    BY <2>2 DEF BuildStore
  <2>4. url \in Url /\ IsPattern(url.key) /\ ScopesTellApart(secrets) /\ UrlText(url) \in Seq(STRING)
    BY <1>1, TextTypes DEF AccessInv
  <2>5. known \in SUBSET secrets /\ SecretFor(known, UrlText(url)) = SecretFor(secrets, UrlText(url))
    BY <1>1, <2>3, KnownForItsPaths, StoreIsBuilt
  <2>6. CASE text = UrlText(url)
    BY <2>3, <2>5, <2>6
  <2>7. CASE text # UrlText(url)
    <3>1. PICK n \in ObjectsOf(url) : text = ObjectText(n)
      BY <2>2, <2>7 DEF TextsOf
    <3>2. /\ n \in DOMAIN Objects /\ HasWildcard(url) /\ IsGlob(url)
          /\ Objects[n].bucket = url.bucket /\ GlobMatches(url.key, Objects[n].key)
      BY <2>3 DEF ObjectsOf, IsGlob
    <3>3. \A secret \in secrets :
            ~ IsStrictPrefix(<<url.bucket>> \o GlobPrefix(url.key), secret.scope)
      BY <3>2 DEF ScopesAboveGlobs
    <3> HIDE DEF url
    <3>4. \A secret \in secrets :
            IsPrefix(secret.scope, ObjectText(n)) <=> IsPrefix(secret.scope, UrlText(url))
      BY <2>4, <3>2, <3>3, ScopeOfGlobAndObject DEF ScopesTellApart
    <3>5. /\ Matching(secrets, ObjectText(n)) = Matching(secrets, UrlText(url))
          /\ Matching(known, ObjectText(n)) = Matching(known, UrlText(url))
      BY <2>5, <3>4 DEF Matching
    <3>6. /\ SecretFor(secrets, ObjectText(n)) = SecretFor(secrets, UrlText(url))
          /\ SecretFor(known, ObjectText(n)) = SecretFor(known, UrlText(url))
      BY <3>5 DEF SecretFor
    <3> QED  BY <2>3, <2>5, <3>1, <3>6
  <2> QED  BY <2>6, <2>7
<1> QED  BY <1>1, AccessHolds, PTL

---------------------------------------------------------------------------
(* What the options of a store come to *)

OptionKeys == {"aws_access_key_id", "aws_region", "aws_endpoint",
               "aws_virtual_hosted_style_request", "aws_allow_http"}
Settings == {"given", "secret", "argument", Empty, "http", "https", "true", "false"}
Option == [key : OptionKeys, value : Settings]

\* A set of places in a sequence has a last one.
LEMMA LastPlace ==
  ASSUME NEW top \in Nat, NEW S \in SUBSET (1 .. top), S # {}
  PROVE  Max(S) \in S /\ \A y \in S : Max(S) >= y
<1> DEFINE Back == {top - i : i \in S}
<1>1. Back \subseteq Nat /\ Back # {}
  <2>1. \A i \in S : top - i \in Nat
    OBVIOUS
  <2> QED  BY <2>1, Zenon
<1>2. PICK d \in Back : \A e \in Back : d <= e
  <2> HIDE DEF Back
  <2> QED  BY <1>1, LeastNumber
<1>3. PICK x \in S : d = top - x
  OBVIOUS
<1>4. \A y \in S : x >= y
  <2> SUFFICES ASSUME NEW y \in S PROVE x >= y
    OBVIOUS
  <2>1. d <= top - y
    BY <1>2
  <2> QED  BY <1>3, <2>1
<1> QED  BY <1>3, <1>4 DEF Max

\* The last option with a key, if there is one, gives its value.
Holds(opts, key, value) ==
  IF \E i \in DOMAIN opts : opts[i].key = key
  THEN \E i \in DOMAIN opts : /\ opts[i].key = key /\ opts[i].value = value
                              /\ \A j \in DOMAIN opts : opts[j].key = key => j <= i
  ELSE value = "default"

LEMMA EffectiveIs ==
  ASSUME NEW opts \in Seq(Option), NEW key, NEW value
  PROVE  Holds(opts, key, value) <=> Effective(opts, key) = value
<1> DEFINE places == {i \in DOMAIN opts : opts[i].key = key}
<1>1. Len(opts) \in Nat /\ DOMAIN opts = 1 .. Len(opts)
  OBVIOUS
<1>2. Effective(opts, key) = IF places = {} THEN "default" ELSE opts[Max(places)].value
  BY DEF Effective
<1>3. CASE places = {}
  BY <1>2, <1>3 DEF Holds
<1>4. CASE places # {}
  <2>1. Max(places) \in places /\ \A j \in places : Max(places) >= j
    <3>1. places \in SUBSET (1 .. Len(opts))
      BY <1>1
    <3> HIDE DEF places
    <3> QED  BY <1>1, <1>4, <3>1, LastPlace
  <2> DEFINE last == Max(places)
  <2>2. last \in places /\ last \in 1 .. Len(opts) /\ \A j \in places : j <= last
    BY <1>1, <2>1
  <2> HIDE DEF last
  <2>3. ASSUME NEW i \in places, \A j \in places : j <= i PROVE i = last
    <3>1. i <= last /\ last <= i
      BY <2>2, <2>3
    <3> QED  BY <1>1, <2>2, <3>1
  <2>4. Effective(opts, key) = opts[last].value
    BY <1>2, <1>4 DEF last
  <2>5. Holds(opts, key, value) <=>
          \E i \in places : opts[i].value = value /\ \A j \in places : j <= i
    BY <1>4 DEF Holds
  <2> HIDE DEF places
  <2> QED  BY <2>2, <2>3, <2>4, <2>5
<1> QED  BY <1>3, <1>4

\* Of two values the later one, unless it is the default.
Over(later, earlier) == IF later # "default" THEN later ELSE earlier

\* Options that follow others override them.
LEMMA EffectiveOver ==
  ASSUME NEW a \in Seq(Option), NEW b \in Seq(Option), NEW key
  PROVE  /\ a \o b \in Seq(Option)
         /\ Effective(a \o b, key) = Over(Effective(b, key), Effective(a, key))
<1> DEFINE all == a \o b
           va == Effective(a, key)
           vb == Effective(b, key)
<1>1. /\ all \in Seq(Option) /\ Len(a) \in Nat /\ Len(b) \in Nat
      /\ DOMAIN all = 1 .. Len(a) + Len(b)
      /\ DOMAIN a = 1 .. Len(a) /\ DOMAIN b = 1 .. Len(b)
  OBVIOUS
<1>2. /\ \A i \in DOMAIN a : i \in DOMAIN all /\ all[i] = a[i]
      /\ \A i \in DOMAIN b : Len(a) + i \in DOMAIN all /\ all[Len(a) + i] = b[i]
      /\ \A i \in DOMAIN all : i \in DOMAIN a \/ (i - Len(a) \in DOMAIN b /\ i = Len(a) + (i - Len(a)))
  OBVIOUS
<1>3. Holds(a, key, va) /\ Holds(b, key, vb)
  BY EffectiveIs
<1> HIDE DEF all, va, vb
<1>4. CASE \E i \in DOMAIN b : b[i].key = key
  <2>1. PICK i \in DOMAIN b : /\ b[i].key = key /\ b[i].value = vb
                              /\ \A j \in DOMAIN b : b[j].key = key => j <= i
    BY <1>3, <1>4 DEF Holds
  <2>2. vb # "default"
    <3>1. b[i] \in Option
      OBVIOUS
    <3> QED  BY <2>1, <3>1 DEF Option, Settings, Empty
  <2>3. all[Len(a) + i].key = key /\ all[Len(a) + i].value = vb /\ Len(a) + i \in DOMAIN all
    BY <1>2, <2>1
  <2>4. ASSUME NEW j \in DOMAIN all, all[j].key = key PROVE j <= Len(a) + i
    <3>1. CASE j \in DOMAIN a
      BY <1>1, <3>1
    <3>2. CASE j - Len(a) \in DOMAIN b /\ j = Len(a) + (j - Len(a))
      <4>1. all[j] = b[j - Len(a)]
        BY <1>2, <3>2
      <4>2. j - Len(a) <= i
        BY <2>1, <2>4, <3>2, <4>1
      <4> QED  BY <1>1, <3>2, <4>2
    <3> QED  BY <1>2, <3>1, <3>2
  <2>5. Holds(all, key, vb)
    BY <2>3, <2>4 DEF Holds
  <2>6. Effective(all, key) = vb
    BY <1>1, <2>5, EffectiveIs
  <2> QED  BY <1>1, <2>2, <2>6 DEF Over, all, vb
<1>5. CASE ~ \E i \in DOMAIN b : b[i].key = key
  <2>1. vb = "default"
    BY <1>3, <1>5 DEF Holds
  <2>2. ASSUME NEW j \in DOMAIN all, all[j].key = key PROVE j \in DOMAIN a /\ a[j].key = key
    <3>1. CASE j - Len(a) \in DOMAIN b /\ j = Len(a) + (j - Len(a))
      BY <1>2, <1>5, <2>2, <3>1
    <3> QED  BY <1>2, <2>2, <3>1
  <2>3. Holds(all, key, va)
    <3>1. CASE \E i \in DOMAIN a : a[i].key = key
      <4>1. PICK i \in DOMAIN a : /\ a[i].key = key /\ a[i].value = va
                                  /\ \A j \in DOMAIN a : a[j].key = key => j <= i
        BY <1>3, <3>1 DEF Holds
      <4>2. i \in DOMAIN all /\ all[i].key = key /\ all[i].value = va
        BY <1>2, <4>1
      <4>3. \A j \in DOMAIN all : all[j].key = key => j <= i
        BY <2>2, <4>1
      <4> QED  BY <4>2, <4>3 DEF Holds
    <3>2. CASE ~ \E i \in DOMAIN a : a[i].key = key
      <4>1. va = "default"
        BY <1>3, <3>2 DEF Holds
      <4>2. ~ \E j \in DOMAIN all : all[j].key = key
        BY <2>2, <3>2
      <4> QED  BY <4>1, <4>2 DEF Holds
    <3> QED  BY <3>1, <3>2
  <2>4. Effective(all, key) = va
    BY <1>1, <2>3, EffectiveIs
  <2> QED  BY <1>1, <2>1, <2>4 DEF Over, all, va, vb
<1> QED  BY <1>4, <1>5

\* Options that give a value to one key, if the value is not the default.
SaysOnly(opts, k, value) ==
  /\ opts \in Seq(Option)
  /\ \A key : Effective(opts, key) = IF key = k THEN value ELSE "default"

LEMMA OneOption ==
  ASSUME NEW k \in OptionKeys, NEW value \in Settings
  PROVE  SaysOnly(<<[key |-> k, value |-> value]>>, k, value)
<1> DEFINE opt == [key |-> k, value |-> value]
<1>1. opt \in Option /\ opt.key = k /\ opt.value = value
  BY DEF Option
<1> HIDE DEF opt
<1>2. <<opt>> \in Seq(Option) /\ DOMAIN <<opt>> = {1} /\ <<opt>>[1] = opt /\ 1 <= 1
  BY <1>1
<1>3. Holds(<<opt>>, k, value) /\ \A key : key # k => Holds(<<opt>>, key, "default")
  BY <1>1, <1>2 DEF Holds
<1>4. \A key : Effective(<<opt>>, key) = IF key = k THEN value ELSE "default"
  BY <1>2, <1>3, EffectiveIs
<1> QED  BY <1>2, <1>4 DEF SaysOnly, opt

LEMMA NoOption == \A k : SaysOnly(<<>>, k, "default")
<1>1. <<>> \in Seq(Option) /\ DOMAIN <<>> = {}
  OBVIOUS
<1>2. \A key : Holds(<<>>, key, "default")
  BY <1>1 DEF Holds
<1>3. \A key : Effective(<<>>, key) = "default"
  BY <1>1, <1>2, EffectiveIs
<1> QED  BY <1>1, <1>3 DEF SaysOnly

\* Behind other options they override that key, and leave the others as they are.
Adds(all, a, k, value) ==
  /\ all \in Seq(Option)
  /\ \A key : Effective(all, key) = IF key = k THEN Over(value, Effective(a, key)) ELSE Effective(a, key)

LEMMA OptionAdded ==
  ASSUME NEW a \in Seq(Option), NEW b, NEW k, NEW value, SaysOnly(b, k, value)
  PROVE  Adds(a \o b, a, k, value)
<1>1. /\ a \o b \in Seq(Option)
      /\ \A key : Effective(a \o b, key) = Over(Effective(b, key), Effective(a, key))
  BY EffectiveOver DEF SaysOnly
<1>2. \A key : Effective(b, key) = IF key = k THEN value ELSE "default"
  BY DEF SaysOnly
<1>3. \A x : Over("default", x) = x
  BY DEF Over
<1> HIDE DEF Over
<1> QED  BY <1>1, <1>2, <1>3 DEF Adds

\* A value that is given, or the default.
Given(given, value) == IF given THEN value ELSE "default"

\* What the endpoint, the addressing style and the TLS switch of a secret, or of
\* the arguments, come to.
LEMMA ConnectionOptions ==
  ASSUME NEW from, NEW given
  PROVE  /\ SaysOnly(Endpoint(given, from), "aws_endpoint",
                     Given(given, NormalizeEndpoint(from.endpoint, from.use_ssl)))
         /\ SaysOnly(PathStyle(from), "aws_virtual_hosted_style_request",
                     Given(from.url_style = "path", "false"))
         /\ SaysOnly(AllowHttp(from), "aws_allow_http", Given(from.use_ssl = "false", "true"))
<1>1. /\ NormalizeEndpoint(from.endpoint, from.use_ssl) \in Settings
      /\ "true" \in Settings /\ "false" \in Settings
  BY DEF NormalizeEndpoint, Settings
<1>2. /\ "aws_endpoint" \in OptionKeys /\ "aws_allow_http" \in OptionKeys
      /\ "aws_virtual_hosted_style_request" \in OptionKeys
  BY DEF OptionKeys
<1>3. SaysOnly(Endpoint(given, from), "aws_endpoint",
               Given(given, NormalizeEndpoint(from.endpoint, from.use_ssl)))
  BY <1>1, <1>2, OneOption, NoOption DEF Endpoint, Pushed, Given
<1>4. SaysOnly(PathStyle(from), "aws_virtual_hosted_style_request",
               Given(from.url_style = "path", "false"))
  BY <1>1, <1>2, OneOption, NoOption DEF PathStyle, Pushed, Given
<1>5. SaysOnly(AllowHttp(from), "aws_allow_http", Given(from.use_ssl = "false", "true"))
  BY <1>1, <1>2, OneOption, NoOption DEF AllowHttp, Pushed, Given
<1> QED  BY <1>3, <1>4, <1>5

\* What the options of a secret come to.
SecretSays(opts, secret) ==
  /\ Effective(opts, "aws_region") = Given(NonEmpty(secret.region), secret.region)
  /\ Effective(opts, "aws_endpoint") =
       Given(NonEmpty(secret.endpoint), NormalizeEndpoint(secret.endpoint, secret.use_ssl))
  /\ Effective(opts, "aws_allow_http") = Given(secret.use_ssl = "false", "true")

LEMMA SecretOptions ==
  ASSUME NEW secret \in Fields
  PROVE  S3Options(secret) \in Seq(Option) /\ SecretSays(S3Options(secret), secret)
<1> DEFINE credentials == Pushed(NonEmpty(secret.credentials), "aws_access_key_id", secret.credentials)
           region == Pushed(NonEmpty(secret.region), "aws_region", secret.region)
           one == credentials \o region
           ends == Endpoint(NonEmpty(secret.endpoint), secret)
           two == one \o ends
           three == two \o PathStyle(secret)
<1>1. SaysOnly(credentials, "aws_access_key_id", Given(NonEmpty(secret.credentials), secret.credentials))
  <2>1. NonEmpty(secret.credentials) => secret.credentials \in Settings
    BY DEF NonEmpty, Fields, Settings
  <2>2. "aws_access_key_id" \in OptionKeys
    BY DEF OptionKeys
  <2> QED  BY <2>1, <2>2, OneOption, NoOption DEF Pushed, Given
<1>2. SaysOnly(region, "aws_region", Given(NonEmpty(secret.region), secret.region))
  <2>1. NonEmpty(secret.region) => secret.region \in Settings
    BY DEF NonEmpty, Fields, Settings
  <2>2. "aws_region" \in OptionKeys
    BY DEF OptionKeys
  <2> QED  BY <2>1, <2>2, OneOption, NoOption DEF Pushed, Given
<1>3. S3Options(secret) = three \o AllowHttp(secret)
  BY DEF S3Options
<1> DEFINE place == Given(NonEmpty(secret.region), secret.region)
           host == Given(NonEmpty(secret.endpoint), NormalizeEndpoint(secret.endpoint, secret.use_ssl))
           style == Given(secret.url_style = "path", "false")
           http == Given(secret.use_ssl = "false", "true")
<1>4. /\ SaysOnly(region, "aws_region", place)
      /\ SaysOnly(ends, "aws_endpoint", host)
      /\ SaysOnly(PathStyle(secret), "aws_virtual_hosted_style_request", style)
      /\ SaysOnly(AllowHttp(secret), "aws_allow_http", http)
  BY <1>2, ConnectionOptions
<1>5. SecretSays(S3Options(secret), secret) <=>
        /\ Effective(S3Options(secret), "aws_region") = place
        /\ Effective(S3Options(secret), "aws_endpoint") = host
        /\ Effective(S3Options(secret), "aws_allow_http") = http
  BY DEF SecretSays
<1> HIDE DEF credentials, region, ends, place, host, style, http
<1>6. /\ credentials \in Seq(Option)
      /\ \A key : key # "aws_access_key_id" => Effective(credentials, key) = "default"
  BY <1>1 DEF SaysOnly
<1>7. Adds(one, credentials, "aws_region", place)
  BY <1>4, <1>6, OptionAdded
<1> HIDE DEF one
<1>8. Adds(two, one, "aws_endpoint", host)
  BY <1>4, <1>7, OptionAdded DEF Adds
<1> HIDE DEF two
<1>9. Adds(three, two, "aws_virtual_hosted_style_request", style)
  BY <1>4, <1>8, OptionAdded DEF Adds
<1> HIDE DEF three
<1>10. Adds(S3Options(secret), three, "aws_allow_http", http)
  BY <1>3, <1>4, <1>9, OptionAdded DEF Adds
<1>11. \A value : Over(value, "default") = value
  BY DEF Over
<1> QED  BY <1>5, <1>6, <1>7, <1>8, <1>9, <1>10, <1>11 DEF Adds

\* What the options of the arguments come to.
ArgumentsSay(opts, args) ==
  /\ Effective(opts, "aws_region") = Given(args.region # Absent, args.region)
  /\ Effective(opts, "aws_endpoint") =
       Given(args.endpoint # Absent, NormalizeEndpoint(args.endpoint, args.use_ssl))
  /\ Effective(opts, "aws_allow_http") = Given(args.use_ssl = "false", "true")

LEMMA ArgumentOptions ==
  ASSUME NEW args \in Arguments
  PROVE  CloudOverrides(args) \in Seq(Option) /\ ArgumentsSay(CloudOverrides(args), args)
<1> DEFINE region == Pushed(args.region # Absent, "aws_region", args.region)
           ends == Endpoint(args.endpoint # Absent, args)
           one == ends \o region
           two == one \o PathStyle(args)
<1>1. SaysOnly(region, "aws_region", Given(args.region # Absent, args.region))
  <2>1. args.region # Absent => args.region \in Settings
    BY DEF Arguments, Settings, Absent
  <2>2. "aws_region" \in OptionKeys
    BY DEF OptionKeys
  <2> QED  BY <2>1, <2>2, OneOption, NoOption DEF Pushed, Given
<1>2. CloudOverrides(args) = two \o AllowHttp(args)
  BY DEF CloudOverrides
<1> DEFINE place == Given(args.region # Absent, args.region)
           host == Given(args.endpoint # Absent, NormalizeEndpoint(args.endpoint, args.use_ssl))
           style == Given(args.url_style = "path", "false")
           http == Given(args.use_ssl = "false", "true")
<1>3. /\ SaysOnly(region, "aws_region", place)
      /\ SaysOnly(ends, "aws_endpoint", host)
      /\ SaysOnly(PathStyle(args), "aws_virtual_hosted_style_request", style)
      /\ SaysOnly(AllowHttp(args), "aws_allow_http", http)
  BY <1>1, ConnectionOptions
<1>4. ArgumentsSay(CloudOverrides(args), args) <=>
        /\ Effective(CloudOverrides(args), "aws_region") = place
        /\ Effective(CloudOverrides(args), "aws_endpoint") = host
        /\ Effective(CloudOverrides(args), "aws_allow_http") = http
  BY DEF ArgumentsSay
<1> HIDE DEF region, ends, place, host, style, http
<1>5. /\ ends \in Seq(Option)
      /\ \A key : Effective(ends, key) = IF key = "aws_endpoint" THEN host ELSE "default"
  BY <1>3 DEF SaysOnly
<1>6. Adds(one, ends, "aws_region", place)
  BY <1>3, <1>5, OptionAdded
<1> HIDE DEF one
<1>7. Adds(two, one, "aws_virtual_hosted_style_request", style)
  BY <1>3, <1>6, OptionAdded DEF Adds
<1> HIDE DEF two
<1>8. Adds(CloudOverrides(args), two, "aws_allow_http", http)
  BY <1>2, <1>3, <1>7, OptionAdded DEF Adds
<1>9. \A value : Over(value, "default") = value
  BY DEF Over
<1>10. Effective(CloudOverrides(args), "aws_region") = place
  <2>1. Effective(one, "aws_region") = place
    BY <1>5, <1>6, <1>9 DEF Adds
  <2> QED  BY <1>7, <1>8, <2>1 DEF Adds
<1>11. Effective(CloudOverrides(args), "aws_endpoint") = host
  BY <1>5, <1>6, <1>7, <1>8 DEF Adds
<1>12. Effective(CloudOverrides(args), "aws_allow_http") = http
  BY <1>5, <1>6, <1>7, <1>8, <1>9 DEF Adds
<1> QED  BY <1>4, <1>5, <1>8, <1>10, <1>11, <1>12 DEF Adds

\* What the options of a store come to: the arguments over the secret's.
LEMMA StoreSays ==
  ASSUME AccessInv, NEW store \in Stores
  PROVE  /\ store.secret.fields \in Fields
         /\ \E own : /\ SecretSays(own, store.secret.fields)
                     /\ ArgumentsSay(CloudOverrides(arguments), arguments)
                     /\ \A key : Effective(store.opts, key) =
                          Over(Effective(CloudOverrides(arguments), key), Effective(own, key))
<1>1. PICK i \in DOMAIN paths : \E text \in TextsOf(paths[i]) : store = BuildStore(i, text)
  BY StoreIsBuilt
<1>2. PICK text \in TextsOf(paths[i]) : store = BuildStore(i, text)
  BY <1>1
<1>3. text \in Seq(STRING) /\ paths[i].scheme \in {"s3", "http"}
  <2>1. paths[i] \in Url
    BY DEF AccessInv
  <2>2. UrlText(paths[i]) \in Seq(STRING) /\ \A n \in DOMAIN Objects : ObjectText(n) \in Seq(STRING)
    BY <2>1, TextTypes
  <2> QED  BY <2>1, <2>2 DEF TextsOf, ObjectsOf, Url
<1>4. NoFields \in Fields /\ NoSecret.fields = NoFields
  BY DEF NoFields, Fields, NoSecret, Absent, Empty
<1>5. SecretFor(known, text).fields \in Fields
  <2>1. known \in SUBSET secrets
    BY KnownForItsPaths, StoreIsBuilt
  <2>2. ScopesTellApart(known) /\ \A secret \in known : secret.fields \in Fields
    BY <2>1 DEF AccessInv, ScopesTellApart
  <2>3. CASE Matching(known, text) = {}
    BY <1>4, <2>3 DEF SecretFor
  <2>4. CASE Matching(known, text) # {}
    BY <1>3, <2>2, <2>4, LongestScope DEF Matching
  <2> QED  BY <2>3, <2>4
<1>6. ArgumentsSay(CloudOverrides(arguments), arguments) /\ CloudOverrides(arguments) \in Seq(Option)
  BY ArgumentOptions DEF AccessInv
<1>7. CASE paths[i].scheme = "s3"
  <2>1. /\ store.secret = SecretFor(known, text)
        /\ store.opts = S3Options(store.secret.fields) \o CloudOverrides(arguments)
    BY <1>2, <1>7 DEF BuildStore, StoreOptions
  <2> DEFINE own == S3Options(store.secret.fields)
  <2>2. store.secret.fields \in Fields /\ own \in Seq(Option) /\ SecretSays(own, store.secret.fields)
    BY <1>5, <2>1, SecretOptions
  <2> HIDE DEF own
  <2>3. \A key : Effective(store.opts, key) =
                   Over(Effective(CloudOverrides(arguments), key), Effective(own, key))
    BY <1>6, <2>1, <2>2, EffectiveOver DEF own
  <2> QED  BY <1>6, <2>2, <2>3
<1>8. CASE paths[i].scheme = "http"
  <2>1. store.secret = NoSecret /\ store.opts = <<>> \o CloudOverrides(arguments)
    BY <1>2, <1>8 DEF BuildStore, StoreOptions
  <2> DEFINE own == <<>>
  <2>2. own \in Seq(Option)
    OBVIOUS
  <2>3. \A key : Effective(own, key) = "default"
    BY NoOption DEF SaysOnly
  <2>4. SecretSays(own, NoFields)
    <3>1. /\ ~ NonEmpty(NoFields.region) /\ ~ NonEmpty(NoFields.endpoint)
          /\ NoFields.use_ssl # "false"
      BY DEF NonEmpty, NoFields, Absent, Empty
    <3> QED  BY <2>3, <3>1 DEF SecretSays, Given
  <2>5. store.opts = own \o CloudOverrides(arguments)
    BY <2>1
  <2> HIDE DEF own
  <2>6. \A key : Effective(store.opts, key) =
                   Over(Effective(CloudOverrides(arguments), key), Effective(own, key))
    BY <1>6, <2>2, <2>5, EffectiveOver
  <2> QED  BY <1>4, <1>6, <2>1, <2>4, <2>6
<1> QED  BY <1>3, <1>7, <1>8

\* A region or an endpoint argument beats the secret's, and without one the
\* secret's own holds (options.rs:147-148, 154), for the store of any URL.
THEOREM ArgumentsOverride == Spec => []LocationOverrides
<1>1. ASSUME AccessInv PROVE LocationOverrides
  <2> SUFFICES ASSUME NEW store \in Stores
               PROVE
    LET secret == store.secret.fields
    IN /\ Effective(store.opts, "aws_region") =
            IF arguments.region # Absent THEN arguments.region
            ELSE IF NonEmpty(secret.region) THEN "secret" ELSE "default"
       /\ Effective(store.opts, "aws_endpoint") =
            IF arguments.endpoint # Absent THEN NormalizeEndpoint(arguments.endpoint, arguments.use_ssl)
            ELSE IF NonEmpty(secret.endpoint) THEN NormalizeEndpoint(secret.endpoint, secret.use_ssl)
            ELSE "default"
    BY DEF LocationOverrides
  <2> DEFINE secret == store.secret.fields
  <2>1. PICK own : /\ SecretSays(own, secret)
                   /\ ArgumentsSay(CloudOverrides(arguments), arguments)
                   /\ \A key : Effective(store.opts, key) =
                        Over(Effective(CloudOverrides(arguments), key), Effective(own, key))
    BY <1>1, StoreSays
  <2>2. secret \in Fields /\ arguments \in Arguments
    BY <1>1, StoreSays DEF AccessInv
  <2>3. /\ arguments.region # "default"
        /\ NonEmpty(secret.region) => secret.region = "secret"
    BY <2>2 DEF Fields, Arguments, NonEmpty, Absent, Empty
  <2>4. /\ NormalizeEndpoint(arguments.endpoint, arguments.use_ssl) # "default"
        /\ NormalizeEndpoint(secret.endpoint, secret.use_ssl) # "default"
    BY DEF NormalizeEndpoint
  <2> HIDE DEF secret
  <2>5. Effective(store.opts, "aws_region") =
          IF arguments.region # Absent THEN arguments.region
          ELSE IF NonEmpty(secret.region) THEN "secret" ELSE "default"
    BY <2>1, <2>3 DEF SecretSays, ArgumentsSay, Over, Given
  <2>6. Effective(store.opts, "aws_endpoint") =
          IF arguments.endpoint # Absent THEN NormalizeEndpoint(arguments.endpoint, arguments.use_ssl)
          ELSE IF NonEmpty(secret.endpoint) THEN NormalizeEndpoint(secret.endpoint, secret.use_ssl)
          ELSE "default"
    BY <2>1, <2>4 DEF SecretSays, ArgumentsSay, Over, Given
  <2> QED  BY <2>5, <2>6 DEF secret
<1> QED  BY <1>1, AccessHolds, PTL

\* An http endpoint the builder refuses was written so, by the argument or else by
\* the secret, and neither says use_ssl => false (options.rs:103-107, 167-168,
\* cloud.rs:253); and every endpoint written so without the switch is refused.
THEOREM HttpIsAllowed == Spec => []PlainHttpIsAllowed
<1>1. ASSUME AccessInv PROVE PlainHttpIsAllowed
  <2> SUFFICES ASSUME NEW store \in Stores
               PROVE
    LET secret == store.secret.fields
        written == IF arguments.endpoint # Absent THEN arguments.endpoint ELSE secret.endpoint
    IN (/\ Effective(store.opts, "aws_endpoint") = "http"
        /\ Effective(store.opts, "aws_allow_http") # "true")
         <=> written = "http" /\ "false" \notin {arguments.use_ssl, secret.use_ssl}
    BY DEF PlainHttpIsAllowed
  <2> DEFINE secret == store.secret.fields
             written == IF arguments.endpoint # Absent THEN arguments.endpoint ELSE secret.endpoint
             switched == "false" \in {arguments.use_ssl, secret.use_ssl}
             endpoint == Effective(store.opts, "aws_endpoint")
             allow == Effective(store.opts, "aws_allow_http")
  <2>1. PICK own : /\ SecretSays(own, secret)
                   /\ ArgumentsSay(CloudOverrides(arguments), arguments)
                   /\ \A key : Effective(store.opts, key) =
                        Over(Effective(CloudOverrides(arguments), key), Effective(own, key))
    BY <1>1, StoreSays
  <2> HIDE DEF secret
  <2>2. allow = "true" <=> switched
    BY <2>1 DEF ArgumentsSay, SecretSays, Over, Given
  <2>3. ~ switched => (endpoint = "http" <=> written = "http")
    <3> SUFFICES ASSUME ~ switched PROVE endpoint = "http" <=> written = "http"
      OBVIOUS
    <3>1. /\ NormalizeEndpoint(arguments.endpoint, arguments.use_ssl) = "http"
               <=> arguments.endpoint = "http"
          /\ NormalizeEndpoint(secret.endpoint, secret.use_ssl) = "http" <=> secret.endpoint = "http"
          /\ NormalizeEndpoint(arguments.endpoint, arguments.use_ssl) # "default"
      BY DEF NormalizeEndpoint
    <3>2. CASE arguments.endpoint # Absent
      BY <2>1, <3>1, <3>2 DEF ArgumentsSay, Over, Given
    <3>3. CASE arguments.endpoint = Absent
      <4>1. endpoint = Given(NonEmpty(secret.endpoint), NormalizeEndpoint(secret.endpoint, secret.use_ssl))
        BY <2>1, <3>3 DEF ArgumentsSay, SecretSays, Over, Given
      <4>2. secret.endpoint = "http" => NonEmpty(secret.endpoint)
        BY DEF NonEmpty, Absent, Empty
      <4> QED  BY <3>1, <3>3, <4>1, <4>2 DEF Given
    <3> QED  BY <3>2, <3>3
  <2> QED  BY <2>2, <2>3 DEF secret
<1> QED  BY <1>1, AccessHolds, PTL

---------------------------------------------------------------------------
(* Listing under a prefix finds the sources that Resolution gives the call *)

\* An object is known by its text.
LEMMA TextsTellApart ==
  /\ \A m, n \in DOMAIN Objects : ObjectText(m) = ObjectText(n) => m = n
  /\ \A n \in DOMAIN Objects, url \in Url :
       ObjectText(n) = UrlText(url) <=>
         /\ Objects[n].bucket = url.bucket
         /\ Len(Objects[n].key) = Len(url.key)
         /\ \A i \in 1 .. Len(url.key) : Objects[n].key[i] = url.key[i].text
<1>1. ASSUME NEW m \in DOMAIN Objects, NEW n \in DOMAIN Objects, ObjectText(m) = ObjectText(n)
      PROVE  m = n
  <2> DEFINE a == Objects[m].key
             b == Objects[n].key
  <2>0. a \in Seq(STRING) /\ b \in Seq(STRING) /\ Len(ObjectText(m)) = Len(ObjectText(n))
    BY <1>1, TextTypes
  <2>1. /\ Len(a) \in Nat /\ Len(b) \in Nat
        /\ 1 + Len(a) = 1 + Len(b)
        /\ Objects[m].bucket = Objects[n].bucket
        /\ \A i \in 1 .. Len(a) : ObjectText(m)[1 + i] = a[i]
        /\ \A i \in 1 .. Len(b) : ObjectText(n)[1 + i] = b[i]
    <3>1. Len(a) \in Nat /\ Len(b) \in Nat
      BY <2>0
    <3>2. 1 + Len(a) = 1 + Len(b)
      <4>1. 1 + Len(a) = Len(ObjectText(m)) /\ 1 + Len(b) = Len(ObjectText(n))
        BY TextTypes
      <4> QED  BY <1>1, <4>1
    <3>3. Objects[m].bucket = Objects[n].bucket
      <4>1. ObjectText(m)[1] = Objects[m].bucket /\ ObjectText(n)[1] = Objects[n].bucket
        BY TextTypes
      <4> QED  BY <1>1, <4>1
    <3>4. /\ \A i \in 1 .. Len(a) : ObjectText(m)[1 + i] = a[i]
          /\ \A i \in 1 .. Len(b) : ObjectText(n)[1 + i] = b[i]
      BY TextTypes, Zenon
    <3> QED  BY <3>1, <3>2, <3>3, <3>4
  <2> HIDE DEF a, b
  <2>2. Len(a) = Len(b) /\ \A i \in 1 .. Len(a) : a[i] = b[i]
    BY <1>1, <2>1
  <2>3. a = b
    BY <2>0, <2>1, <2>2
  <2>4. Objects[m] = Objects[n]
    <3> DEFINE Object == [bucket : STRING, key : Seq(STRING)]
    <3>1. Objects[m] \in Object /\ Objects[n] \in Object
      <4>1. Objects \in Seq(Object)
        BY PlacesOfObjects
      <4> HIDE DEF Object
      <4> QED  BY <4>1
    <3> QED  BY <2>1, <2>3, <3>1 DEF a, b
  <2> QED  BY <2>4, ObjectsAssumption
<1>2. ASSUME NEW n \in DOMAIN Objects, NEW url \in Url
      PROVE  ObjectText(n) = UrlText(url) <=>
               /\ Objects[n].bucket = url.bucket
               /\ Len(Objects[n].key) = Len(url.key)
               /\ \A i \in 1 .. Len(url.key) : Objects[n].key[i] = url.key[i].text
  <2> DEFINE t == ObjectText(n)
             u == UrlText(url)
             key == Objects[n].key
             pattern == url.key
  <2>1. /\ t \in Seq(STRING) /\ u \in Seq(STRING) /\ Len(key) \in Nat /\ Len(pattern) \in Nat
        /\ Len(t) = 1 + Len(key) /\ Len(u) = 1 + Len(pattern)
        /\ t[1] = Objects[n].bucket /\ u[1] = url.bucket
        /\ \A i \in 1 .. Len(key) : t[1 + i] = key[i]
        /\ \A i \in 1 .. Len(pattern) : u[1 + i] = pattern[i].text
    <3>1. key \in Seq(STRING) /\ pattern \in Seq(Segments)
      BY TextTypes DEF Url
    <3>2. Len(key) \in Nat /\ Len(pattern) \in Nat
      BY <3>1
    <3> QED  BY <3>2, TextTypes
  <2> HIDE DEF t, u, key, pattern
  <2>2. ASSUME t = u
        PROVE  /\ Objects[n].bucket = url.bucket /\ Len(key) = Len(pattern)
               /\ \A i \in 1 .. Len(pattern) : key[i] = pattern[i].text
    BY <2>1, <2>2
  <2>3. ASSUME Objects[n].bucket = url.bucket, Len(key) = Len(pattern),
               \A i \in 1 .. Len(pattern) : key[i] = pattern[i].text
        PROVE  t = u
    <3>1. ASSUME NEW i \in 1 .. 1 + Len(key) PROVE t[i] = u[i]
      <4>1. CASE i = 1
        BY <2>1, <2>3, <4>1
      <4>2. CASE i # 1
        <5>1. i - 1 \in 1 .. Len(key) /\ 1 + (i - 1) = i
          BY <2>1, <4>2
        <5>2. t[1 + (i - 1)] = key[i - 1] /\ u[1 + (i - 1)] = pattern[i - 1].text
          BY <2>1, <2>3, <5>1
        <5> QED  BY <2>3, <5>1, <5>2
      <4> QED  BY <4>1, <4>2
    <3> QED  BY <2>1, <2>3, <3>1
  <2> QED  BY <2>2, <2>3 DEF t, u, key, pattern
<1> QED  BY <1>1, <1>2

\* What Resolution finds for a URL.
FilesOf(url) == ResolveLocations(AsPath(url), world).files

\* A glob, or the URL of an object.
NamesObjects(url) ==
  IsGlob(url) \/ \E n \in DOMAIN Objects : ObjectText(n) = UrlText(url)

\* A URL finds these objects: they are what Resolution finds, without an error,
\* and their texts are the sources.
Finds(url, files) ==
  /\ ResolveLocations(AsPath(url), world) = Found(files)
  /\ files \in Seq(DOMAIN Objects)
  /\ SourceTexts(url) = [i \in DOMAIN files |-> ObjectText(files[i])]

\* The keys a glob matches are below the prefix it is listed under.
LEMMA GlobFinds ==
  ASSUME AccessInv, NEW url \in Url, IsPattern(url.key), IsGlob(url)
  PROVE  Finds(url, ListGlob(url))
<1> DEFINE listed == {n \in Listed(url) : GlobMatches(url.key, Objects[n].key)}
           path == AsPath(url)
<1>1. world \subseteq DOMAIN Objects
  BY DEF AccessInv
<1>2. ASSUME NEW n \in DOMAIN Objects, GlobMatches(url.key, Objects[n].key)
      PROVE  Below(GlobPrefix(url.key), Objects[n].key)
  <2> DEFINE pattern == url.key
             key == Objects[n].key
             head == HeadLength(pattern)
  <2>1. IsPattern(pattern) /\ key \in Seq(STRING) /\ GlobMatches(pattern, key) /\ WildAt(pattern) # {}
    BY <1>2, TextTypes DEF IsGlob, HasWildcard
  <2> HIDE DEF pattern, key
  <2>2. head \in Nat /\ head < Len(key) /\ \A i \in 1 .. head : key[i] = pattern[i].text
    BY <2>1, HeadIsLiteral, MatchesBeginAlike
  <2>3. GlobPrefix(pattern) = [i \in 1 .. head |-> pattern[i].text]
    BY DEF GlobPrefix
  <2> HIDE DEF head
  <2>4. Len(GlobPrefix(pattern)) = head /\ \A i \in 1 .. head : GlobPrefix(pattern)[i] = pattern[i].text
    BY <2>2, <2>3
  <2> QED  BY <2>2, <2>4 DEF Below, pattern, key
<1>3. /\ path.scheme = "s3" /\ path.wild
      /\ path.names = {n \in DOMAIN Objects : /\ Objects[n].bucket = url.bucket
                                              /\ GlobMatches(url.key, Objects[n].key)}
  BY DEF AsPath, IsGlob
<1>4. path.names \cap world = listed
  BY <1>1, <1>2, <1>3 DEF Listed
<1>5. ResolveLocations(path, world) = Found(Ascending(path.names \cap world))
  BY <1>3 DEF ResolveLocations, Matches
<1>6. ListGlob(url) = Ascending(listed)
  BY DEF ListGlob
<1>7. listed \in SUBSET DOMAIN Objects
  BY <1>1 DEF Listed
<1>8. ListGlob(url) \in Seq(DOMAIN Objects)
  <2> HIDE DEF listed
  <2>1. Ascending(listed) \in Seq(listed)
    BY <1>7, ListingOfObjects
  <2> QED  BY <1>6, <1>7, <2>1
<1>9. SourceTexts(url) = [i \in DOMAIN ListGlob(url) |-> ObjectText(ListGlob(url)[i])]
  BY DEF SourceTexts
<1> QED  BY <1>4, <1>5, <1>6, <1>8, <1>9 DEF Finds

\* Any other URL finds the one object it names.
LEMMA LiteralFinds ==
  ASSUME AccessInv, NEW url \in Url, IsPattern(url.key), ~ IsGlob(url),
         NEW n \in DOMAIN Objects, ObjectText(n) = UrlText(url)
  PROVE  Finds(url, <<n>>)
<1> DEFINE path == AsPath(url)
<1>1. \A m \in DOMAIN Objects : ObjectText(m) = UrlText(url) <=> m = n
  BY TextsTellApart
<1>2. url.scheme \in {"s3", "http"}
  BY DEF Url
<1>3. path.names = {n}
  <2>1. CASE url.scheme = "s3"
    <3>1. WildAt(url.key) = {}
      BY <2>1 DEF IsGlob, HasWildcard
    <3>2. \A m \in DOMAIN Objects :
            /\ Objects[m].key \in Seq(STRING)
            /\ GlobMatches(url.key, Objects[m].key) <=>
                 /\ Len(Objects[m].key) = Len(url.key)
                 /\ \A i \in 1 .. Len(url.key) : Objects[m].key[i] = url.key[i].text
      BY <3>1, LiteralMatches, TextTypes
    <3>3. \A m \in DOMAIN Objects :
            Objects[m].bucket = url.bucket /\ GlobMatches(url.key, Objects[m].key) <=> m = n
      BY <1>1, <3>2, TextsTellApart
    <3>4. path.names = {m \in DOMAIN Objects : /\ Objects[m].bucket = url.bucket
                                               /\ GlobMatches(url.key, Objects[m].key)}
      BY <2>1 DEF AsPath
    <3> QED  BY <3>3, <3>4
  <2>2. CASE url.scheme = "http"
    <3>1. path.names = {m \in DOMAIN Objects : ObjectText(m) = UrlText(url)}
      BY <2>2 DEF AsPath
    <3> QED  BY <1>1, <3>1
  <2> QED  BY <1>2, <2>1, <2>2
<1>4. path.scheme = url.scheme /\ path.wild = HasWildcard(url)
  BY DEF AsPath
<1>5. ~ (path.scheme = "s3" /\ path.wild)
  BY <1>4 DEF IsGlob
<1>6. Ascending({n}) = <<n>>
  BY PlacesOfObjects, AscendingOne
<1>7. ResolveLocations(path, world) = Found(<<n>>)
  BY <1>2, <1>3, <1>4, <1>5, <1>6 DEF ResolveLocations
<1>8. SourceTexts(url) = <<ObjectText(n)>> /\ [i \in DOMAIN <<n>> |-> ObjectText(<<n>>[i])] = <<ObjectText(n)>>
  BY DEF SourceTexts
<1>9. <<n>> \in Seq(DOMAIN Objects)
  OBVIOUS
<1> QED  BY <1>7, <1>8, <1>9 DEF Finds

LEMMA UrlFinds ==
  ASSUME AccessInv, NEW url \in Url, IsPattern(url.key), NamesObjects(url)
  PROVE  Finds(url, FilesOf(url))
<1>1. \E files : Finds(url, files)
  BY GlobFinds, LiteralFinds DEF NamesObjects
<1>2. PICK files : Finds(url, files)
  BY <1>1
<1>3. FilesOf(url) = files
  BY <1>2 DEF FilesOf, Finds, Found
<1> QED  BY <1>2, <1>3

\* Stores that read these objects, in this order.
Read(stores, files) ==
  /\ Len(stores) = Len(files)
  /\ \A i \in 1 .. Len(files) : stores[i].text = ObjectText(files[i])

\* The listings of the first k paths.
ListingsTo(k) == [i \in 1 .. k |-> FilesOf(paths[i])]

\* The sources read what the paths resolved so far are found to be.
ListingInv ==
  /\ \A i \in DOMAIN paths : NamesObjects(paths[i]) \/ Refused(paths[i])
  /\ at <= Len(paths) + 1
  /\ phase = "resolved" => at = Len(paths) + 1
  /\ \A i \in 1 .. at - 1 : ~ Refused(paths[i])
  /\ Read(sources, FlattenSeq(ListingsTo(at - 1)))

LEMMA InitListing == Init => ListingInv
<1> SUFFICES ASSUME Init PROVE ListingInv
  OBVIOUS
<1>1. PICK c \in Cases : paths = c.paths /\ allowInternal = c.allowInternal
  BY DEF Init
<1>2. paths \in Seq(Url) /\ Len(paths) \in Nat
  BY <1>1, CasesAssumption
<1>3. \A i \in DOMAIN paths : NamesObjects(paths[i]) \/ Refused(paths[i])
  <2>1. allowInternal = c.allowInternal
    BY <1>1
  <2> QED  BY <1>1, <2>1, CasesAssumption DEF NamesObjects, Refused
<1>4. phase = "bind" /\ at = 1 /\ sources = <<>>
  BY DEF Init
<1>5. Read(sources, FlattenSeq(ListingsTo(at - 1)))
  <2>1. ListingsTo(at - 1) = <<>>
    BY <1>4 DEF ListingsTo
  <2> QED  BY <1>4, <2>1, FlattenEmpty DEF Read
<1> QED  BY <1>2, <1>3, <1>4, <1>5 DEF ListingInv

\* The paths resolved so far find what Resolution finds.
LEMMA PathsFind ==
  ASSUME AccessInv, ListingInv, NEW i \in DOMAIN paths, ~ Refused(paths[i])
  PROVE  Finds(paths[i], FilesOf(paths[i]))
<1>1. paths[i] \in Url /\ IsPattern(paths[i].key) /\ NamesObjects(paths[i])
  BY DEF AccessInv, ListingInv
<1> QED  BY <1>1, UrlFinds

LEMMA ListingsAreObjects ==
  ASSUME AccessInv, ListingInv
  PROVE  /\ at - 1 \in Nat /\ ListingsTo(at - 1) \in Seq(Seq(DOMAIN Objects))
         /\ FlattenSeq(ListingsTo(at - 1)) \in Seq(DOMAIN Objects)
<1>1. /\ at \in Nat /\ at - 1 \in Nat /\ at <= Len(paths) + 1
      /\ Len(paths) \in Nat /\ DOMAIN paths = 1 .. Len(paths)
  BY DEF AccessInv, ListingInv
<1>2. ASSUME NEW i \in 1 .. at - 1 PROVE FilesOf(paths[i]) \in Seq(DOMAIN Objects)
  <2>1. i \in DOMAIN paths
    BY <1>1
  <2>2. ~ Refused(paths[i])
    BY Zenon DEF ListingInv
  <2> QED  BY <2>1, <2>2, PathsFind DEF Finds
<1>3. ListingsTo(at - 1) \in Seq(Seq(DOMAIN Objects))
  <2> DEFINE S == Seq(DOMAIN Objects)
             lists == ListingsTo(at - 1)
  <2>1. lists \in [1 .. at - 1 -> S]
    BY <1>2 DEF ListingsTo
  <2> HIDE DEF S, lists
  <2>2. lists \in Seq(S)
    BY <1>1, <2>1
  <2> QED  BY <2>2 DEF S, lists
<1> QED  BY <1>1, <1>3, FlattenInOrder

\* The sources of one more path read what it is found to be.
LEMMA ListingStep ==
  ASSUME AccessInv, ListingInv, ResolvePath
  PROVE  Read(sources', FlattenSeq(ListingsTo(at)))
<1> DEFINE url == paths[at]
           texts == SourceTexts(url)
           reads == [i \in DOMAIN texts |-> BuildStore(at, texts[i])]
           files == FilesOf(url)
           lists == ListingsTo(at - 1)
           before == FlattenSeq(lists)
<1>1. /\ at \in DOMAIN paths /\ ~ Refused(url) /\ at \in Nat /\ at - 1 \in Nat
      /\ sources' = sources \o reads
  BY DEF AccessInv, ResolvePath
<1>2. /\ files \in Seq(DOMAIN Objects)
      /\ texts = [i \in DOMAIN files |-> ObjectText(files[i])]
  BY <1>1, PathsFind DEF Finds
<1>3. /\ lists \in Seq(Seq(DOMAIN Objects)) /\ before \in Seq(DOMAIN Objects)
      /\ Read(sources, before)
  BY ListingsAreObjects DEF ListingInv
<1>4. ListingsTo(at) = Append(lists, files)
  <2> DEFINE more == ListingsTo(at)
  <2>1. /\ lists = [i \in 1 .. at - 1 |-> FilesOf(paths[i])]
        /\ more = [i \in 1 .. at |-> FilesOf(paths[i])]
    BY DEF ListingsTo
  <2> HIDE DEF lists, files, more, url
  <2>2. Len(lists) = at - 1 /\ Len(more) = at
    BY <1>1, <2>1
  <2>3. \A i \in 1 .. at : more[i] = Append(lists, files)[i]
    <3> SUFFICES ASSUME NEW i \in 1 .. at PROVE more[i] = Append(lists, files)[i]
      OBVIOUS
    <3>1. CASE i = at
      BY <1>1, <1>3, <2>1, <2>2, <3>1 DEF files, url
    <3>2. CASE i # at
      <4>1. i \in 1 .. at - 1
        BY <1>1, <3>2
      <4> QED  BY <1>1, <1>3, <2>1, <2>2, <4>1
    <3> QED  BY <3>1, <3>2
  <2>4. Append(lists, files) \in Seq(Seq(DOMAIN Objects)) /\ Len(Append(lists, files)) = at
    BY <1>1, <1>2, <1>3, <2>2
  <2>5. more = Append(lists, files)
    <3>1. DOMAIN more = 1 .. at /\ more = [i \in 1 .. at |-> more[i]]
      BY <2>1
    <3> DEFINE longer == Append(lists, files)
    <3>2. longer \in Seq(Seq(DOMAIN Objects)) /\ Len(longer) = at
      BY <2>4
    <3> HIDE DEF longer
    <3>3. longer = [i \in 1 .. at |-> longer[i]]
      BY <3>2
    <3>4. \A i \in 1 .. at : more[i] = longer[i]
      BY <2>3 DEF longer
    <3>5. more = longer
      BY <3>1, <3>3, <3>4
    <3> QED  BY <3>5 DEF longer
  <2> QED  BY <2>5 DEF more
<1>5. FlattenSeq(ListingsTo(at)) = before \o files
  <2> HIDE DEF lists, files
  <2> QED  BY <1>2, <1>3, <1>4, FlattenAppend
<1>6. /\ DOMAIN reads = 1 .. Len(files) /\ Len(files) \in Nat
      /\ \A i \in 1 .. Len(files) : reads[i].text = ObjectText(files[i])
  <2>1. \A text : BuildStore(at, text).text = text
    BY DEF BuildStore
  <2>2. DOMAIN files = 1 .. Len(files) /\ Len(files) \in Nat /\ DOMAIN texts = DOMAIN files
    BY <1>2
  <2> HIDE DEF files
  <2>3. \A i \in 1 .. Len(files) : texts[i] = ObjectText(files[i])
    BY <1>2, <2>2
  <2> HIDE DEF texts
  <2> QED  BY <2>1, <2>2, <2>3
<1>7. sources \in Seq(BuiltStores) /\ Len(reads) = Len(files)
  <2> HIDE DEF reads, files
  <2> QED  BY <1>6 DEF AccessInv
<1>8. reads \in Seq({reads[i] : i \in 1 .. Len(files)})
  <2>1. \A i \in 1 .. Len(files) : reads[i] \in {reads[j] : j \in 1 .. Len(files)}
    BY Zenon
  <2>2. reads = [i \in 1 .. Len(files) |-> reads[i]]
    BY <1>6
  <2> DEFINE T == {reads[j] : j \in 1 .. Len(files)}
  <2> HIDE DEF T, files, reads
  <2>3. reads \in [1 .. Len(files) -> T]
    BY <2>1, <2>2 DEF T
  <2>4. reads \in Seq(T)
    BY <1>6, <2>3
  <2> QED  BY <2>4 DEF T
<1> HIDE DEF reads, files, before, lists
<1>9. Read(sources \o reads, before \o files)
  <2> DEFINE T == BuiltStores \cup {reads[i] : i \in 1 .. Len(files)}
             all == before \o files
  <2>1. sources \in Seq(T) /\ reads \in Seq(T)
    <3>1. BuiltStores \subseteq T /\ {reads[i] : i \in 1 .. Len(files)} \subseteq T
      OBVIOUS
    <3> HIDE DEF T
    <3> QED  BY <1>7, <1>8, <3>1
  <2> HIDE DEF T
  <2>2. /\ Len(sources) \in Nat /\ Len(before) = Len(sources)
        /\ \A i \in 1 .. Len(before) : sources[i].text = ObjectText(before[i])
    BY <1>3, <2>1 DEF Read
  <2>3. /\ Len(sources \o reads) = Len(sources) + Len(files)
        /\ Len(all) = Len(sources) + Len(files)
    <3>1. Len(sources \o reads) = Len(sources) + Len(reads)
      BY <2>1
    <3>2. Len(all) = Len(before) + Len(files)
      BY <1>2, <1>3
    <3> QED  BY <1>7, <2>2, <3>1, <3>2
  <2>4. ASSUME NEW i \in 1 .. Len(sources) + Len(files)
        PROVE  (sources \o reads)[i].text = ObjectText(all[i])
    <3>1. (sources \o reads)[i] = IF i <= Len(sources) THEN sources[i] ELSE reads[i - Len(sources)]
      BY <1>6, <1>7, <2>1, <2>2
    <3>2. all[i] = IF i <= Len(before) THEN before[i] ELSE files[i - Len(before)]
      <4>1. i \in 1 .. Len(before) + Len(files)
        BY <2>2
      <4> QED  BY <1>2, <1>3, <4>1
    <3>3. CASE i <= Len(sources)
      <4>1. i \in 1 .. Len(before)
        BY <1>6, <2>2, <3>3
      <4> QED  BY <2>2, <3>1, <3>2, <3>3, <4>1
    <3>4. CASE ~ (i <= Len(sources))
      <4>1. i - Len(sources) \in 1 .. Len(files)
        BY <1>6, <2>2, <3>4
      <4> QED  BY <1>6, <2>2, <3>1, <3>2, <3>4, <4>1
    <3> QED  BY <3>3, <3>4
  <2> HIDE DEF all
  <2> QED  BY <2>3, <2>4 DEF Read, all
<1> QED  BY <1>1, <1>5, <1>9

LEMMA StepListing == AccessInv /\ ListingInv /\ [Next]_vars => ListingInv'
<1> SUFFICES ASSUME AccessInv, ListingInv, [Next]_vars PROVE ListingInv'
  OBVIOUS
<1>0. at \in Nat \ {0} /\ Len(paths) \in Nat /\ DOMAIN paths = 1 .. Len(paths)
  BY DEF AccessInv
<1>1. CASE ResolvePath
  <2>1. /\ UNCHANGED <<paths, allowInternal, world, phase>> /\ phase = "resolve" /\ at' = at + 1
        /\ at <= Len(paths) /\ ~ Refused(paths[at])
    BY <1>1 DEF ResolvePath
  <2>2. /\ \A url : (FilesOf(url))' = FilesOf(url)
        /\ \A k : (ListingsTo(k))' = ListingsTo(k)
    BY <2>1 DEF FilesOf, ListingsTo
  <2>3. (ListingsTo(at - 1))' = ListingsTo(at)
    <3>1. at' - 1 = at
      BY <1>0, <2>1
    <3>2. (ListingsTo(at - 1))' = ListingsTo(at' - 1)
      BY <2>1, <2>2 DEF ListingsTo, FilesOf
    <3> QED  BY <3>1, <3>2
  <2>4. Read(sources', FlattenSeq((ListingsTo(at - 1))'))
    BY <1>1, <2>3, ListingStep
  <2>5. \A i \in 1 .. at' - 1 : ~ Refused(paths[i])
    <3> SUFFICES ASSUME NEW i \in 1 .. at' - 1 PROVE ~ Refused(paths[i])
      OBVIOUS
    <3>1. i = at \/ i \in 1 .. at - 1
      BY <1>0, <2>1
    <3> QED  BY <2>1, <3>1 DEF ListingInv
  <2>6. at' <= Len(paths) + 1
    BY <1>0, <2>1
  <2> QED  BY <2>1, <2>4, <2>5, <2>6 DEF ListingInv, Read, Refused
<1>2. CASE ~ ResolvePath
  <2>1. /\ UNCHANGED <<paths, allowInternal, world, at, sources>>
        /\ phase' = "resolved" => phase = "resolved" \/ at > Len(paths)
    BY <1>2 DEF Next, Bind, Refuse, Finish, Ended, vars
  <2>2. (ListingsTo(at - 1))' = ListingsTo(at - 1)
    BY <2>1 DEF ListingsTo, FilesOf
  <2>3. phase' = "resolved" => at = Len(paths) + 1
    BY <1>0, <2>1 DEF ListingInv
  <2>4. Read(sources', FlattenSeq((ListingsTo(at - 1))'))
    BY <2>1, <2>2 DEF ListingInv
  <2> QED  BY <2>1, <2>3, <2>4 DEF ListingInv, Read, Refused
<1> QED  BY <1>1, <1>2

\* Listing under the prefix misses no object and adds none (reader.rs:143-149):
\* the sources of a call that is not refused are those Resolution gives its
\* paths, in that order, for all buckets, patterns and calls.
THEOREM ListingsResolve == Spec => []ListingIsResolution
<1>1. ASSUME AccessInv, ListingInv PROVE ListingIsResolution
  <2> SUFFICES ASSUME phase = "resolved"
               PROVE  LET files == ResolvePaths([i \in DOMAIN paths |-> AsPath(paths[i])], world).files
                      IN [i \in DOMAIN sources |-> sources[i].text] =
                           [i \in DOMAIN files |-> ObjectText(files[i])]
    BY DEF ListingIsResolution
  <2> DEFINE asked == [i \in DOMAIN paths |-> AsPath(paths[i])]
             each == [i \in DOMAIN asked |-> ResolveLocations(asked[i], world)]
             wrong == {i \in DOMAIN asked : each[i].error # "none"}
             files == FlattenSeq(ListingsTo(at - 1))
  <2>1. at - 1 = Len(paths) /\ DOMAIN paths = 1 .. Len(paths) /\ Len(paths) \in Nat
    BY <1>1 DEF AccessInv, ListingInv
  <2>2. ASSUME NEW i \in DOMAIN paths PROVE each[i] = Found(FilesOf(paths[i]))
    <3>1. ~ Refused(paths[i])
      BY <1>1, <2>1, <2>2 DEF ListingInv
    <3> QED  BY <1>1, <2>2, <3>1, PathsFind DEF Finds
  <2>3. DOMAIN asked = DOMAIN paths /\ DOMAIN each = DOMAIN paths
    OBVIOUS
  <2>4. ResolvePaths(asked, world) =
          IF wrong # {} THEN each[Min(wrong)]
          ELSE Found(FlattenSeq([i \in DOMAIN asked |-> each[i].files]))
    BY DEF ResolvePaths
  <2> HIDE DEF asked, each
  <2>5. wrong = {}
    BY <2>2, <2>3 DEF Found
  <2>6. [i \in DOMAIN asked |-> each[i].files] = ListingsTo(at - 1)
    BY <2>1, <2>2, <2>3 DEF Found, ListingsTo
  <2>7. ResolvePaths(asked, world).files = files
    BY <2>4, <2>5, <2>6 DEF Found
  <2> HIDE DEF files
  <2>8. Read(sources, files) /\ files \in Seq(DOMAIN Objects) /\ sources \in Seq(BuiltStores)
    BY <1>1, ListingsAreObjects DEF files, ListingInv, AccessInv
  <2>9. DOMAIN sources = 1 .. Len(files) /\ DOMAIN files = 1 .. Len(files)
    BY <2>8 DEF Read
  <2>10. [i \in DOMAIN sources |-> sources[i].text] = [i \in DOMAIN files |-> ObjectText(files[i])]
    BY <2>8, <2>9 DEF Read
  <2> QED  BY <2>7, <2>10 DEF asked
<1>2. Spec => []ListingInv
  BY AccessHolds, InitListing, StepListing, PTL DEF Spec
<1> QED  BY <1>1, <1>2, AccessHolds, PTL
=============================================================================
