----------------------------- MODULE Addressing -----------------------------
(***************************************************************************)
(* From a request to the bytes libcurl sends, and what an S3 server makes  *)
(* of them (src/src/uri.cpp, src/src/s3client.cpp, BuildRequest and        *)
(* ApplyMethodOptions of src/src/s3job.cpp).                               *)
(*                                                                         *)
(* A string is a sequence of bytes.  Numbers above 255 stand for text that *)
(* no percent encoding touches: the names of the query's parameters, and   *)
(* 1000 + n for the decimal digits of n.                                   *)
(***************************************************************************)
EXTENDS Integers, SequencesExt

CONSTANTS
  ServiceHost,  \* the host of the endpoint (external)
  Bucket,       \* the bucket (external)
  PublicBase    \* <<host, path>> of a public site in front of the bucket (external)

Percent == 37    Hash == 35     Ampersand == 38  Plus == 43   Space == 32
Slash == 47      Equals == 61   Question == 63   Dot == 46
Https == <<104, 116, 116, 112, 115>>
SchemeEnd == <<58, Slash, Slash>>   \* "://"
ListType == 256  MaxKeysName == 257  PrefixName == 258  TokenName == 259
Digits(n) == <<1000 + n>>

\* The first position from which s holds t, or 0.
Find(s, t) ==
  LET at == {i \in 1..(Len(s) - Len(t) + 1) : SubSeq(s, i, i + Len(t) - 1) = t}
  IN IF at = {} THEN 0 ELSE Min(at)

-----------------------------------------------------------------------------
(***************************************************************************)
(* uri.cpp and s3client.cpp.                                               *)
(***************************************************************************)

\* Mutant: the characters encodeURI leaves alone.
IsUnreservedOrPlus(c) ==
  c \in (65..90) \cup (97..122) \cup (48..57) \cup {45, 95, Dot, 126, Plus}
\* Letters, digits, "-", "_", "." and "~".
IsUnreserved(c) == c \in (65..90) \cup (97..122) \cup (48..57) \cup {45, 95, Dot, 126}

HexDigit(n) == IF n < 10 THEN 48 + n ELSE 55 + n

UriEncode(input, encodeSlash) ==
  FlattenSeq([i \in DOMAIN input |->
    IF IsUnreserved(input[i]) \/ (input[i] = Slash /\ ~encodeSlash)
    THEN <<input[i]>>
    ELSE <<Percent, HexDigit(input[i] \div 16), HexDigit(input[i] % 16)>>])

EncodeKeyPath(key) == UriEncode(key, FALSE)

TrimSlashes(value) ==
  LET kept == {i \in DOMAIN value : value[i] # Slash}
  IN IF kept = {} THEN <<>> ELSE SubSeq(value, Min(kept), Max(kept))

\* https is the default; what precedes "://" is the scheme.
ParseEndpoint(endpoint) ==
  LET at == Find(endpoint, SchemeEnd)
  IN IF at = 0
     THEN [scheme |-> Https, host |-> TrimSlashes(endpoint)]
     ELSE [scheme |-> SubSeq(endpoint, 1, at - 1),
           host |-> TrimSlashes(SubSeq(endpoint, at + 3, Len(endpoint)))]

BuildHost(config) ==
  IF config.pathStyle THEN config.endpoint.host
  ELSE config.bucket \o <<Dot>> \o config.endpoint.host

BuildBucketUri(config) ==
  IF config.pathStyle THEN <<Slash>> \o config.bucket \o <<Slash>> ELSE <<Slash>>

BuildObjectUri(config, key) == BuildBucketUri(config) \o EncodeKeyPath(key)

-----------------------------------------------------------------------------
(***************************************************************************)
(* BuildRequest.                                                           *)
(***************************************************************************)

Parameter(name, value) ==
  IF value = <<>> THEN <<>> ELSE <<Ampersand, name, Equals>> \o UriEncode(value, TRUE)

BuildListQuery(spec) ==
  <<ListType, Equals>> \o Digits(2) \o <<Ampersand, MaxKeysName, Equals>> \o Digits(spec.maxKeys)
    \o Parameter(PrefixName, spec.prefix)
    \o Parameter(TokenName, spec.continuationToken)

BuildSignedUrl(spec) ==
  LET config == spec.config
      origin == config.endpoint.scheme \o SchemeEnd \o BuildHost(config)
  IN IF spec.op = "List"
     THEN origin \o BuildBucketUri(config) \o <<Question>> \o BuildListQuery(spec)
     ELSE origin \o BuildObjectUri(config, spec.key)

UsesPublicUrl(spec) == spec.op = "Get" /\ spec.config.publicUrl # <<>>

BuildPublicUrl(spec) ==
  TrimSlashes(spec.config.publicUrl) \o <<Slash>> \o EncodeKeyPath(spec.key)

CopySource(spec) ==
  IF spec.op = "Copy"
  THEN <<Slash>> \o spec.config.bucket \o <<Slash>> \o EncodeKeyPath(spec.sourceKey)
  ELSE <<>>

\* ApplyMethodOptions.
Method(op) ==
  CASE op = "Head" -> "HEAD"
    [] op \in {"Put", "Copy"} -> "PUT"
    [] op = "Delete" -> "DELETE"
    [] op \in {"Get", "List"} -> "GET"

BuildRequest(spec) ==
  [method |-> Method(spec.op),
   url |-> IF UsesPublicUrl(spec) THEN BuildPublicUrl(spec) ELSE BuildSignedUrl(spec),
   copySource |-> CopySource(spec),
   signed |-> ~UsesPublicUrl(spec)]

-----------------------------------------------------------------------------
(***************************************************************************)
(* The other end (external): libcurl takes the URL apart, the server       *)
(* decodes the path, the query and the x-amz-copy-source header.           *)
(***************************************************************************)

HexValue(c) ==
  CASE c \in 48..57 -> c - 48
    [] c \in 65..70 -> c - 55
    [] c \in 97..102 -> c - 87
    [] OTHER -> -1

\* The encoder never leaves a bare "%", so no escape begins inside another.
Decode(s) ==
  LET Escape(i) == /\ i \in 1..(Len(s) - 2) /\ s[i] = Percent
                   /\ HexValue(s[i + 1]) >= 0 /\ HexValue(s[i + 2]) >= 0
  IN FlattenSeq([i \in DOMAIN s |->
       IF Escape(i) THEN <<16 * HexValue(s[i + 1]) + HexValue(s[i + 2])>>
       ELSE IF Escape(i - 1) \/ Escape(i - 2) THEN <<>>
       ELSE <<s[i]>>])

\* In a query a plus sign is a space.
DecodeQuery(s) == Decode([i \in DOMAIN s |-> IF s[i] = Plus THEN Space ELSE s[i]])

\* The first position from i on where s holds one of the characters, or the end.
Until(s, i, chars) == Min({k \in i..Len(s) : s[k] \in chars} \cup {Len(s) + 1})

\* Whether "." or ".." stands alone between two slashes, or a slash and an end.
HasDotSegment(s) ==
  \E i \in DOMAIN s : \E n \in {i, i + 1} \cap DOMAIN s :
    /\ \A k \in i..n : s[k] = Dot
    /\ i = 1 \/ s[i - 1] = Slash
    /\ n = Len(s) \/ s[n + 1] = Slash

\* libcurl takes those segments out of a path, a ".." with the segment before it.
Squash(path) ==
  LET slashes == SetToSortSeq({i \in DOMAIN path : path[i] = Slash}, <)
      Segment(i) == SubSeq(path, i + 1, Until(path, i + 1, {Slash}) - 1)
      segments == [n \in DOMAIN slashes |-> Segment(slashes[n])]
      Kept(kept, segment) ==
        CASE segment = <<Dot>> -> kept
          [] segment = <<Dot, Dot>> -> IF kept = <<>> THEN kept ELSE Front(kept)
          [] OTHER -> Append(kept, segment)
      ending == IF Last(segments) \in {<<Dot>>, <<Dot, Dot>>} THEN <<Slash>> ELSE <<>>
      left == FoldLeft(Kept, <<>>, segments)
  IN IF HasDotSegment(path)
     THEN FlattenSeq([n \in DOMAIN left |-> <<Slash>> \o left[n]]) \o ending
     ELSE path

Resolve(url) ==
  LET host == Find(url, SchemeEnd) + 3
      path == Until(url, host, {Slash, Question, Hash})
      query == Until(url, path, {Question, Hash})
      fragment == Until(url, query, {Hash})
  IN [host |-> SubSeq(url, host, path - 1),
      path |-> Squash(SubSeq(url, path, query - 1)),
      query |-> SubSeq(url, query + 1, fragment - 1)]

\* The value of a parameter of a query, or nothing.
Value(query, name) ==
  LET at == Find(query, <<name, Equals>>)
  IN IF at = 0 THEN <<>> ELSE SubSeq(query, at + 2, Until(query, at, {Ampersand}) - 1)

After(s, t) == IF IsPrefix(t, s) THEN SubSeq(s, Len(t) + 1, Len(s)) ELSE <<>>

\* The key a URL names, under any of the addresses the bucket has.
KeyOf(r) ==
  Decode(CASE r.host = ServiceHost -> After(r.path, <<Slash>> \o Bucket \o <<Slash>>)
           [] r.host = Bucket \o <<Dot>> \o ServiceHost -> After(r.path, <<Slash>>)
           [] r.host = PublicBase[1] -> After(r.path, PublicBase[2] \o <<Slash>>)
           [] OTHER -> <<>>)

\* A key that a URL can name: the empty key's URL is the bucket's, and a "." or ".." segment
\* does not reach the server.
IsAddressable(key) == key # <<>> /\ ~HasDotSegment(key)

\* What the server takes a request for: without a key or a query it is one on the bucket.
Understood(request) ==
  LET r == Resolve(request.url)
      key == KeyOf(r)
      OnObject ==
        CASE request.method = "HEAD" -> "Head"
          [] request.method = "DELETE" -> "Delete"
          [] request.method = "PUT" -> IF request.copySource = <<>> THEN "Put" ELSE "Copy"
          [] request.method = "GET" -> IF r.query = <<>> THEN "Get" ELSE "List"
      op == IF key = <<>> /\ r.query = <<>> THEN "Bucket" ELSE OnObject
  IN [op |-> op,
      key |-> key,
      sourceKey |-> Decode(After(request.copySource, <<Slash>> \o Bucket \o <<Slash>>)),
      prefix |-> DecodeQuery(Value(r.query, PrefixName)),
      maxKeys |-> IF op = "List" THEN Value(r.query, MaxKeysName)[1] - 1000 ELSE 1000,
      continuationToken |-> DecodeQuery(Value(r.query, TokenName)),
      site |-> IF r.host = PublicBase[1] THEN "public" ELSE "private",
      signed |-> request.signed]

\* And what its caller meant: a download goes to the public site, unsigned, if there is one.
Meaning(spec) ==
  LET public == spec.op = "Get" /\ spec.config.publicUrl # <<>>
  IN [op |-> spec.op, key |-> spec.key, sourceKey |-> spec.sourceKey, prefix |-> spec.prefix,
      maxKeys |-> spec.maxKeys, continuationToken |-> spec.continuationToken,
      site |-> IF public THEN "public" ELSE "private", signed |-> ~public]
=============================================================================
