------------------------------ MODULE Listing ------------------------------
(***************************************************************************)
(* A plugin that reads a bucket page by page, as the README shows it,      *)
(* while the same plugin puts, copies and deletes objects in it and        *)
(* changes the client's settings (src/src/natives.cpp, the List and        *)
(* response body parts of src/src/s3job.cpp, src/src/xml.cpp).             *)
(*                                                                         *)
(* Requests other than List are a step: retries repeat them, and a         *)
(* repetition looks like a second call.  The bucket is the set of its      *)
(* keys.  A response body is a sequence of units, elements of its XML.     *)
(***************************************************************************)
EXTENDS Addressing

CONSTANTS
  Keys,           \* the keys the plugin works with
  ListedPrefixes, \* the prefixes it lists
  PageSizes,      \* the maxKeys it passes to List
  Endpoints,      \* the endpoints it may create its client with
  PublicUrls,     \* what it passes to SetPublicUrl
  PageLimit,      \* the most keys the server puts on a page (external)
  MaxBody         \* kMaxListBody, in units

\* Keys that no URL names, or that the XML parser would take for something else, are left
\* out: of a key that is white space alone pugixml drops the text.
IsPlainKey(k) == IsAddressable(k) /\ \E i \in DOMAIN k : k[i] \notin {9, 10, 13, Space}

ASSUME ListingAssumption ==
  /\ IsFiniteSet(Keys) /\ \A k \in Keys : k \in Seq(0..255) /\ IsPlainKey(k)
  /\ ListedPrefixes \subseteq Seq(0..255)
  /\ PageSizes \subseteq Int /\ PageLimit \in Nat \ {0} /\ MaxBody \in Nat

\* The plugin's settings name this service and this site, whose three hosts differ: the
\* endpoint's host is the service's, the public URL ends in the site's host and path, and
\* neither the bucket nor that path has a segment that libcurl squashes.
IsName(s) == s \in Seq(0..255) /\ \A i \in DOMAIN s : s[i] \notin {Slash, Question, Hash}
IsPath(s) ==
  /\ s \in Seq(0..255) /\ (s # <<>> => s[1] = Slash)
  /\ \A i \in DOMAIN s : s[i] \notin {Question, Hash}
NamesPublicSite(url) ==
  LET trimmed == TrimSlashes(url)
      at == Find(trimmed, SchemeEnd)
  IN at # 0 /\ SubSeq(trimmed, at + 3, Len(trimmed)) = PublicBase[1] \o PublicBase[2]

ASSUME AddressAssumption ==
  /\ IsName(ServiceHost) /\ IsName(Bucket) /\ IsName(PublicBase[1]) /\ IsPath(PublicBase[2])
  /\ ~HasDotSegment(Bucket) /\ ~HasDotSegment(PublicBase[2])
  /\ PublicBase[1] \notin {ServiceHost, Bucket \o <<Dot>> \o ServiceHost}
  /\ \A e \in Endpoints : e \in Seq(0..255) /\ ParseEndpoint(e).host = ServiceHost
  /\ \A u \in PublicUrls : u \in Seq(0..255) /\ (u # <<>> => NamesPublicSite(u))

VARIABLES
  config,  \* client->config
  bucket,  \* the keys of the objects there are (external)
  lister,  \* the List request in flight and the plugin's loop around it
  astray,  \* history: whether a request was understood as another one
  steady,  \* history: the matching keys there were throughout the loop
  seen     \* history: the matching keys there ever were in the loop

listingVars == <<config, bucket, lister, astray, steady, seen>>

\* The client as its constructor leaves it.
NewConfig(endpoint) ==
  [endpoint |-> ParseEndpoint(endpoint), bucket |-> Bucket, pathStyle |-> TRUE,
   publicUrl |-> <<>>]

NewSpec(op) ==
  [op |-> op, key |-> <<>>, sourceKey |-> <<>>, prefix |-> <<>>, maxKeys |-> 1000,
   continuationToken |-> <<>>, config |-> config]

ListingInit ==
  /\ config \in {NewConfig(e) : e \in Endpoints}
  /\ bucket \in SUBSET Keys
  /\ lister = [phase |-> "idle", spec |-> NewSpec("List"), body |-> <<>>, listed |-> <<>>]
  /\ astray = FALSE /\ steady = {} /\ seen = {}

Matching(keys, prefix) == {k \in keys : IsPrefix(prefix, k)}

GoesAstray(spec, r) == astray' = (astray \/ r # Meaning(spec))

-----------------------------------------------------------------------------
(***************************************************************************)
(* The settings and the requests on one object.                            *)
(***************************************************************************)

SetPathStyle ==
  /\ config' = [config EXCEPT !.pathStyle = ~@]
  /\ UNCHANGED <<bucket, lister, astray, steady, seen>>

SetPublicUrl ==
  /\ \E url \in PublicUrls \ {config.publicUrl} : config' = [config EXCEPT !.publicUrl = url]
  /\ UNCHANGED <<bucket, lister, astray, steady, seen>>

\* What a request does to the bucket (external).
Applied(r) ==
  CASE r.op = "Put" -> bucket \cup {r.key}
    [] r.op = "Delete" -> bucket \ {r.key}
    [] r.op = "Copy" /\ r.sourceKey \in bucket -> bucket \cup {r.key}
    [] OTHER -> bucket

Request(spec) ==
  /\ LET r == Understood(BuildRequest(spec))
     IN GoesAstray(spec, r) /\ bucket' = Applied(r)
  /\ IF lister.phase = "due"
     THEN /\ steady' = steady \cap bucket'
          /\ seen' = seen \cup Matching(bucket', lister.spec.prefix)
     ELSE UNCHANGED <<steady, seen>>
  /\ UNCHANGED <<config, lister>>

Access(op, key) == Request([NewSpec(op) EXCEPT !.key = key])
Copy(source, key) == Request([NewSpec("Copy") EXCEPT !.sourceKey = source, !.key = key])

-----------------------------------------------------------------------------
(***************************************************************************)
(* ListObjectsV2.                                                          *)
(***************************************************************************)

\* Mutant: what the plugin asks for is what the server gets.
PageSizeAsGiven(maxKeys) == maxKeys
PageSize(maxKeys) == IF maxKeys > 0 THEN maxKeys ELSE 1000

ListSpec(prefix, maxKeys, token) ==
  [NewSpec("List") EXCEPT !.prefix = prefix, !.maxKeys = PageSize(maxKeys),
                          !.continuationToken = token]

\* The plugin's loop begins with an empty token.
StartListing(prefix, maxKeys) ==
  /\ lister.phase # "due"
  /\ lister' = [phase |-> "due", spec |-> ListSpec(prefix, maxKeys, <<>>), body |-> <<>>,
                listed |-> <<>>]
  /\ steady' = Matching(bucket, prefix)
  /\ seen' = Matching(bucket, prefix)
  /\ UNCHANGED <<config, bucket, astray>>

\* Bytewise order of keys.
Less(a, b) ==
  \E n \in 0..Len(a) :
    /\ n < Len(b) /\ SubSeq(a, 1, n) = SubSeq(b, 1, n)
    /\ n = Len(a) \/ a[n + 1] < b[n + 1]

\* The keys of a set in that order.
InOrder(keys) ==
  CHOOSE s \in [1..Cardinality(keys) -> keys] :
    \A i, k \in DOMAIN s : i < k => Less(s[i], s[k])

\* The token of the page that ends with a key: opaque, and of characters base64 has.
Token(key) == <<Plus>> \o key \o <<Equals>>
LastKey(token) == SubSeq(token, 2, Len(token) - 1)

\* The server's answer (external): the next keys after the token's, in order.
Page(r) ==
  LET rest == {k \in Matching(bucket, r.prefix) :
                 r.continuationToken = <<>> \/ Less(LastKey(r.continuationToken), k)}
      sorted == InOrder(rest)
      n == Min({Len(sorted), r.maxKeys, PageLimit})
      Contents(k) == [tag |-> "Contents", text |-> k]
  IN <<[tag |-> "ListBucketResult", text |-> <<>>]>>
       \o (IF n < Len(sorted)
           THEN <<[tag |-> "NextContinuationToken", text |-> Token(sorted[n])]>> ELSE <<>>)
       \o [i \in 1..n |-> Contents(sorted[i])]

\* Mutant: m_responseBody survives into the next attempt.
KeptBody(body) == body
\* ResetAttemptState of the attempt that begins.
ResetBody(body) == <<>>

\* WriteCallback: what does not fit is dropped, and the transfer goes on.
Received(body, data) ==
  LET room == Max({0, MaxBody - Len(body)})
  IN body \o SubSeq(data, 1, Min({room, Len(data)}))

\* ParseListObjects reads the children of the first root element, also of a text that
\* breaks off; a second root is no child of the first.
ParseListObjects(body) ==
  LET roots == {i \in DOMAIN body : body[i].tag = "ListBucketResult"}
      ends == {i \in roots : i > 1} \cup {Len(body) + 1}
      root == IF 1 \in roots THEN SubSeq(body, 1, Min(ends) - 1) ELSE <<>>
      Texts(tag) == FlattenSeq([i \in DOMAIN root |->
                      IF root[i].tag = tag THEN <<root[i].text>> ELSE <<>>])
  IN [objects |-> Texts("Contents"),
      nextToken |-> FlattenSeq(Texts("NextContinuationToken"))]

AttemptBody(data) == Received(ResetBody(lister.body), data)

\* The job is destroyed: nothing is left of its spec and its body.
Over(phase, listed) ==
  [phase |-> phase, spec |-> NewSpec("List"), body |-> <<>>, listed |-> listed]

\* The connection breaks after n units, and the request waits for its retry.
PageBreaksOff ==
  /\ lister.phase = "due"
  /\ LET r == Understood(BuildRequest(lister.spec))
         page == Page(r)
     IN /\ GoesAstray(lister.spec, r)
        /\ \E n \in 0..(Len(page) - 1) :
             lister' = [lister EXCEPT !.body = AttemptBody(SubSeq(page, 1, n))]
  /\ UNCHANGED <<config, bucket, steady, seen>>

\* The whole page arrives with 200.  The plugin takes the keys and follows the token, with
\* the settings the client has by now; no token ends the loop.
PageArrives ==
  /\ lister.phase = "due"
  /\ LET spec == lister.spec
         r == Understood(BuildRequest(spec))
         page == ParseListObjects(AttemptBody(Page(r)))
         listed == lister.listed \o page.objects
     IN /\ GoesAstray(spec, r)
        /\ lister' =
             IF page.nextToken = <<>>
             THEN Over("done", listed)
             ELSE [lister EXCEPT !.listed = listed, !.body = <<>>,
                                 !.spec = ListSpec(spec.prefix, spec.maxKeys, page.nextToken)]
  /\ UNCHANGED <<config, bucket, steady, seen>>

\* The request ends with any other status, and the plugin gives up.
ListingFails ==
  /\ lister.phase = "due"
  /\ lister' = Over("idle", <<>>)
  /\ steady' = {} /\ seen' = {}
  /\ UNCHANGED <<config, bucket, astray>>

ListingNext ==
  \/ SetPathStyle \/ SetPublicUrl
  \/ \E op \in {"Put", "Delete", "Get", "Head"}, key \in Keys : Access(op, key)
  \/ \E source, key \in Keys : Copy(source, key)
  \/ \E prefix \in ListedPrefixes, maxKeys \in PageSizes : StartListing(prefix, maxKeys)
  \/ PageBreaksOff \/ PageArrives \/ ListingFails

ListingSpec == ListingInit /\ [][ListingNext]_listingVars

-----------------------------------------------------------------------------
(***************************************************************************)
(* Correctness.                                                            *)
(***************************************************************************)

ListingTypeOK ==
  /\ config.endpoint.host = ServiceHost /\ config.pathStyle \in BOOLEAN
  /\ bucket \subseteq Keys
  /\ lister.phase \in {"idle", "due", "done"}
  /\ lister.spec.op = "List" /\ lister.spec.maxKeys \in Nat \ {0}
  /\ Len(lister.body) <= MaxBody
  /\ ToSet(lister.listed) \subseteq Keys
  /\ steady \subseteq seen /\ seen \subseteq Keys

\* Whatever bytes a key, a prefix or a token has, whichever address the settings choose and
\* whenever they change, the server takes each request for the one its caller made.
NothingAstray == ~astray

\* "List returns at most 1000 keys per page; follow nextToken for more": the loop returns
\* every key that was there throughout, none that never was, and none twice, over pages,
\* attempts that broke off and objects that come and go.
CompleteListing ==
  /\ \A i, k \in DOMAIN lister.listed : i < k => Less(lister.listed[i], lister.listed[k])
  /\ ToSet(lister.listed) \subseteq seen
  /\ lister.phase = "done" => steady \subseteq ToSet(lister.listed)
=============================================================================
