-------------------------- MODULE EndpointsProofs ---------------------------
(***************************************************************************)
(* Proofs about the internal API of the Meta adapter: the two copies of    *)
(* every send agree on every request.                                      *)
(***************************************************************************)
EXTENDS Endpoints, TLAPS

(***************************************************************************)
(* The sends that exist twice: the cases of metaDispatch.                  *)
(***************************************************************************)
Twins == {"send-template", "social/send", "send-text", "send-media", "send-location",
          "send-contacts", "send-interactive", "send-product", "send-catalog", "send-flow",
          "mark-read", "send-typing"}

(***************************************************************************)
(* What TwinsAgree asks of the two replies to one request.                 *)
(***************************************************************************)
SameSend(a, b, endpoint, f) ==
    \/ a = b
    \/ /\ endpoint = "social/send"
       /\ "tokenHeader" \in f <=> "accessToken" \notin f
       /\ [a EXCEPT !.token = b.token] = b

(* metaDispatch refuses any other endpoint with 404.                       *)
LEMMA UnknownIsRefused ==
    ASSUME NEW e, NEW f, e \notin Twins
    PROVE  MetaDispatch(e, f).status = 404
BY DEF Twins, MetaDispatch, Refusal, Reply

(* With the secret and the verb right, a request reaches its route.        *)
LEMMA RouteOfTwin ==
    ASSUME NEW e \in Twins, NEW f
    PROVE  HttpRoute(e, f, TRUE, "POST") = RouteOf(e, f, "POST")
BY DEF Twins, HttpRoute, VerbOf

(* A Messenger or Instagram send: the route replaces the token of the      *)
(* payload by the header's and passes the rest on.                         *)
LEMMA SocialTwins ==
    ASSUME NEW f
    PROVE  SameSend(SendSocialDirect(f), RouteSocial(f), "social/send", f)
<1> DEFINE g == HeaderToken(f)
           asks == {"pageId", "recipientId", "text"}
<1>1. asks \subseteq f <=> asks \subseteq g
  BY DEF HeaderToken
<1>2. SocialSendBody(f) = SocialSendBody(g)
  BY DEF HeaderToken, SocialSendBody
<1>3. "accessToken" \in g <=> "tokenHeader" \in f
  BY DEF HeaderToken
<1>4. CASE ~(asks \subseteq f)
  BY <1>4, <1>1 DEF SameSend, RouteSocial, SendSocialDirect
<1>5. CASE asks \subseteq f
  <2>1. SendSocialDirect(f) = Sends(f, SocialSendBody(f)) /\ RouteSocial(f) = Sends(g, SocialSendBody(f))
    BY <1>5, <1>1, <1>2 DEF RouteSocial, SendSocialDirect
  <2>2. QED
    BY <2>1, <1>3 DEF SameSend, Sends, Reply, PayloadToken
<1>6. QED
  BY <1>4, <1>5

(* One case per send, by the two definitions. It holds for every set of    *)
(* fields and not only for those the callers fill.                         *)
LEMMA TwinsSendTheSame ==
    ASSUME NEW e \in Twins, NEW f
    PROVE  SameSend(MetaDispatch(e, f), RouteOf(e, f, "POST"), e, f)
<1>1. CASE e = "send-template"
  BY <1>1 DEF MetaDispatch, RouteOf, SameSend
<1>2. CASE e = "social/send"
  BY <1>2, SocialTwins DEF MetaDispatch, RouteOf
<1>3. CASE e = "send-text"
  BY <1>3 DEF MetaDispatch, RouteOf, SameSend, CaseText, RouteText
<1>4. CASE e = "send-media"
  BY <1>4 DEF MetaDispatch, RouteOf, SameSend, CaseMedia, RouteMedia
<1>5. CASE e = "send-location"
  BY <1>5 DEF MetaDispatch, RouteOf, SameSend, CaseLocation, RouteLocation
<1>6. CASE e = "send-contacts"
  BY <1>6 DEF MetaDispatch, RouteOf, SameSend, CaseContacts, RouteContacts
<1>7. CASE e = "send-interactive"
  BY <1>7 DEF MetaDispatch, RouteOf, SameSend, CaseInteractive, RouteInteractive
<1>8. CASE e = "send-product"
  BY <1>8 DEF MetaDispatch, RouteOf, SameSend, CaseProduct, RouteProduct
<1>9. CASE e = "send-catalog"
  BY <1>9 DEF MetaDispatch, RouteOf, SameSend, CaseCatalog, RouteCatalog
<1>10. CASE e = "send-flow"
  BY <1>10 DEF MetaDispatch, RouteOf, SameSend, CaseFlow, RouteFlow
<1>11. CASE e = "mark-read" \/ e = "send-typing"
  BY <1>11 DEF MetaDispatch, RouteOf, SameSend
<1>12. QED
  BY <1>1, <1>2, <1>3, <1>4, <1>5, <1>6, <1>7, <1>8, <1>9, <1>10, <1>11 DEF Twins

(* The second reply stands behind the first.                               *)
LEMMA AppendToOne ==
    ASSUME NEW a, NEW r
    PROVE  Append(<<a>>, r) = <<a, r>>
<1>1. <<a>> \in Seq({a, r}) /\ r \in {a, r}
  OBVIOUS
<1> DEFINE s == Append(<<a>>, r)
<1>2. s \in Seq({a, r}) /\ Len(s) = 2 /\ s[1] = a /\ s[2] = r
  BY <1>1
<1> HIDE DEF s
<1>3. s = <<a, r>>
  BY <1>2
<1>4. QED
  BY <1>3 DEF s

(***************************************************************************)
(* The requests both twins get to see.                                     *)
(***************************************************************************)
Comparable == asked.endpoint \in Twins /\ asked.secret /\ asked.verb = "POST"

(***************************************************************************)
(* The replies so far, in the order they are given.                        *)
(***************************************************************************)
Served ==
    \/ replies = <<>>
    \/ replies = <<MetaDispatch(asked.endpoint, asked.fields)>>
    \/ /\ replies = <<MetaDispatch(asked.endpoint, asked.fields), replies[2]>>
       /\ Comparable => SameSend(replies[1], replies[2], asked.endpoint, asked.fields)

EndpointsInv == Served /\ asked.secret \in BOOLEAN

(* What HttpRoute replies to a comparable request.                         *)
LEMMA HttpAnswersTheSame ==
    ASSUME Comparable, asked.secret \in BOOLEAN
    PROVE  SameSend(MetaDispatch(asked.endpoint, asked.fields),
                    HttpRoute(asked.endpoint, asked.fields, asked.secret, asked.verb),
                    asked.endpoint, asked.fields)
<1>1. asked.secret = TRUE /\ asked.verb = "POST" /\ asked.endpoint \in Twins
  BY DEF Comparable
<1>2. HttpRoute(asked.endpoint, asked.fields, TRUE, "POST")
        = RouteOf(asked.endpoint, asked.fields, "POST")
  BY <1>1, RouteOfTwin
<1>3. HttpRoute(asked.endpoint, asked.fields, asked.secret, asked.verb)
        = RouteOf(asked.endpoint, asked.fields, "POST")
  BY <1>1, <1>2, Zenon
<1>4. SameSend(MetaDispatch(asked.endpoint, asked.fields),
               RouteOf(asked.endpoint, asked.fields, "POST"), asked.endpoint, asked.fields)
  BY <1>1, TwinsSendTheSame
<1>5. QED
  BY <1>3, <1>4

(* Served is inductive: the request does not change between the two        *)
(* replies.                                                                *)
THEOREM ServedInvariant == EndpointsSpec => []EndpointsInv
<1>1. EndpointsInit => EndpointsInv
  BY DEF EndpointsInit, EndpointsInv, Served
<1>2. EndpointsInv /\ [EndpointsNext]_endpointsVars => EndpointsInv'
  <2> SUFFICES ASSUME EndpointsInv, [EndpointsNext]_endpointsVars PROVE EndpointsInv'
    OBVIOUS
  <2>1. CASE ServeInProcess
    BY <2>1 DEF ServeInProcess, EndpointsInv, Served
  <2>2. CASE ServeHttp
    <3>1. PICK a, r :
             /\ a = MetaDispatch(asked.endpoint, asked.fields)
             /\ r = HttpRoute(asked.endpoint, asked.fields, asked.secret, asked.verb)
      OBVIOUS
    <3>2. asked' = asked /\ replies' = Append(replies, r) /\ Len(replies) = 1
      BY <2>2, <3>1 DEF ServeHttp
    <3>3. replies = <<a>>
      <4>1. replies = <<>> \/ replies = <<a>> \/ replies = <<a, replies[2]>>
        BY <3>1, Zenon DEF EndpointsInv, Served
      <4>2. QED
        BY ONLY <4>1, <3>2
    <3>4. replies' = <<a, r>>
      BY <3>2, <3>3, AppendToOne
    <3>5. Comparable => SameSend(a, r, asked.endpoint, asked.fields)
      BY <3>1, HttpAnswersTheSame DEF EndpointsInv
    <3>6. a = MetaDispatch(asked.endpoint, asked.fields)'
      BY <3>1, <3>2
    <3>7. Served'
      BY <3>2, <3>4, <3>5, <3>6 DEF Served, Comparable
    <3>8. QED
      BY <3>2, <3>7 DEF EndpointsInv
  <2>3. CASE UNCHANGED endpointsVars
    BY <2>3 DEF EndpointsInv, Served, Comparable, endpointsVars
  <2>4. QED
    BY <2>1, <2>2, <2>3 DEF EndpointsNext
<1>3. QED
  BY <1>1, <1>2, PTL DEF EndpointsSpec

(* The in-process case and the HTTP route of each send refuse the same     *)
(* requests and send Meta the same message with the same token, but for    *)
(* the token of a social send; for every request and configuration         *)
(* (metaDispatch and the routes of meta-adapter).                          *)
THEOREM TwinsAgreeAlways == EndpointsSpec => []TwinsAgree
<1>1. EndpointsInv => TwinsAgree
  <2> SUFFICES ASSUME EndpointsInv, Len(replies) = 2, asked.secret, asked.verb = "POST",
                      replies[1].status # 404
               PROVE  SameSend(replies[1], replies[2], asked.endpoint, asked.fields)
    BY DEF TwinsAgree, SameSend
  <2> DEFINE a == MetaDispatch(asked.endpoint, asked.fields)
  <2>1. replies = <<>> \/ replies = <<a>>
        \/ /\ replies = <<a, replies[2]>>
           /\ Comparable => SameSend(replies[1], replies[2], asked.endpoint, asked.fields)
    BY DEF EndpointsInv, Served
  <2> HIDE DEF a
  <2>2. /\ replies[1] = a
        /\ Comparable => SameSend(replies[1], replies[2], asked.endpoint, asked.fields)
    BY <2>1
  <2>3. asked.endpoint \in Twins
    BY <2>2, UnknownIsRefused DEF a
  <2>4. QED
    BY <2>2, <2>3 DEF Comparable
<1>2. QED
  BY <1>1, ServedInvariant, PTL

=============================================================================
