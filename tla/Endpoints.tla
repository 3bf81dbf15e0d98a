------------------------------- MODULE Endpoints -------------------------------
(***************************************************************************)
(* The internal API of the Meta adapter: what each endpoint demands of a   *)
(* request and which of its fields it puts into the call of Meta. Every    *)
(* send exists twice, as a case of metaDispatch, which the monolith calls, *)
(* and as an HTTP route, which the standalone worker posts to; each has a  *)
(* validation of its own.                                                  *)
(*                                                                         *)
(* A request is the set of the fields it fills; config is the set of       *)
(* fields the process configuration can stand in for.                      *)
(***************************************************************************)
EXTENDS Naturals, FiniteSets, Sequences

CONSTANT Configs   \* configurations: subsets of ConfigFields

ConfigFields == {"accessToken", "phoneNumberId", "wabaId", "pin"}

ASSUME EndpointsAssumption == Configs \subseteq SUBSET ConfigFields

VARIABLES
    config,     \* the process configuration
    asked,      \* the request: [endpoint, fields, secret, verb]
    replies     \* how it is served: in process, and then over HTTP

endpointsVars == <<config, asked, replies>>

MediaTypes == {"image", "audio", "sticker", "document"}
InteractiveTypes == {"button", "list", "cta_url"}

\* A reply: the status when Meta accepts, what Meta is sent, and with whose token.
Reply(status, body, token) == [status |-> status, body |-> body, token |-> token]
Refusal(status) == Reply(status, {}, "none")
PayloadToken(f) == IF "accessToken" \in f THEN "channel" ELSE "configured"
Sends(f, body) == Reply(202, body, PayloadToken(f))
Tells(f, body) == Reply(200, body, PayloadToken(f))
OneOf(f, names) == Cardinality(f \cap names) = 1

-----------------------------------------------------------------------------
(***************************************************************************)
(* The builders: the fields Meta is sent.                                  *)
(***************************************************************************)
TemplateBody(f) ==
    {"to", "templateName", "templateLanguage"} \cup
    (IF "components" \in f THEN {"components"} ELSE f \cap {"parameters"})

TextBody(f) == f \cap {"to", "text", "previewUrl"}

MediaBody(f) ==
    {"to"} \cup (f \cap MediaTypes)
    \cup (IF "mediaId" \in f THEN {"mediaId"} ELSE f \cap {"link"})
    \cup (IF f \cap {"audio", "sticker"} = {} THEN f \cap {"caption"} ELSE {})
    \cup (IF "document" \in f THEN f \cap {"filename"} ELSE {})

LocationBody(f) == f \cap {"to", "latitude", "longitude", "name", "address"}

ContactsBody(f) == f \cap {"to", "contacts", "formattedName", "phones", "emails"}

InteractiveBody(f) ==
    (f \cap ({"to", "bodyText", "headerText", "footerText"} \cup InteractiveTypes))
    \cup (IF "button" \in f THEN f \cap {"buttons"}
          ELSE IF "cta_url" \in f THEN f \cap {"ctaDisplayText", "ctaUrl"}
          ELSE f \cap {"buttonLabel", "sections"})

ProductMessage(f) == f \cap {"to", "catalogId", "productRetailerId", "bodyText"}

CatalogMessage(f) == f \cap {"to", "catalogId", "sections", "headerText", "bodyText", "footerText"}

FlowMessage(f) ==
    f \cap {"to", "flowId", "flowToken", "bodyText", "ctaButtonText", "headerText", "footerText",
            "draft"}

MarkReadBody == {"messageId"}
TypingIndicatorBody == {"messageId", "typingIndicator"}
SocialSendBody(f) == f \cap {"recipientId", "text"}
TemplateCreateBody(f) == f \cap {"name", "language", "category", "bodyText"}
TemplateEditBody(f) == f \cap {"category", "bodyText"}
MediaUploadForm(f) == {"file"} \cup (f \cap {"filename"})

-----------------------------------------------------------------------------
(***************************************************************************)
(* The functions both sides call.                                          *)
(***************************************************************************)
SendTemplateDirect(f) ==
    IF {"phoneNumberId", "to", "templateName", "templateLanguage"} \subseteq f
    THEN Sends(f, TemplateBody(f)) ELSE Refusal(400)

MarkReadDirect(f) ==
    IF {"phoneNumberId", "messageId"} \subseteq f THEN Tells(f, MarkReadBody) ELSE Refusal(400)

SendTypingIndicatorDirect(f) ==
    IF {"phoneNumberId", "messageId"} \subseteq f THEN Tells(f, TypingIndicatorBody)
    ELSE Refusal(400)

SendSocialDirect(f) ==
    IF {"pageId", "recipientId", "text"} \subseteq f THEN Sends(f, SocialSendBody(f))
    ELSE Refusal(400)

\* Without any token the list is empty, which is no error.
ListTemplatesDirect(f) ==
    IF "wabaId" \notin f THEN Refusal(400)
    ELSE IF "accessToken" \notin f \cup config THEN Refusal(200)
    ELSE Tells(f, {})

SubmitTemplateDirect(f) ==
    IF {"wabaId", "name", "language", "category", "bodyText"} \subseteq f
    THEN Tells(f, TemplateCreateBody(f)) ELSE Refusal(400)

EditTemplateDirect(f) ==
    IF "metaTemplateId" \in f /\ f \cap {"category", "bodyText"} # {}
    THEN Tells(f, TemplateEditBody(f)) ELSE Refusal(400)

\* Without metaTemplateId Meta deletes every language of the name.
DeleteTemplateDirect(f) ==
    IF {"wabaId", "name"} \subseteq f THEN Tells(f, f \cap {"name", "metaTemplateId"})
    ELSE Refusal(400)

ValidMediaUpload(f) == {"phoneNumberId", "mimeType"} \subseteq f

UploadMediaDirect(f) ==
    LET g == f \cup (config \cap {"phoneNumberId"})
    IN  IF ~ValidMediaUpload(g) \/ "file" \notin f THEN Refusal(400)
        ELSE IF "tooLarge" \in f THEN Refusal(413)
        ELSE Reply(201, MediaUploadForm(f), PayloadToken(f))

-----------------------------------------------------------------------------
(***************************************************************************)
(* metaDispatch, case by case.                                             *)
(***************************************************************************)
CaseText(f) ==
    IF {"phoneNumberId", "to", "text"} \subseteq f THEN Sends(f, TextBody(f)) ELSE Refusal(400)

CaseMedia(f) ==
    IF /\ {"phoneNumberId", "to"} \subseteq f
       /\ OneOf(f, MediaTypes)
       /\ f \cap {"link", "mediaId"} # {}
    THEN Sends(f, MediaBody(f)) ELSE Refusal(400)

CaseLocation(f) ==
    IF {"phoneNumberId", "to", "latitude", "longitude"} \subseteq f
    THEN Sends(f, LocationBody(f)) ELSE Refusal(400)

CaseContacts(f) ==
    IF {"phoneNumberId", "to", "contacts", "formattedName"} \subseteq f
    THEN Sends(f, ContactsBody(f)) ELSE Refusal(400)

CaseInteractiveUnchecked(f) ==   \* mutant: the check of one twin is missing in the other
    IF {"phoneNumberId", "to", "bodyText"} \subseteq f /\ OneOf(f, InteractiveTypes)
    THEN Sends(f, InteractiveBody(f)) ELSE Refusal(400)

CaseInteractive(f) ==
    IF /\ {"phoneNumberId", "to", "bodyText"} \subseteq f
       /\ OneOf(f, InteractiveTypes)
       /\ "cta_url" \in f => {"ctaUrl", "ctaDisplayText"} \subseteq f
    THEN Sends(f, InteractiveBody(f)) ELSE Refusal(400)

CaseProduct(f) ==
    IF {"phoneNumberId", "to", "catalogId", "productRetailerId"} \subseteq f
    THEN Sends(f, ProductMessage(f)) ELSE Refusal(400)

CaseCatalog(f) ==
    IF {"phoneNumberId", "to", "catalogId", "sections"} \subseteq f
    THEN Sends(f, CatalogMessage(f)) ELSE Refusal(400)

CaseFlow(f) ==
    IF {"phoneNumberId", "to", "flowId", "flowToken", "bodyText", "ctaButtonText"} \subseteq f
    THEN Sends(f, FlowMessage(f)) ELSE Refusal(400)

MetaDispatch(endpoint, f) ==
    CASE endpoint = "send-template" -> SendTemplateDirect(f)
      [] endpoint = "social/send" -> SendSocialDirect(f)
      [] endpoint = "send-text" -> CaseText(f)
      [] endpoint = "send-media" -> CaseMedia(f)
      [] endpoint = "send-location" -> CaseLocation(f)
      [] endpoint = "send-contacts" -> CaseContacts(f)
      [] endpoint = "send-interactive" -> CaseInteractive(f)
      [] endpoint = "send-product" -> CaseProduct(f)
      [] endpoint = "send-catalog" -> CaseCatalog(f)
      [] endpoint = "send-flow" -> CaseFlow(f)
      [] endpoint = "mark-read" -> MarkReadDirect(f)
      [] endpoint = "send-typing" -> SendTypingIndicatorDirect(f)
      [] OTHER -> Refusal(404)

-----------------------------------------------------------------------------
(***************************************************************************)
(* The HTTP routes.                                                        *)
(***************************************************************************)
RouteText(f) ==
    IF {"phoneNumberId", "to", "text"} \subseteq f THEN Sends(f, TextBody(f)) ELSE Refusal(400)

RouteMedia(f) ==
    IF /\ {"phoneNumberId", "to"} \subseteq f
       /\ OneOf(f, MediaTypes)
       /\ f \cap {"link", "mediaId"} # {}
    THEN Sends(f, MediaBody(f)) ELSE Refusal(400)

RouteInteractive(f) ==
    IF ~({"phoneNumberId", "to", "bodyText"} \subseteq f /\ OneOf(f, InteractiveTypes))
    THEN Refusal(400)
    ELSE IF "cta_url" \in f /\ ~({"ctaUrl", "ctaDisplayText"} \subseteq f) THEN Refusal(400)
    ELSE Sends(f, InteractiveBody(f))

RouteProduct(f) ==
    IF {"phoneNumberId", "to", "catalogId", "productRetailerId"} \subseteq f
    THEN Sends(f, ProductMessage(f)) ELSE Refusal(400)

RouteCatalog(f) ==
    IF {"phoneNumberId", "to", "catalogId", "sections"} \subseteq f
    THEN Sends(f, CatalogMessage(f)) ELSE Refusal(400)

RouteFlow(f) ==
    IF {"phoneNumberId", "to", "flowId", "flowToken", "bodyText", "ctaButtonText"} \subseteq f
    THEN Sends(f, FlowMessage(f)) ELSE Refusal(400)

RouteLocation(f) ==
    IF {"phoneNumberId", "to", "latitude", "longitude"} \subseteq f
    THEN Sends(f, LocationBody(f)) ELSE Refusal(400)

RouteContacts(f) ==
    IF {"phoneNumberId", "to", "contacts", "formattedName"} \subseteq f
    THEN Sends(f, ContactsBody(f)) ELSE Refusal(400)

\* Three routes take the token from a header, and so replace that of the payload.
HeaderToken(f) ==
    (f \ {"accessToken"}) \cup (IF "tokenHeader" \in f THEN {"accessToken"} ELSE {})

RouteSocial(f) == SendSocialDirect(HeaderToken(f))
RouteTemplateEdit(f) == EditTemplateDirect(HeaderToken(f))
RouteTemplateDelete(f) == DeleteTemplateDirect(HeaderToken(f) \cup (config \cap {"wabaId"}))

RouteTemplates(f, verb) ==
    LET g == HeaderToken(f) \cup (config \cap {"wabaId"})
    IN  CASE verb = "POST" -> SubmitTemplateDirect(g)
          [] verb = "GET" -> ListTemplatesDirect(g)
          [] OTHER -> Refusal(405)

RouteRegisterNumber(f) ==
    IF {"phoneNumberId", "pin"} \subseteq f \cup config
    THEN Reply(200, {"pin"}, "configured") ELSE Refusal(400)

RouteSubscribeApp(f) ==
    IF "wabaId" \in f \cup config THEN Reply(200, {}, "configured") ELSE Refusal(400)

RoutePhoneNumbers(f) ==
    IF "wabaId" \in f \cup config THEN Reply(200, {}, "configured") ELSE Refusal(400)

\* Header and query first, then the body, which may be too large.
RouteMediaUpload(f) ==
    LET g == f \cup (config \cap {"phoneNumberId"})
    IN  IF ~ValidMediaUpload(g) THEN Refusal(400)
        ELSE IF "tooLarge" \in f THEN Refusal(413)
        ELSE UploadMediaDirect(HeaderToken(f))

RouteMediaDownload(f) ==
    IF "mediaId" \notin f THEN Refusal(400)
    ELSE IF "accessToken" \notin f \cup config THEN Refusal(503)
    ELSE Tells(f, {})

RouteMediaMeta(f) == IF "mediaId" \in f THEN Tells(f, {}) ELSE Refusal(400)

RouteProbe == Refusal(200)

VerbOf(endpoint) ==
    IF endpoint \in {"phone-numbers", "media/download", "media"} THEN "GET" ELSE "POST"

\* The route of a path, once its verb fits.
RouteOf(endpoint, f, verb) ==
    CASE endpoint = "templates" -> RouteTemplates(f, verb)
      [] endpoint = "send-template" -> SendTemplateDirect(f)
      [] endpoint = "send-text" -> RouteText(f)
      [] endpoint = "send-media" -> RouteMedia(f)
      [] endpoint = "send-interactive" -> RouteInteractive(f)
      [] endpoint = "send-product" -> RouteProduct(f)
      [] endpoint = "send-catalog" -> RouteCatalog(f)
      [] endpoint = "send-flow" -> RouteFlow(f)
      [] endpoint = "send-location" -> RouteLocation(f)
      [] endpoint = "send-contacts" -> RouteContacts(f)
      [] endpoint = "mark-read" -> MarkReadDirect(f)
      [] endpoint = "send-typing" -> SendTypingIndicatorDirect(f)
      [] endpoint = "social/send" -> RouteSocial(f)
      [] endpoint = "register-number" -> RouteRegisterNumber(f)
      [] endpoint = "subscribe-app" -> RouteSubscribeApp(f)
      [] endpoint = "phone-numbers" -> RoutePhoneNumbers(f)
      [] endpoint = "templates/edit" -> RouteTemplateEdit(f)
      [] endpoint = "templates/delete" -> RouteTemplateDelete(f)
      [] endpoint = "media-upload" -> RouteMediaUpload(f)
      [] endpoint = "media/download" -> RouteMediaDownload(f)
      [] endpoint = "media" -> RouteMediaMeta(f)
      [] endpoint = "rate-limit-probe" -> RouteProbe
      [] OTHER -> Refusal(404)

\* The shared secret first, then the path, then the verb.
HttpRoute(endpoint, f, secret, verb) ==
    IF ~secret THEN Refusal(401)
    ELSE IF endpoint \notin {"templates", "unknown"} /\ verb # VerbOf(endpoint) THEN Refusal(405)
    ELSE RouteOf(endpoint, f, verb)

-----------------------------------------------------------------------------
(***************************************************************************)
(* Requests: for each endpoint the fields its callers fill, in any         *)
(* combination; of optional texts copied alike one stands for all.         *)
(***************************************************************************)
FieldsOf ==
    [endpoint \in {"send-template", "send-text", "send-media", "send-interactive", "send-product",
                   "send-catalog", "send-flow", "send-location", "send-contacts", "mark-read",
                   "send-typing", "social/send", "register-number", "subscribe-app",
                   "phone-numbers", "templates", "templates/edit", "templates/delete",
                   "media-upload", "media/download", "media", "rate-limit-probe", "unknown"} |->
       CASE endpoint = "send-template" ->
              {"phoneNumberId", "to", "templateName", "templateLanguage", "parameters",
               "components"}
         [] endpoint = "send-text" -> {"phoneNumberId", "to", "text", "previewUrl"}
         [] endpoint = "send-media" ->
              {"phoneNumberId", "to", "link", "mediaId", "caption", "filename"} \cup MediaTypes
         [] endpoint = "send-interactive" ->
              {"phoneNumberId", "to", "bodyText", "headerText", "buttons", "sections", "ctaUrl",
               "ctaDisplayText"} \cup InteractiveTypes
         [] endpoint = "send-product" ->
              {"phoneNumberId", "to", "catalogId", "productRetailerId", "bodyText"}
         [] endpoint = "send-catalog" ->
              {"phoneNumberId", "to", "catalogId", "sections", "bodyText"}
         [] endpoint = "send-flow" ->
              {"phoneNumberId", "to", "flowId", "flowToken", "bodyText", "ctaButtonText", "draft"}
         [] endpoint = "send-location" -> {"phoneNumberId", "to", "latitude", "longitude", "name"}
         [] endpoint = "send-contacts" ->
              {"phoneNumberId", "to", "contacts", "formattedName", "phones"}
         [] endpoint \in {"mark-read", "send-typing"} -> {"phoneNumberId", "messageId"}
         [] endpoint = "social/send" -> {"pageId", "recipientId", "text", "tokenHeader"}
         [] endpoint = "register-number" -> {"phoneNumberId", "pin"}
         [] endpoint \in {"subscribe-app", "phone-numbers"} -> {"wabaId"}
         [] endpoint = "templates" ->
              {"wabaId", "name", "language", "category", "bodyText", "tokenHeader"}
         [] endpoint = "templates/edit" -> {"metaTemplateId", "category", "bodyText", "tokenHeader"}
         [] endpoint = "templates/delete" -> {"wabaId", "name", "metaTemplateId", "tokenHeader"}
         [] endpoint = "media-upload" ->
              {"phoneNumberId", "mimeType", "file", "tooLarge", "filename", "tokenHeader"}
         [] endpoint \in {"media", "media/download"} -> {"mediaId"}
         [] OTHER -> {}]

EndpointsInit ==
    /\ config \in Configs
    /\ \E endpoint \in DOMAIN FieldsOf, secret \in BOOLEAN, verb \in {"GET", "POST"} :
          \E f \in SUBSET (FieldsOf[endpoint] \cup {"accessToken"}) :
             /\ f = {} \/ secret
             /\ f = {} \/ verb = VerbOf(endpoint) \/ endpoint = "templates"
             /\ asked = [endpoint |-> endpoint, fields |-> f, secret |-> secret, verb |-> verb]
    /\ replies = <<>>

ServeInProcess ==
    /\ replies = <<>>
    /\ replies' = <<MetaDispatch(asked.endpoint, asked.fields)>>
    /\ UNCHANGED <<config, asked>>

ServeHttp ==
    /\ Len(replies) = 1
    /\ replies' = Append(replies, HttpRoute(asked.endpoint, asked.fields, asked.secret, asked.verb))
    /\ UNCHANGED <<config, asked>>

EndpointsNext == ServeInProcess \/ ServeHttp

EndpointsSpec == EndpointsInit /\ [][EndpointsNext]_endpointsVars

-----------------------------------------------------------------------------
\* The twins of a send, a case of metaDispatch and an HTTP route, refuse the same
\* requests and send Meta the same message with the same token; only a Messenger
\* or Instagram send loses over HTTP the token its payload carries.
TwinsAgree ==
    Len(replies) = 2 /\ asked.secret /\ asked.verb = "POST" /\ replies[1].status # 404 =>
        \/ replies[1] = replies[2]
        \/ /\ asked.endpoint = "social/send"
           /\ "tokenHeader" \in asked.fields <=> "accessToken" \notin asked.fields
           /\ [replies[1] EXCEPT !.token = replies[2].token] = replies[2]

=============================================================================
