------------------------------- MODULE Templates -------------------------------
(***************************************************************************)
(* The life of one message template, the key (tenant, name, language): its *)
(* row, the template Meta reviews, and the requests that change both, Meta *)
(* first and the row after it.                                             *)
(*                                                                         *)
(* The channel and its token are given; the patch is a new body.           *)
(***************************************************************************)
EXTENDS Naturals

CONSTANTS
    TemplateEditors,        \* callers of the template routes, one request at a time each
    Bodies,         \* texts
    MaxMade,        \* bound: rows created and templates accepted by Meta
    MaxBroken       \* bound: answers lost and row writes that fail

ASSUME TemplatesAssumption == {MaxMade, MaxBroken} \subseteq Nat

VARIABLES
    template,        \* the row: [id, link, status, body], link the Meta id (0: never submitted)
    remote,     \* the template at Meta: [id, status, body]
    templateRequest,    \* per editor: its request, with the row it read
    inUse,      \* a campaign references the row
    made,       \* rows and Meta templates made so far: the next id
    mayDiffer,    \* history: requests overlapped, or one ended half done, since the last sync
    broken

templatesVars == <<template, remote, templateRequest, inUse, made, mayDiffer, broken>>

NoTemplate == [id |-> 0, link |-> 0, status |-> "none", body |-> "none"]
NoTemplateRequest == [kind |-> "none", at |-> "idle", seen |-> NoTemplate, body |-> "none"]

TemplatesInit ==
    /\ template = NoTemplate
    /\ remote = NoTemplate
    /\ templateRequest = [e \in TemplateEditors |-> NoTemplateRequest]
    /\ inUse = FALSE
    /\ made = 0
    /\ mayDiffer = FALSE
    /\ broken = 0

Busy == {e \in TemplateEditors : templateRequest[e] # NoTemplateRequest}
Done(e) == templateRequest' = [templateRequest EXCEPT ![e] = NoTemplateRequest]

-----------------------------------------------------------------------------
(***************************************************************************)
(* Requests.                                                               *)
(***************************************************************************)
CreateTemplate(b) ==
    /\ template = NoTemplate
    /\ made < MaxMade
    /\ made' = made + 1
    /\ template' = [id |-> made', link |-> 0, status |-> "pending", body |-> b]
    /\ UNCHANGED <<remote, templateRequest, inUse, mayDiffer, broken>>

\* The row read at the start decides what the request asks of Meta.
BeginTemplate(e, kind, at, b) ==
    /\ templateRequest[e] = NoTemplateRequest
    /\ template # NoTemplate \/ kind = "sync"
    /\ templateRequest' = [templateRequest EXCEPT ![e] =
                              [kind |-> kind, at |-> at, seen |-> template, body |-> b]]
    /\ mayDiffer' = (mayDiffer \/ Busy # {})
    /\ UNCHANGED <<template, remote, inUse, made, broken>>

BeginSubmit(e) ==
    template.status # "approved" /\ BeginTemplate(e, "submit", "meta", template.body)

EditRowFirst(e, b) ==   \* mutant: the row of a submitted template is changed without Meta
    BeginTemplate(e, "edit", "row", b)
BeginEdit(e, b) == BeginTemplate(e, "edit", IF template.link = 0 THEN "row" ELSE "meta", b)
BeginDelete(e) == BeginTemplate(e, "delete", IF template.link = 0 THEN "row" ELSE "meta", "none")
BeginSync(e) == BeginTemplate(e, "sync", "meta", "none")

\* Meta knows one template per name and language, and edits by id. A submission
\* is a new template; every accepted edit is reviewed again.
MetaTakes(e) ==
    CASE templateRequest[e].kind = "submit" -> remote = NoTemplate
      [] templateRequest[e].kind = "sync" -> remote # NoTemplate
      [] OTHER -> remote.id = templateRequest[e].seen.link

AtMeta(e) ==
    LET asked == templateRequest[e]
    IN  CASE asked.kind = "submit" ->
                [id |-> made + 1, link |-> 0, status |-> "pending", body |-> asked.body]
          [] asked.kind = "edit" -> [remote EXCEPT !.body = asked.body, !.status = "pending"]
          [] asked.kind = "delete" -> NoTemplate
          [] OTHER -> remote

CallMeta(e) ==
    /\ templateRequest[e].at = "meta"
    /\ MetaTakes(e)
    /\ templateRequest[e].kind = "submit" => made < MaxMade
    /\ made' = IF templateRequest[e].kind = "submit" THEN made + 1 ELSE made
    /\ remote' = AtMeta(e)
    /\ UNCHANGED <<template, inUse>>

MetaAnswers(e) ==
    /\ CallMeta(e)
    /\ templateRequest' =
          [templateRequest EXCEPT
              ![e].at = "row",
              ![e].seen = CASE templateRequest[e].kind = "sync" -> remote
                            [] templateRequest[e].kind = "submit" -> [@ EXCEPT !.link = made']
                            [] OTHER -> @]
    /\ UNCHANGED <<mayDiffer, broken>>

\* 503: what Meta did is not known.
AnswerIsLost(e) ==
    /\ CallMeta(e)
    /\ broken < MaxBroken
    /\ broken' = broken + 1
    /\ mayDiffer' = (mayDiffer \/ templateRequest[e].kind # "sync")
    /\ Done(e)

MetaRefuses(e) ==
    /\ templateRequest[e].at = "meta"
    /\ Done(e)
    /\ UNCHANGED <<template, remote, inUse, made, mayDiffer, broken>>

\* "rejected" stands for paused too: neither keeps a submission back.
MetaReviews(verdict) ==
    /\ remote # NoTemplate
    /\ remote.status # verdict
    /\ remote' = [remote EXCEPT !.status = verdict]
    /\ UNCHANGED <<template, templateRequest, inUse, made, mayDiffer, broken>>

-----------------------------------------------------------------------------
(***************************************************************************)
(* The row's part of a request.                                            *)
(***************************************************************************)
Same(e) == template.id = templateRequest[e].seen.id

MarkSubmitted(e) ==
    /\ templateRequest[e].kind = "submit"
    /\ template' = IF ~Same(e) THEN template
                   ELSE [template EXCEPT !.link = templateRequest[e].seen.link,
                                         !.status = "pending"]
    /\ UNCHANGED <<inUse, mayDiffer>>

\* Only a row that was read with a link goes back to pending.
UpdateTemplate(e) ==
    /\ templateRequest[e].kind = "edit"
    /\ template' = IF ~Same(e) THEN template
                   ELSE [template EXCEPT
                            !.body = templateRequest[e].body,
                            !.status = IF templateRequest[e].seen.link = 0 THEN @ ELSE "pending"]
    /\ UNCHANGED <<inUse, mayDiffer>>

\* The foreign key of a campaign keeps the row, after Meta has deleted.
DeleteTemplate(e) ==
    /\ templateRequest[e].kind = "delete"
    /\ template' = IF Same(e) /\ ~inUse THEN NoTemplate ELSE template
    /\ mayDiffer' = (mayDiffer \/ (Same(e) /\ inUse))
    /\ UNCHANGED inUse

\* The item is as old as the list; what Meta changed since is missed.
UpsertFromMeta(e) ==
    /\ templateRequest[e].kind = "sync"
    /\ LET item == templateRequest[e].seen
       IN  /\ template' = [id |-> IF template = NoTemplate THEN item.id ELSE template.id,
                           link |-> item.id, status |-> item.status, body |-> item.body]
           /\ mayDiffer' = (Busy # {e} \/ [remote EXCEPT !.status = item.status] # item)
    /\ UNCHANGED inUse

WriteRow(e) ==
    /\ templateRequest[e].at = "row"
    /\ MarkSubmitted(e) \/ UpdateTemplate(e) \/ DeleteTemplate(e) \/ UpsertFromMeta(e)
    /\ Done(e)
    /\ UNCHANGED <<remote, made, broken>>

RowWriteFails(e) ==
    /\ templateRequest[e].at = "row"
    /\ broken < MaxBroken
    /\ broken' = broken + 1
    /\ mayDiffer' = TRUE
    /\ Done(e)
    /\ UNCHANGED <<template, remote, inUse, made>>

ReferenceTemplate ==
    /\ template # NoTemplate /\ ~inUse
    /\ inUse' = TRUE
    /\ UNCHANGED <<template, remote, templateRequest, made, mayDiffer, broken>>

TemplatesNext ==
    \/ \E b \in Bodies : CreateTemplate(b)
    \/ \E e \in TemplateEditors :
          \/ BeginSubmit(e) \/ BeginDelete(e) \/ BeginSync(e)
          \/ \E b \in Bodies : BeginEdit(e, b)
          \/ MetaAnswers(e) \/ AnswerIsLost(e) \/ MetaRefuses(e)
          \/ WriteRow(e) \/ RowWriteFails(e)
    \/ \E verdict \in {"approved", "rejected"} : MetaReviews(verdict)
    \/ ReferenceTemplate

TemplatesSpec == TemplatesInit /\ [][TemplatesNext]_templatesVars

-----------------------------------------------------------------------------
\* "The two never drift apart": between requests, a submitted row shows the text
\* Meta has and the id Meta knows, as long as no two requests overlapped and none
\* ended half done (a lost answer, a failed write, a campaign that keeps the row
\* of a template Meta deleted); the next sync that runs alone repairs the text.
TemplatesAgree ==
    Busy = {} /\ ~mayDiffer /\ template.link # 0 =>
        remote.id = template.link /\ remote.body = template.body

=============================================================================
