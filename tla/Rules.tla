-------------------------------- MODULE Rules ---------------------------------
(***************************************************************************)
(* An automation rule and an auto-reply rule: edits that validate the      *)
(* merge of the stored rule and the patch, then write only the patched     *)
(* columns, and the events that run the rules as they listed them.         *)
(*                                                                         *)
(* A rule's "use" is its action, or its match type, and "has" whether the  *)
(* field that use calls for is there: the assignee, the tag, the keyword.  *)
(* A template action is like a tag's.                                      *)
(***************************************************************************)
EXTENDS TLC

CONSTANT RuleEditors   \* concurrent PATCH requests

RuleKinds == {"automation", "reply"}
Uses == [automation |-> {"assign_agent", "add_tag", "create_task"}, reply |-> {"keyword", "any"}]
NoRule == [use |-> "none", has |-> FALSE, enabled |-> FALSE]

VARIABLES
    kind,      \* which of the two the rule is
    rule,      \* its row, or NoRule
    edit,      \* per editor: the patch between its validation and its write, <<>> for none
    listed,    \* the rule as an event that has yet to act on it found it, or NoRule
    acted      \* history: the rule as it last did something, or NoRule

rulesVars == <<kind, rule, edit, listed, acted>>

RulesInit ==
    /\ kind \in RuleKinds
    /\ rule = NoRule
    /\ edit = [e \in RuleEditors |-> <<>>]
    /\ listed = NoRule
    /\ acted = NoRule

-----------------------------------------------------------------------------
\* What the routes insist on: an assignment's agent and a keyword match's keyword.
Valid(r) == r.use \in {"assign_agent", "keyword"} => r.has

Merge(r, patch) == [f \in DOMAIN r |-> IF f \in DOMAIN patch THEN patch[f] ELSE r[f]]

RulePatches ==
    {[enabled |-> b] : b \in BOOLEAN}
    \cup {[use |-> u] : u \in Uses[kind]}
    \cup {[has |-> b] : b \in IF kind = "reply" THEN {TRUE} ELSE BOOLEAN}
    \cup {[use |-> u, has |-> TRUE] : u \in Uses[kind]}

CreateRule ==
    /\ rule = NoRule
    /\ rule' \in [use : Uses[kind], has : BOOLEAN, enabled : BOOLEAN]
    /\ Valid(rule')
    /\ rule'.use = "any" => ~rule'.has
    /\ UNCHANGED <<kind, edit, listed, acted>>

DeleteRule ==
    /\ rule # NoRule
    /\ rule' = NoRule
    /\ UNCHANGED <<kind, edit, listed, acted>>

\* The row is read, and what the patch would make of it validated; a reply rule
\* that would match anything has its keyword cleared by the same patch.
ValidatePatch(e) ==
    /\ edit[e] = <<>>
    /\ rule # NoRule
    /\ \E p \in RulePatches :
          LET merged == Merge(rule, p) IN
          /\ Valid(merged)
          /\ edit' = [edit EXCEPT ![e] =
                IF merged.use = "any" THEN [has |-> FALSE] @@ p ELSE p]
    /\ UNCHANGED <<kind, rule, listed, acted>>

\* The patched columns of the row as it is by now, if there still is one.
WritePatch(e) ==
    /\ edit[e] # <<>>
    /\ rule' = IF rule = NoRule THEN NoRule ELSE Merge(rule, edit[e])
    /\ edit' = [edit EXCEPT ![e] = <<>>]
    /\ UNCHANGED <<kind, listed, acted>>

\* An event lists the enabled rules, and acts on them as it listed them.
ListEnabled ==
    /\ listed = NoRule
    /\ rule.enabled
    /\ listed' = rule
    /\ UNCHANGED <<kind, rule, edit, acted>>

FiresAsValidated(r) == TRUE   \* mutant: relies on the routes' validation

\* planAction and matchAutoReply pass over a rule without the field it needs.
Fires(r) == r.use \in {"create_task", "any"} \/ r.has

Act ==
    /\ listed # NoRule
    /\ acted' = IF Fires(listed) THEN listed ELSE acted
    /\ listed' = NoRule
    /\ UNCHANGED <<kind, rule, edit>>

RulesNext ==
    \/ CreateRule \/ DeleteRule \/ ListEnabled \/ Act
    \/ \E e \in RuleEditors : ValidatePatch(e) \/ WritePatch(e)

RulesSpec == RulesInit /\ [][RulesNext]_rulesVars

-----------------------------------------------------------------------------
\* Two edits that are each valid against the row they read can leave a keyword
\* rule without a keyword and an assignment without an agent: such a rule does
\* nothing, neither answering every message nor assigning to nobody.
HalfEditedRulesDoNothing == Valid(acted)

=============================================================================
