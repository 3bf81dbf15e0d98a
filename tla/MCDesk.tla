-------------------------------- MODULE MCDesk --------------------------------
(***************************************************************************)
(* The components behind the agents' desk, thirteen modules that share no  *)
(* state: a behaviour runs one of them, the focus, and leaves the others   *)
(* in one initial state, so that one run checks them all on the sum of     *)
(* their state spaces instead of the product.                              *)
(***************************************************************************)
EXTENDS Sends, NoReply, Endpoints, Templates, Channels, Users, Rotation, Inbox, Contacts,
        Rules, Flows, Orders, Tasks

VARIABLE focus

deskVars == <<focus, sendsVars, noReplyVars, endpointsVars, templatesVars, channelsVars,
              usersVars, rotationVars, inboxVars, contactsVars, rulesVars, flowsVars,
              ordersVars, tasksVars>>

\* Concurrent actors of one kind are interchangeable; every kind has the same two.
TwoOfAKind == Permutations(Workers)

MCDelay == [r \in NoReplyRules |-> r]
MCConfigs == {{}, ConfigFields}

MCRoleSets == {{"agent"}, {"owner", "agent"}}

MCDeskInit ==
    /\ focus \in {"sends", "noReply", "endpoints", "templates", "channels", "users",
                  "rotation", "inbox", "contacts", "rules", "flows", "orders", "tasks"}
    /\ NoReplyInit /\ TemplatesInit /\ ChannelsInit /\ RotationInit
    /\ InboxInit /\ ContactsInit /\ OrdersInit /\ TasksInit
    /\ UsersInit /\ (focus # "users" => \A u \in Founders : column[u] = {"owner"})
    /\ SendsInit /\ (focus # "sends" => consented /\ windowOpen)
    /\ RulesInit /\ (focus # "rules" => kind = "reply")
    /\ IF focus = "endpoints" THEN EndpointsInit
       ELSE config = {} /\ asked = {} /\ replies = <<>>
    /\ IF focus = "flows" THEN FlowsInit
       ELSE definition = <<>> /\ flowStatus = "draft" /\ sessions = <<>> /\ handling = <<>>

MCDeskNext ==
    /\ UNCHANGED focus
    /\ IF focus = "sends" THEN SendsNext ELSE UNCHANGED sendsVars
    /\ IF focus = "noReply" THEN NoReplyNext ELSE UNCHANGED noReplyVars
    /\ IF focus = "endpoints" THEN EndpointsNext ELSE UNCHANGED endpointsVars
    /\ IF focus = "templates" THEN TemplatesNext ELSE UNCHANGED templatesVars
    /\ IF focus = "channels" THEN ChannelsNext ELSE UNCHANGED channelsVars
    /\ IF focus = "users" THEN UsersNext ELSE UNCHANGED usersVars
    /\ IF focus = "rotation" THEN RotationNext ELSE UNCHANGED rotationVars
    /\ IF focus = "inbox" THEN InboxNext ELSE UNCHANGED inboxVars
    /\ IF focus = "contacts" THEN ContactsNext ELSE UNCHANGED contactsVars
    /\ IF focus = "rules" THEN RulesNext ELSE UNCHANGED rulesVars
    /\ IF focus = "flows" THEN FlowsNext ELSE UNCHANGED flowsVars
    /\ IF focus = "orders" THEN OrdersNext ELSE UNCHANGED ordersVars
    /\ IF focus = "tasks" THEN TasksNext ELSE UNCHANGED tasksVars

MCDeskSpec == MCDeskInit /\ [][MCDeskNext]_deskVars

==============================================================================
