------------------------------ MODULE MCServices ------------------------------
(***************************************************************************)
(* The services between the desk and the outside world, and the outbox as  *)
(* something that ends: six modules that share no state. As in MCDesk a    *)
(* behaviour runs one of them, the focus; in the state the others stay in, *)
(* nothing their fairness asks for is enabled, so that it constrains the   *)
(* focus only.                                                             *)
(***************************************************************************)
EXTENDS Outbox, Broker, Drip, GraphApi, MediaFetch, RealmKeys

VARIABLE focus

servicesVars == <<focus, vars, brokerVars, dripVars, graphVars, mediaVars, realmVars>>

MCKindOf ==
    [c \in Calls |-> CASE c = "c1" -> "message" [] c = "c2" -> "upload" [] OTHER -> "read"]

MCServicesInit ==
    /\ focus \in {"outbox", "broker", "drip", "graph", "media", "realm"}
    /\ Init /\ BrokerInit /\ DripInit /\ GraphInit /\ MediaInit
    /\ RealmKeysInit
    /\ focus # "realm" =>
          published = Keys /\ reachable /\ kid = [v \in Verifiers |-> CHOOSE k \in Keys : TRUE]

MCServicesNext ==
    /\ UNCHANGED focus
    /\ IF focus = "outbox" THEN Next ELSE UNCHANGED vars
    /\ IF focus = "broker" THEN BrokerNext ELSE UNCHANGED brokerVars
    /\ IF focus = "drip" THEN DripNext ELSE UNCHANGED dripVars
    /\ IF focus = "graph" THEN GraphNext ELSE UNCHANGED graphVars
    /\ IF focus = "media" THEN MediaNext ELSE UNCHANGED mediaVars
    /\ IF focus = "realm" THEN RealmKeysNext ELSE UNCHANGED realmVars

MCServicesSpec ==
    /\ MCServicesInit
    /\ [][MCServicesNext]_servicesVars
    /\ Fairness /\ BrokerFairness /\ MediaFairness /\ RealmKeysFairness

==============================================================================
